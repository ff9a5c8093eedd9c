--------------------------- MODULE SessionManager ---------------------------
(***************************************************************************)
(* session-manager's Manager: one mail-session child process per user,     *)
(* shared by the user's connections and counted by their tokens.           *)
(*                                                                         *)
(* A Login is three critical sections of m.mu at most: it looks the user   *)
(* up, and if there is no live session it spawns a child outside the lock  *)
(* and takes the lock again to register it.  Beside it run the idle timer  *)
(* of an entry, whose reapSession waits for the lock in a goroutine of its *)
(* own, and one monitorProcess goroutine per registered child.             *)
(*                                                                         *)
(* A client is a connection of pop3d, imapd or smtpd; it holds one token   *)
(* at a time, so the token is named after it.  An entry whose child, timer *)
(* and goroutines are gone is used again for the next spawn, which is the  *)
(* only difference between Entries and the heap.                           *)
(***************************************************************************)
EXTENDS Integers, FiniteSets

CONSTANTS
  Users,
  Clients,   \* connections that log in
  Entries,   \* sessionEntry objects that can exist at the same time
  None,      \* "no entry" and "no user"
  MaxReaps   \* bound on calls of reapSession for one entry at one time

ASSUME SessionConstants ==
  /\ None \notin Users \cup Entries
  /\ IsFiniteSet(Clients)
  /\ MaxReaps \in Nat

VARIABLES
  byUser,    \* Manager.byUser
  byToken,   \* Manager.byToken, a token being its client
  user,      \* entry.username
  ref,       \* entry.refCount
  timer,     \* entry.idleTimer is set and has not fired
  reaps,     \* calls of reapSession(entry) that wait for the lock
  child,     \* the entry's process: up, exited (a zombie), waited for
  monitor,   \* the entry's monitorProcess goroutine
  lpc,       \* each client's place in Login
  luser,     \* the user a client logs in as
  lentry,    \* the entry a Login spawned and has not registered yet
  killed,    \* history: entries whose process the manager terminated
  closed     \* Close has run

vars == <<byUser, byToken, user, ref, timer, reaps, child, monitor, lpc, luser,
          lentry, killed, closed>>

TokensOf(e) == {c \in Clients : byToken[c] = e}

Init ==
  /\ byUser = [u \in Users |-> None] /\ byToken = [c \in Clients |-> None]
  /\ user = [e \in Entries |-> None] /\ ref = [e \in Entries |-> 0]
  /\ timer = [e \in Entries |-> FALSE] /\ reaps = [e \in Entries |-> 0]
  /\ child = [e \in Entries |-> "none"] /\ monitor = [e \in Entries |-> "none"]
  /\ lpc = [c \in Clients |-> "out"] /\ luser = [c \in Clients |-> None]
  /\ lentry = [c \in Clients |-> None]
  /\ killed = {} /\ closed = FALSE

----------------------------------------------------------------------------
(* Pieces of the critical sections. *)

\* isAliveLocked: signal 0 also succeeds on a zombie.
isAlive(e) == child[e] \in {"up", "exited"}

DropTokens(e) == [c \in Clients |-> IF byToken[c] = e THEN None ELSE byToken[c]]

\* killEntry: SIGTERM and Wait, unless the process was waited for already.
killEntry(e) ==
  /\ child' = [child EXCEPT ![e] = "waited"]
  /\ killed' = IF child[e] = "waited" THEN killed ELSE killed \cup {e}

\* Faulty variant of Reuse: the new reference is not counted.
ReuseUncounted(c, e) ==
  /\ timer' = [timer EXCEPT ![e] = FALSE]
  /\ byToken' = [byToken EXCEPT ![c] = e]
  /\ lpc' = [lpc EXCEPT ![c] = "in"]
  /\ UNCHANGED ref

\* The part of Login that reuses entry e: stop its timer, count, issue a token.
Reuse(c, e) ==
  /\ timer' = [timer EXCEPT ![e] = FALSE]
  /\ ref' = [ref EXCEPT ![e] = @ + 1]
  /\ byToken' = [byToken EXCEPT ![c] = e]
  /\ lpc' = [lpc EXCEPT ![c] = "in"]

\* Nothing refers to the entry any more.
Free(e) ==
  /\ child[e] \in {"none", "waited"} /\ monitor[e] \in {"none", "done"}
  /\ ~timer[e] /\ reaps[e] = 0 /\ TokensOf(e) = {}
  /\ \A u \in Users : byUser[u] # e
  /\ \A c \in Clients : lentry[c] # e

----------------------------------------------------------------------------
(* Login. *)

\* Authentication succeeded; a live session is reused.
LoginReuses(c, u, e) ==
  /\ ~closed /\ lpc[c] = "out"
  /\ byUser[u] = e /\ isAlive(e)
  /\ Reuse(c, e)
  /\ luser' = [luser EXCEPT ![c] = u]
  /\ UNCHANGED <<byUser, user, reaps, child, monitor, lentry, killed, closed>>

\* The registered process was waited for: removeEntryLocked, then spawn.
LoginRemovesStale(c, u, e) ==
  /\ ~closed /\ lpc[c] = "out"
  /\ byUser[u] = e /\ ~isAlive(e)
  /\ timer' = [timer EXCEPT ![e] = FALSE]
  /\ byUser' = [byUser EXCEPT ![u] = None]
  /\ byToken' = DropTokens(e)
  /\ killEntry(e)
  /\ lpc' = [lpc EXCEPT ![c] = "spawning"]
  /\ luser' = [luser EXCEPT ![c] = u]
  /\ UNCHANGED <<user, ref, reaps, monitor, lentry, closed>>

\* No session is registered: spawn one.
LoginMisses(c, u) ==
  /\ ~closed /\ lpc[c] = "out"
  /\ byUser[u] = None
  /\ lpc' = [lpc EXCEPT ![c] = "spawning"]
  /\ luser' = [luser EXCEPT ![c] = u]
  /\ UNCHANGED <<byUser, byToken, user, ref, timer, reaps, child, monitor, lentry,
                 killed, closed>>

\* Faulty variant of Spawn: the spawning Login itself is not counted.
SpawnFromZero(c, e) ==
  /\ ~closed /\ lpc[c] = "spawning"
  /\ Free(e)
  /\ child' = [child EXCEPT ![e] = "up"]
  /\ monitor' = [monitor EXCEPT ![e] = "none"]
  /\ user' = [user EXCEPT ![e] = luser[c]]
  /\ ref' = [ref EXCEPT ![e] = 0]
  /\ killed' = killed \ {e}
  /\ lentry' = [lentry EXCEPT ![c] = e]
  /\ lpc' = [lpc EXCEPT ![c] = "register"]
  /\ UNCHANGED <<byUser, byToken, timer, reaps, luser, closed>>

\* spawnSession, outside the lock: the child said READY.
Spawn(c, e) ==
  /\ ~closed /\ lpc[c] = "spawning"
  /\ Free(e)
  /\ child' = [child EXCEPT ![e] = "up"]
  /\ monitor' = [monitor EXCEPT ![e] = "none"]
  /\ user' = [user EXCEPT ![e] = luser[c]]
  /\ ref' = [ref EXCEPT ![e] = 1]
  /\ killed' = killed \ {e}
  /\ lentry' = [lentry EXCEPT ![c] = e]
  /\ lpc' = [lpc EXCEPT ![c] = "register"]
  /\ UNCHANGED <<byUser, byToken, timer, reaps, luser, closed>>

\* spawnSession fails or times out; Login returns the error.
SpawnFails(c) ==
  /\ ~closed /\ lpc[c] = "spawning"
  /\ lpc' = [lpc EXCEPT ![c] = "out"]
  /\ luser' = [luser EXCEPT ![c] = None]
  /\ UNCHANGED <<byUser, byToken, user, ref, timer, reaps, child, monitor, lentry,
                 killed, closed>>

\* Another Login registered a session meanwhile: discard ours, reuse theirs.
RegisterLoses(c, e) ==
  /\ ~closed /\ lpc[c] = "register"
  /\ byUser[luser[c]] = e /\ e # None
  /\ killEntry(lentry[c])
  /\ Reuse(c, e)
  /\ lentry' = [lentry EXCEPT ![c] = None]
  /\ UNCHANGED <<byUser, user, reaps, monitor, luser, closed>>

\* The spawned session is registered and monitored.
RegisterWins(c) ==
  /\ ~closed /\ lpc[c] = "register"
  /\ byUser[luser[c]] = None
  /\ byUser' = [byUser EXCEPT ![luser[c]] = lentry[c]]
  /\ byToken' = [byToken EXCEPT ![c] = lentry[c]]
  /\ monitor' = [monitor EXCEPT ![lentry[c]] = "waiting"]
  /\ lentry' = [lentry EXCEPT ![c] = None]
  /\ lpc' = [lpc EXCEPT ![c] = "in"]
  /\ UNCHANGED <<user, ref, timer, reaps, child, luser, killed, closed>>

----------------------------------------------------------------------------
(* Logout. *)

\* Faulty variant of Logout: off by one, the timer waits for a negative count.
LogoutArmsLate(c) ==
  /\ ~closed /\ lpc[c] = "in"
  /\ byToken[c] # None
  /\ LET e == byToken[c] IN
       /\ ref' = [ref EXCEPT ![e] = @ - 1]
       /\ timer' = [timer EXCEPT ![e] = ref[e] - 1 < 0]
  /\ byToken' = [byToken EXCEPT ![c] = None]
  /\ lpc' = [lpc EXCEPT ![c] = "out"]
  /\ luser' = [luser EXCEPT ![c] = None]
  /\ UNCHANGED <<byUser, user, reaps, child, monitor, lentry, killed, closed>>

\* The last reference arms the idle timer.
Logout(c) ==
  /\ ~closed /\ lpc[c] = "in"
  /\ byToken[c] # None
  /\ LET e == byToken[c] IN
       /\ ref' = [ref EXCEPT ![e] = @ - 1]
       /\ timer' = [timer EXCEPT ![e] = ref[e] - 1 <= 0]
  /\ byToken' = [byToken EXCEPT ![c] = None]
  /\ lpc' = [lpc EXCEPT ![c] = "out"]
  /\ luser' = [luser EXCEPT ![c] = None]
  /\ UNCHANGED <<byUser, user, reaps, child, monitor, lentry, killed, closed>>

\* The token was removed with its session: "unknown session token".
LogoutUnknown(c) ==
  /\ ~closed /\ lpc[c] = "in"
  /\ byToken[c] = None
  /\ lpc' = [lpc EXCEPT ![c] = "out"]
  /\ luser' = [luser EXCEPT ![c] = None]
  /\ UNCHANGED <<byUser, byToken, user, ref, timer, reaps, child, monitor, lentry,
                 killed, closed>>

----------------------------------------------------------------------------
(* Timers, processes and their goroutines. *)

\* The idle timer fires; its goroutine has yet to get the lock.
TimerFires(e) ==
  /\ ~closed /\ timer[e] /\ reaps[e] < MaxReaps
  /\ timer' = [timer EXCEPT ![e] = FALSE]
  /\ reaps' = [reaps EXCEPT ![e] = @ + 1]
  /\ UNCHANGED <<byUser, byToken, user, ref, child, monitor, lpc, luser, lentry, killed,
                 closed>>

\* reapSession finds the session in use again.
ReapSpares(e) ==
  /\ ~closed /\ reaps[e] > 0 /\ ref[e] > 0
  /\ reaps' = [reaps EXCEPT ![e] = @ - 1]
  /\ UNCHANGED <<byUser, byToken, user, ref, timer, child, monitor, lpc, luser, lentry,
                 killed, closed>>

\* Faulty variant of reapSession: no second look at the reference count.
ReapWithoutDoubleCheck(e) ==
  /\ ~closed /\ reaps[e] > 0
  /\ reaps' = [reaps EXCEPT ![e] = @ - 1]
  /\ byUser' = [byUser EXCEPT ![user[e]] = None]
  /\ byToken' = DropTokens(e)
  /\ killEntry(e)
  /\ UNCHANGED <<user, ref, timer, monitor, lpc, luser, lentry, closed>>

\* reapSession: the user's registration is deleted, whichever entry it names.
reapSession(e) ==
  /\ ~closed /\ reaps[e] > 0 /\ ref[e] <= 0
  /\ reaps' = [reaps EXCEPT ![e] = @ - 1]
  /\ byUser' = [byUser EXCEPT ![user[e]] = None]
  /\ byToken' = DropTokens(e)
  /\ killEntry(e)
  /\ UNCHANGED <<user, ref, timer, monitor, lpc, luser, lentry, closed>>

\* The child exits by itself: its own idle timeout, or a crash.
ChildExits(e) ==
  /\ ~closed /\ child[e] = "up"
  /\ child' = [child EXCEPT ![e] = "exited"]
  /\ UNCHANGED <<byUser, byToken, user, ref, timer, reaps, monitor, lpc, luser, lentry,
                 killed, closed>>

\* cmd.Wait returns in monitorProcess, which now waits for the lock.
MonitorWakes(e) ==
  /\ ~closed /\ monitor[e] = "waiting" /\ child[e] \in {"exited", "waited"}
  /\ child' = [child EXCEPT ![e] = "waited"]
  /\ monitor' = [monitor EXCEPT ![e] = "cleanup"]
  /\ UNCHANGED <<byUser, byToken, user, ref, timer, reaps, lpc, luser, lentry, killed,
                 closed>>

\* monitorProcess under the lock: clean up if this entry is still registered.
MonitorCleans(e) ==
  /\ ~closed /\ monitor[e] = "cleanup"
  /\ monitor' = [monitor EXCEPT ![e] = "done"]
  /\ IF byUser[user[e]] = e
     THEN /\ timer' = [timer EXCEPT ![e] = FALSE]
          /\ byUser' = [byUser EXCEPT ![user[e]] = None]
          /\ byToken' = DropTokens(e)
     ELSE UNCHANGED <<timer, byUser, byToken>>
  /\ UNCHANGED <<user, ref, reaps, child, lpc, luser, lentry, killed, closed>>

\* Close kills what is registered; the process then ends.
Close ==
  /\ ~closed
  /\ LET es == {byUser[u] : u \in Users} \ {None} IN
       /\ timer' = [e \in Entries |-> timer[e] /\ e \notin es]
       /\ child' = [e \in Entries |-> IF e \in es THEN "waited" ELSE child[e]]
       /\ killed' = killed \cup {e \in es : child[e] # "waited"}
  /\ byUser' = [u \in Users |-> None]
  /\ byToken' = [c \in Clients |-> None]
  /\ closed' = TRUE
  /\ UNCHANGED <<user, ref, reaps, monitor, lpc, luser, lentry>>

----------------------------------------------------------------------------
Login(c) ==
  \/ \E u \in Users : \/ LoginMisses(c, u)
                      \/ \E e \in Entries : LoginReuses(c, u, e) \/ LoginRemovesStale(c, u, e)
  \/ \E e \in Entries : Spawn(c, e) \/ RegisterLoses(c, e)
  \/ SpawnFails(c) \/ RegisterWins(c)

Background(e) ==
  \/ TimerFires(e) \/ ReapSpares(e) \/ reapSession(e)
  \/ MonitorWakes(e) \/ MonitorCleans(e)

Next ==
  \/ \E c \in Clients : Login(c) \/ Logout(c) \/ LogoutUnknown(c)
  \/ \E e \in Entries : Background(e) \/ ChildExits(e)
  \/ Close

Spec == Init /\ [][Next]_vars

\* Timers fire and goroutines that wait for the lock get it.  Clients are free
\* to stay logged in for ever.
FairSpec == Spec /\ \A e \in Entries : WF_vars(Background(e))

----------------------------------------------------------------------------
(* Properties. *)

\* The type of every variable.
TypeOK ==
  /\ byUser \in [Users -> Entries \cup {None}]
  /\ byToken \in [Clients -> Entries \cup {None}]
  /\ user \in [Entries -> Users \cup {None}]
  /\ ref \in [Entries -> Nat]
  /\ timer \in [Entries -> BOOLEAN] /\ reaps \in [Entries -> Nat]
  /\ child \in [Entries -> {"none", "up", "exited", "waited"}]
  /\ monitor \in [Entries -> {"none", "waiting", "cleanup", "done"}]
  /\ lpc \in [Clients -> {"out", "spawning", "register", "in"}]
  /\ luser \in [Clients -> Users \cup {None}]
  /\ lentry \in [Clients -> Entries \cup {None}]
  /\ killed \subseteq Entries /\ closed \in BOOLEAN

\* refCount is the number of tokens of a session that can be reached by a
\* token or by its user's name, through every race of Login, Logout, reap and
\* monitor.
RefCountsTokens ==
  \A e \in Entries :
    (TokensOf(e) # {} \/ \E u \in Users : byUser[u] = e)
      => ref[e] = Cardinality(TokensOf(e))

\* reapSession's double check works: no step but Close terminates the process
\* of a session for which some client holds a valid token.
KilledOnlyWhenIdle ==
  [][\A e \in killed' \ killed : TokensOf(e) = {} \/ closed']_vars

\* No process is forgotten: a mail-session that no token reaches and no Login
\* is about to register gets a client again or is ended.
IdleSessionIsReaped ==
  \A e \in Entries :
    (child[e] = "up" /\ TokensOf(e) = {} /\ \A c \in Clients : lentry[c] # e)
      ~> (child[e] # "up" \/ TokensOf(e) # {} \/ closed)

\* "sessionEntry tracks a single per-user mail-session process": a user's
\* connections all reach one process.
OneSessionPerUser ==
  \A c, d \in Clients :
    byToken[c] # None /\ byToken[d] # None /\ luser[c] = luser[d]
      => byToken[c] = byToken[d]
============================================================================
