----------------------------- MODULE MailSession -----------------------------
(***************************************************************************)
(* A mail-session process and the connections that share it.               *)
(*                                                                         *)
(* The process serves one user.  All POP3 and IMAP connections of the user *)
(* reach the same session.Session, whose selected folder, message list and *)
(* POP3 deletion marks are therefore shared; Server.mu makes each RPC one  *)
(* critical section, and only deliveries, which come from other processes, *)
(* interleave with it.  A POP3 connection lists INBOX when it logs in,     *)
(* keeps its own DELE marks and sends them at QUIT, one Delete RPC each,   *)
(* then one Expunge RPC.  IMAP connections send RPCs at any time.          *)
(*                                                                         *)
(* A message is a body; UIDs are per folder and never reused (see          *)
(* MaildirFolder).                                                         *)
(***************************************************************************)
EXTENDS Integers, FiniteSets

CONSTANTS
  Folders, Inbox,
  Bodies,     \* messages that may be delivered or appended
  Pops,       \* POP3 connections
  Watches,    \* Watch streams
  None,       \* nobody is inside a critical section
  MaxUid,     \* bound on UIDs assigned in a folder
  MaxOpen,    \* bound on POP3 connections and Watch streams open at once
  MaxCrashes  \* bound on restarts of the process

ASSUME MailSessionConstants ==
  /\ Inbox \in Folders
  /\ MaxUid \in Nat /\ MaxOpen \in Nat /\ MaxCrashes \in Nat

VARIABLES
  mail,      \* folder -> (UID -> body)
  flag,      \* folder -> UIDs with the flag \Deleted
  next,      \* folder -> next UID
  sel,       \* Session.selectedFolder
  msgs,      \* Session.msgs, as a set of UIDs
  deleted,   \* Session.deleted
  busy,      \* the handler that holds Server.mu across two steps
  ppc,       \* state of a POP3 connection, with the answer to its last QUIT
  plist,     \* its messageList, as a set of UIDs of INBOX
  pdel,      \* its deletedSet
  ptodo,     \* UIDs commitDeletions has still to delete
  perr,      \* firstErr of commitDeletions is set
  stale,     \* connections whose token died with an earlier process
  wfolder,   \* folder of a Watch stream, or None
  known,     \* UIDs there when the stream began
  scanned,   \* UIDs of the stream's last rescan
  reported,  \* UIDs the stream has sent
  crashes,
  delivered, \* history: bodies ever stored
  requested  \* history: bodies some client asked to delete

store == <<mail, flag, next, delivered>>
sess == <<sel, msgs, deleted>>
pop == <<ppc, plist, pdel, ptodo, perr, stale>>
watch == <<wfolder, known, scanned, reported>>
vars == <<store, sess, busy, pop, watch, crashes, requested>>

Uids(f) == DOMAIN mail[f]
Empty == [u \in {} |-> None]

Open == {p \in Pops : ppc[p] \in {"transaction", "update"}}
          \cup {w \in Watches : wfolder[w] # None}

Init ==
  /\ mail = [f \in Folders |-> Empty]
  /\ flag = [f \in Folders |-> {}] /\ next = [f \in Folders |-> 1]
  /\ sel = Inbox /\ msgs = {} /\ deleted = {} /\ busy = None
  /\ ppc = [p \in Pops |-> "authorization"]
  /\ plist = [p \in Pops |-> {}] /\ pdel = [p \in Pops |-> {}]
  /\ ptodo = [p \in Pops |-> {}] /\ perr = [p \in Pops |-> FALSE]
  /\ stale = {}
  /\ wfolder = [w \in Watches |-> None]
  /\ known = [w \in Watches |-> {}] /\ scanned = [w \in Watches |-> {}]
  /\ reported = [w \in Watches |-> {}]
  /\ crashes = 0 /\ delivered = {} /\ requested = {}

----------------------------------------------------------------------------
(* Pieces of the handlers. *)

\* Session.Select: select the folder and cache its message list.
Select(f) == sel' = f /\ msgs' = Uids(f)

\* A new message in a folder.
Stored(f, b) ==
  /\ next[f] <= MaxUid
  /\ mail' = [mail EXCEPT ![f] = [u \in Uids(f) \cup {next[f]} |->
                                    IF u = next[f] THEN b ELSE mail[f][u]]]
  /\ next' = [next EXCEPT ![f] = @ + 1]

\* Faulty variant: the flags of removed messages stay behind.
UnstoredButFlagged(f, us) ==
  /\ mail' = [mail EXCEPT ![f] = [u \in Uids(f) \ us |-> mail[f][u]]]
  /\ UNCHANGED flag

\* The messages us leave a folder.
Unstored(f, us) ==
  /\ mail' = [mail EXCEPT ![f] = [u \in Uids(f) \ us |-> mail[f][u]]]
  /\ flag' = [flag EXCEPT ![f] = @ \ us]

----------------------------------------------------------------------------
(* Deliveries, by other processes; not ordered by Server.mu. *)

Deliver(f, b) ==
  /\ b \notin delivered
  /\ Stored(f, b)
  /\ delivered' = delivered \cup {b}
  /\ UNCHANGED <<flag, sess, busy, pop, watch, crashes, requested>>

----------------------------------------------------------------------------
(* RPCs of IMAP connections. *)

\* List, Stat, Fetch, FetchHeaders, SearchContent and every RPC that fails after
\* its Select; POP3's RETR and TOP are Fetch of INBOX.
List(f) ==
  /\ busy = None
  /\ Select(f)
  /\ UNCHANGED <<store, deleted, busy, pop, watch, crashes, requested>>

Append(f, b) ==
  /\ busy = None /\ b \notin delivered
  /\ Stored(f, b)
  /\ delivered' = delivered \cup {b}
  /\ UNCHANGED <<flag, sess, busy, pop, watch, crashes, requested>>

SetFlags(f, u, on) ==
  /\ busy = None /\ u \in Uids(f)
  /\ Select(f)
  /\ flag' = [flag EXCEPT ![f] = IF on THEN @ \cup {u} ELSE @ \ {u}]
  /\ requested' = IF on THEN requested \cup {mail[f][u]} ELSE requested
  /\ UNCHANGED <<mail, next, delivered, deleted, busy, pop, watch, crashes>>

Copy(f, u, g) ==
  /\ busy = None /\ u \in Uids(f)
  /\ Select(f)
  /\ Stored(g, mail[f][u])
  /\ UNCHANGED <<flag, delivered, deleted, busy, pop, watch, crashes, requested>>

\* Faulty variant: also removes what POP3 marked, in whatever folder is expunged.
ExpungeMarkedToo(f) ==
  /\ busy = None
  /\ Select(f)
  /\ Unstored(f, flag[f] \cup (deleted \cap Uids(f)))
  /\ UNCHANGED <<next, delivered, deleted, busy, watch, crashes, requested>>

\* Expunge removes what carries \Deleted and selects the folder again.
Expunge(f) ==
  /\ busy = None
  /\ sel' = f /\ msgs' = Uids(f) \ flag[f]
  /\ Unstored(f, flag[f])
  /\ UNCHANGED <<next, delivered, deleted, busy, watch, crashes, requested>>

\* MoveMessage does not select: copy first, then delete and expunge the source.
MoveCopies(f, u, g) ==
  /\ busy = None /\ u \in Uids(f) /\ f # g
  /\ Stored(g, mail[f][u])
  /\ busy' = <<"move", f, u>>
  /\ UNCHANGED <<flag, delivered, sess, pop, watch, crashes, requested>>

MoveRemoves ==
  /\ busy # None /\ busy[1] = "move"
  /\ Unstored(busy[2], {busy[3]})
  /\ busy' = None
  /\ UNCHANGED <<next, delivered, sess, pop, watch, crashes, requested>>

\* Deleting or expunging the source fails: the copy stays.
MoveFails ==
  /\ busy # None /\ busy[1] = "move"
  /\ busy' = None
  /\ UNCHANGED <<store, sess, pop, watch, crashes, requested>>

----------------------------------------------------------------------------
(* POP3 connections. *)

\* PASS or AUTH: log in and list INBOX; when the List fails the connection is
\* authenticated all the same, without messages.
PopLogin(p) ==
  /\ busy = None /\ ppc[p] \in {"authorization", "ok", "err"}
  /\ Cardinality(Open) < MaxOpen
  /\ ppc' = [ppc EXCEPT ![p] = "transaction"]
  /\ \/ Select(Inbox) /\ plist' = [plist EXCEPT ![p] = Uids(Inbox)]
     \/ UNCHANGED <<sel, msgs, plist>>
  /\ UNCHANGED <<store, deleted, busy, pdel, ptodo, perr, stale, watch, crashes, requested>>

\* DELE marks in the connection only.
Dele(p, u) ==
  /\ ppc[p] = "transaction" /\ u \in plist[p] \ pdel[p]
  /\ pdel' = [pdel EXCEPT ![p] = @ \cup {u}]
  /\ UNCHANGED <<store, sess, busy, ppc, plist, ptodo, perr, stale, watch, crashes, requested>>

Rset(p) ==
  /\ ppc[p] = "transaction" /\ pdel[p] # {}
  /\ pdel' = [pdel EXCEPT ![p] = {}]
  /\ UNCHANGED <<store, sess, busy, ppc, plist, ptodo, perr, stale, watch, crashes, requested>>

\* The connection ends with the answer a: Cleanup, and the next one is new.
Cleanup(p, a) ==
  /\ ppc' = [ppc EXCEPT ![p] = a]
  /\ plist' = [plist EXCEPT ![p] = {}] /\ pdel' = [pdel EXCEPT ![p] = {}]
  /\ perr' = [perr EXCEPT ![p] = FALSE]
  /\ stale' = stale \ {p}
  /\ UNCHANGED ptodo

\* The client goes away, or says QUIT without marks: nothing is committed.
Disconnect(p) ==
  /\ ppc[p] = "transaction"
  /\ Cleanup(p, "authorization")
  /\ UNCHANGED <<store, sess, busy, watch, crashes, requested>>

\* QUIT with marks enters the UPDATE state.
Quit(p) ==
  /\ ppc[p] = "transaction" /\ pdel[p] # {}
  /\ ppc' = [ppc EXCEPT ![p] = "update"]
  /\ ptodo' = [ptodo EXCEPT ![p] = pdel[p]]
  /\ requested' = requested \cup {mail[Inbox][u] : u \in pdel[p] \cap Uids(Inbox)}
  /\ UNCHANGED <<store, sess, busy, plist, pdel, perr, stale, watch, crashes>>

\* A write with a dead token fails and is not repeated; the session may recover.
WriteFails(p) ==
  /\ p \in stale
  /\ stale' \in {stale, stale \ {p}}

\* Faulty variant: only the error of Expunge reaches the client.
DeleteIgnoringErrors(p, u) ==
  /\ busy = None /\ ppc[p] = "update" /\ u \in ptodo[p]
  /\ ptodo' = [ptodo EXCEPT ![p] = @ \ {u}]
  /\ \/ WriteFails(p) /\ UNCHANGED deleted
     \/ /\ p \notin stale /\ UNCHANGED stale
        /\ deleted' = IF u \in msgs THEN deleted \cup {u} ELSE deleted
  /\ UNCHANGED <<store, sel, msgs, busy, ppc, plist, pdel, perr, watch, crashes, requested>>

\* One Delete RPC of commitDeletions.  Session.Delete looks the UID up in the
\* list of whatever folder was selected last.
Delete(p, u) ==
  /\ busy = None /\ ppc[p] = "update" /\ u \in ptodo[p]
  /\ ptodo' = [ptodo EXCEPT ![p] = @ \ {u}]
  /\ \/ /\ WriteFails(p)
        /\ perr' = [perr EXCEPT ![p] = TRUE]
        /\ UNCHANGED deleted
     \/ /\ p \notin stale /\ u \in msgs \ deleted
        /\ deleted' = deleted \cup {u}
        /\ UNCHANGED <<perr, stale>>
     \/ /\ p \notin stale /\ u \notin msgs \ deleted
        /\ perr' = [perr EXCEPT ![p] = TRUE]
        /\ UNCHANGED <<deleted, stale>>
  /\ UNCHANGED <<store, sel, msgs, busy, ppc, plist, pdel, watch, crashes, requested>>

\* The Expunge RPC that ends commitDeletions, and the answer to QUIT.
CommitExpunges(p) ==
  /\ ppc[p] = "update" /\ ptodo[p] = {} /\ p \notin stale
  /\ Expunge(Inbox)
  /\ Cleanup(p, IF perr[p] THEN "err" ELSE "ok")

CommitFails(p) ==
  /\ busy = None /\ ppc[p] = "update" /\ ptodo[p] = {}
  /\ p \in stale
  /\ Cleanup(p, "err")
  /\ UNCHANGED <<store, sess, busy, watch, crashes, requested>>

----------------------------------------------------------------------------
(* Watch streams. *)

WatchBegins(w, f) ==
  /\ busy = None /\ wfolder[w] = None
  /\ Cardinality(Open) < MaxOpen
  /\ Select(f)
  /\ wfolder' = [wfolder EXCEPT ![w] = f]
  /\ known' = [known EXCEPT ![w] = Uids(f)]
  /\ scanned' = [scanned EXCEPT ![w] = Uids(f)]
  /\ UNCHANGED <<store, deleted, busy, pop, reported, crashes, requested>>

\* Faulty variant: the tick rescans whatever folder is selected.
TickWithoutSelect(w) ==
  /\ busy = None /\ wfolder[w] # None
  /\ busy' = <<"watch", w>>
  /\ UNCHANGED <<store, sess, pop, watch, crashes, requested>>

\* A tick selects the folder again, then rescans, without releasing Server.mu.
TickSelects(w) ==
  /\ busy = None /\ wfolder[w] # None
  /\ Select(wfolder[w])
  /\ busy' = <<"watch", w>>
  /\ UNCHANGED <<store, deleted, pop, watch, crashes, requested>>

\* Session.Rescan of the selected folder, and the event sent.
TickRescans(w) ==
  /\ busy = <<"watch", w>>
  /\ reported' = [reported EXCEPT ![w] = @ \cup (Uids(sel) \ msgs)]
  /\ scanned' = [scanned EXCEPT ![w] = Uids(sel)]
  /\ msgs' = Uids(sel)
  /\ busy' = None
  /\ UNCHANGED <<store, sel, deleted, pop, wfolder, known, crashes, requested>>

WatchEnds(w) ==
  /\ wfolder[w] # None /\ busy # <<"watch", w>>
  /\ wfolder' = [wfolder EXCEPT ![w] = None]
  /\ known' = [known EXCEPT ![w] = {}] /\ scanned' = [scanned EXCEPT ![w] = {}]
  /\ reported' = [reported EXCEPT ![w] = {}]
  /\ UNCHANGED <<store, sess, busy, pop, crashes, requested>>

----------------------------------------------------------------------------

\* The process dies at any point and a new one lists INBOX; streams end, and the
\* tokens of the connections die with their entry.
Restart ==
  /\ crashes < MaxCrashes
  /\ crashes' = crashes + 1
  /\ sel' = Inbox /\ msgs' = Uids(Inbox) /\ deleted' = {} /\ busy' = None
  /\ stale' = Open \cap Pops
  /\ wfolder' = [w \in Watches |-> None]
  /\ known' = [w \in Watches |-> {}] /\ scanned' = [w \in Watches |-> {}]
  /\ reported' = [w \in Watches |-> {}]
  /\ UNCHANGED <<store, ppc, plist, pdel, ptodo, perr, requested>>

Next ==
  \/ \E f \in Folders, b \in Bodies : Deliver(f, b) \/ Append(f, b)
  \/ \E f \in Folders : List(f) \/ (Expunge(f) /\ UNCHANGED pop)
  \/ \E f \in Folders, u \in 1..MaxUid :
       \/ \E on \in BOOLEAN : SetFlags(f, u, on)
       \/ \E g \in Folders : Copy(f, u, g) \/ MoveCopies(f, u, g)
  \/ MoveRemoves \/ MoveFails
  \/ \E p \in Pops :
       \/ PopLogin(p) \/ Rset(p) \/ Disconnect(p) \/ Quit(p)
       \/ CommitExpunges(p) \/ CommitFails(p)
       \/ \E u \in 1..MaxUid : Dele(p, u) \/ Delete(p, u)
  \/ \E w \in Watches :
       \/ TickSelects(w) \/ TickRescans(w) \/ WatchEnds(w)
       \/ \E f \in Folders : WatchBegins(w, f)
  \/ Restart

Spec == Init /\ [][Next]_vars

----------------------------------------------------------------------------
(* Properties. *)

PopStates == {"authorization", "transaction", "update", "ok", "err"}

\* Every variable has its type; flags, and UIDs handed out, name messages the
\* folder has, or had.
TypeOK ==
  LET U == 1..MaxUid
      Messages == UNION {[us -> Bodies] : us \in SUBSET U}
  IN /\ mail \in [Folders -> Messages]
     /\ next \in [Folders -> 1..MaxUid + 1]
     /\ \A f \in Folders : flag[f] \subseteq Uids(f) /\ Uids(f) \subseteq 1..next[f] - 1
     /\ sel \in Folders /\ msgs \subseteq U /\ deleted \subseteq U
     /\ busy \in {None} \cup ({"move"} \X Folders \X U) \cup ({"watch"} \X Watches)
     /\ ppc \in [Pops -> PopStates]
     /\ plist \in [Pops -> SUBSET U] /\ perr \in [Pops -> BOOLEAN]
     /\ \A p \in Pops : ptodo[p] \subseteq pdel[p] /\ pdel[p] \subseteq plist[p]
     /\ stale \subseteq Pops
     /\ wfolder \in [Watches -> Folders \cup {None}]
     /\ known \in [Watches -> SUBSET U]
     /\ scanned \in [Watches -> SUBSET U] /\ reported \in [Watches -> SUBSET U]
     /\ crashes \in 0..MaxCrashes
     /\ delivered \subseteq Bodies /\ requested \subseteq delivered

\* A message that was stored is in some folder for as long as no client asked to
\* delete it: neither a move that dies between its copy and its removal, nor an
\* expunge of one connection in the folder another one selected, loses it
\* (Session.MoveMessage, Session.Expunge).
KeptUnlessRequested ==
  \A b \in delivered \ requested :
    \E f \in Folders : \E u \in Uids(f) : mail[f][u] = b

\* When QUIT is about to answer +OK, the process that expunges holds all the
\* marks of the connection: a restart between two of its Delete RPCs is not
\* hidden from the client (commitDeletions).
QuitOkMeansAllMarked ==
  [][\A p \in Pops : ppc[p] = "update" /\ ppc'[p] = "ok" => pdel[p] \subseteq deleted]_vars

\* A Watch stream never reports a message that was in its folder when it began,
\* whatever folders the other connections select between two ticks (Watch).
WatchReportsOnlyArrivals ==
  \A w \in Watches : reported[w] \cap known[w] = {}

\* "commit deletions BEFORE answering": when QUIT answers +OK the messages the
\* connection deleted have left INBOX (quitCommand.Execute).
QuitOkMeansRemoved ==
  [][\A p \in Pops : ppc[p] = "update" /\ ppc'[p] = "ok"
       => pdel[p] \cap DOMAIN mail'[Inbox] = {}]_vars

\* "New messages appeared in the folder": after a tick, the stream has reported
\* every message of the folder that was not there when it began (Watch).
WatchReportsArrivals ==
  \A w \in Watches : wfolder[w] # None => scanned[w] \subseteq known[w] \cup reported[w]
============================================================================
