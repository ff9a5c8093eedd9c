----------------------- MODULE SessionManagerProofs -----------------------
(***************************************************************************)
(* Theorems about SessionManager for any users, any finite set of clients, *)
(* and any number of sessionEntry objects.                                 *)
(***************************************************************************)
EXTENDS SessionManager, FiniteSetTheorems, TLAPS

\* A client has a token only when its Login has returned, and an entry of its
\* own only while it registers one.  That entry is a running or ended process
\* with one reference, which nobody else knows of.
LoginInv ==
  /\ \A c \in Clients : lpc[c] # "in" => byToken[c] = None
  /\ \A c \in Clients : lpc[c] # "out" => luser[c] \in Users
  /\ \A c \in Clients : lpc[c] # "register" => lentry[c] = None
  /\ \A c \in Clients : lpc[c] = "register" =>
       /\ lentry[c] \in Entries
       /\ ref[lentry[c]] = 1 /\ child[lentry[c]] # "none"
       /\ user[lentry[c]] = luser[c]
       /\ TokensOf(lentry[c]) = {}
       /\ \A u \in Users : byUser[u] # lentry[c]
       /\ \A d \in Clients : lentry[d] = lentry[c] => d = c

\* What is registered is registered under its own user and was started.
RegistryInv ==
  \A u \in Users : byUser[u] # None => user[byUser[u]] = u /\ child[byUser[u]] # "none"

\* The inductive invariant.
SessionInv == TypeOK /\ RefCountsTokens /\ LoginInv /\ RegistryInv

----------------------------------------------------------------------------
(* Counting tokens. *)

\* Only finitely many clients hold a token of an entry.
LEMMA TokensFinite ==
  \A e \in Entries : IsFiniteSet(TokensOf(e)) /\ Cardinality(TokensOf(e)) \in Nat
<1> TAKE e \in Entries
<1>1. TokensOf(e) \subseteq Clients
  BY DEF TokensOf
<1>2. IsFiniteSet(TokensOf(e))
  BY <1>1, SessionConstants, FS_Subset
<1> QED
  BY <1>2, FS_CardinalityType

\* No token changes hands.
LEMMA TokensSame ==
  ASSUME UNCHANGED byToken
  PROVE  \A e \in Entries : TokensOf(e)' = TokensOf(e)
  BY DEF TokensOf

\* A client gets a token of e.
LEMMA TokenAdded ==
  ASSUME TypeOK, NEW c \in Clients, NEW e \in Entries,
         byToken[c] = None, byToken' = [byToken EXCEPT ![c] = e]
  PROVE  /\ \A x \in Entries \ {e} : TokensOf(x)' = TokensOf(x)
         /\ TokensOf(e)' = TokensOf(e) \cup {c}
         /\ Cardinality(TokensOf(e)') = Cardinality(TokensOf(e)) + 1
<1>1. \A x \in Entries \ {e} : TokensOf(x)' = TokensOf(x)
  BY SessionConstants DEF TypeOK, TokensOf
<1>2. TokensOf(e)' = TokensOf(e) \cup {c} /\ c \notin TokensOf(e)
  BY SessionConstants DEF TypeOK, TokensOf
<1>3. Cardinality(TokensOf(e) \cup {c}) = Cardinality(TokensOf(e)) + 1
  BY <1>2, TokensFinite, FS_AddElement
<1> QED
  BY <1>1, <1>2, <1>3

\* A client gives its token of e back.
LEMMA TokenRemoved ==
  ASSUME TypeOK, NEW c \in Clients, NEW e \in Entries,
         byToken[c] = e, byToken' = [byToken EXCEPT ![c] = None]
  PROVE  /\ \A x \in Entries \ {e} : TokensOf(x)' = TokensOf(x)
         /\ TokensOf(e)' = TokensOf(e) \ {c}
         /\ Cardinality(TokensOf(e)') = Cardinality(TokensOf(e)) - 1
         /\ Cardinality(TokensOf(e)) # 0
<1>1. \A x \in Entries \ {e} : TokensOf(x)' = TokensOf(x)
  BY SessionConstants DEF TypeOK, TokensOf
<1>2. TokensOf(e)' = TokensOf(e) \ {c} /\ c \in TokensOf(e)
  BY SessionConstants DEF TypeOK, TokensOf
<1>3. Cardinality(TokensOf(e) \ {c}) = Cardinality(TokensOf(e)) - 1
  BY <1>2, TokensFinite, FS_RemoveElement
<1>4. Cardinality(TokensOf(e)) # 0
  BY <1>2, TokensFinite, FS_EmptySet
<1> QED
  BY <1>1, <1>2, <1>3, <1>4

\* All tokens of e are dropped.
LEMMA TokensDropped ==
  ASSUME TypeOK, NEW e \in Entries, byToken' = DropTokens(e)
  PROVE  /\ \A x \in Entries \ {e} : TokensOf(x)' = TokensOf(x)
         /\ TokensOf(e)' = {}
         /\ byToken' \in [Clients -> Entries \cup {None}]
         /\ \A c \in Clients : byToken[c] = None => byToken'[c] = None
  BY SessionConstants DEF TypeOK, TokensOf, DropTokens

----------------------------------------------------------------------------
(* Every step keeps the invariant. *)

\* Nothing is registered and nobody is logged in at the start.
LEMMA InitSessionInv == Init => SessionInv
<1> SUFFICES ASSUME Init PROVE SessionInv
  OBVIOUS
<1>1. TypeOK
  BY DEF Init, TypeOK
<1>2. \A e \in Entries : TokensOf(e) = {}
  BY SessionConstants DEF Init, TokensOf
<1>3. RefCountsTokens
  BY <1>2, SessionConstants DEF Init, RefCountsTokens
<1>4. LoginInv
  BY DEF Init, LoginInv
<1>5. RegistryInv
  BY DEF Init, RegistryInv
<1> QED
  BY <1>1, <1>3, <1>4, <1>5 DEF SessionInv

\* Every step keeps SessionInv: Login counts the token it issues, on its own
\* entry or on the winner's, Logout takes its own off, and whoever removes an
\* entry drops all its tokens.
LEMMA NextSessionInv == SessionInv /\ [Next]_vars => SessionInv'
<1> SUFFICES ASSUME SessionInv, [Next]_vars PROVE SessionInv'
  OBVIOUS
<1>0. TypeOK /\ RefCountsTokens /\ LoginInv /\ RegistryInv
  BY DEF SessionInv
<1> USE <1>0, SessionConstants
<1>1. ASSUME NEW c \in Clients, NEW u \in Users, NEW e \in Entries, LoginReuses(c, u, e)
       PROVE  SessionInv'
  <2>b. byToken[c] = None /\ byToken' = [byToken EXCEPT ![c] = e]
    BY <1>1 DEF LoginReuses, Reuse, isAlive, LoginInv
  <2>1. /\ \A x \in Entries \ {e} : TokensOf(x)' = TokensOf(x)
        /\ TokensOf(e)' = TokensOf(e) \cup {c}
        /\ Cardinality(TokensOf(e)') = Cardinality(TokensOf(e)) + 1
    BY <2>b, TokenAdded
  <2>r. /\ ref' = [ref EXCEPT ![e] = ref[e] + 1]
        /\ ref'[e] = Cardinality(TokensOf(e)') /\ ref'[e] \in Nat
    <3>1. \E u_1 \in Users : byUser[u_1] = e
      BY <1>1 DEF LoginReuses, Reuse, isAlive, LoginInv
    <3>2. ref[e] = Cardinality(TokensOf(e))
      BY <3>1 DEF RefCountsTokens
    <3>3. ref' = [ref EXCEPT ![e] = ref[e] + 1]
      BY <1>1 DEF LoginReuses, Reuse, isAlive
    <3>4. ref \in [Entries -> Nat]
      BY DEF TypeOK
    <3> QED
      BY <3>2, <3>3, <3>4, <2>1, TokensFinite
  <2>2. TypeOK'
    BY <1>1, <2>r DEF LoginReuses, Reuse, isAlive, TypeOK, LoginInv
  <2>3. RefCountsTokens'
    <3>1. \A x \in Entries \ {e} : ref'[x] = ref[x]
      BY <2>r DEF TypeOK
    <3>2. \A x \in Entries \ {e}, v \in Users : byUser'[v] = x => byUser[v] = x
      BY <1>1 DEF LoginReuses, Reuse, isAlive, TypeOK, LoginInv
    <3> SUFFICES ASSUME NEW x \in Entries, TokensOf(x)' # {} \/ \E v \in Users : byUser'[v] = x
                 PROVE  ref'[x] = Cardinality(TokensOf(x)')
      BY DEF RefCountsTokens
    <3>3. CASE x = e
      BY <3>3, <2>r
    <3>4. CASE x # e
      <4>1. TokensOf(x)' = TokensOf(x) /\ ref'[x] = ref[x]
        BY <3>4, <3>1, <2>1
      <4>2. TokensOf(x) # {} \/ \E v \in Users : byUser[v] = x
        BY <4>1, <3>2, <3>4
      <4>3. ref[x] = Cardinality(TokensOf(x))
        BY <4>2 DEF RefCountsTokens
      <4> QED
        BY <4>1, <4>3
    <3> QED
      BY <3>3, <3>4
  <2>4. LoginInv'
    BY <1>1, <2>1 DEF LoginReuses, Reuse, isAlive, TypeOK, LoginInv, RegistryInv
  <2>5. RegistryInv'
    BY <1>1 DEF LoginReuses, Reuse, isAlive, TypeOK, LoginInv, RegistryInv
  <2> QED
    BY <2>2, <2>3, <2>4, <2>5 DEF SessionInv
<1>2. ASSUME NEW c \in Clients, NEW u \in Users, NEW e \in Entries, LoginRemovesStale(c, u, e)
       PROVE  SessionInv'
  <2>1. /\ \A x \in Entries \ {e} : TokensOf(x)' = TokensOf(x)
        /\ TokensOf(e)' = {}
        /\ byToken' \in [Clients -> Entries \cup {None}]
        /\ \A d \in Clients : byToken[d] = None => byToken'[d] = None
    BY <1>2, TokensDropped DEF LoginRemovesStale, isAlive, killEntry
  <2>2. TypeOK'
    BY <1>2, <2>1 DEF LoginRemovesStale, isAlive, killEntry, TypeOK, LoginInv
  <2>3. RefCountsTokens'
    BY <1>2, <2>1
       DEF LoginRemovesStale, isAlive, killEntry, TypeOK, RefCountsTokens, LoginInv, RegistryInv
  <2>4. LoginInv'
    BY <1>2, <2>1 DEF LoginRemovesStale, isAlive, killEntry, TypeOK, LoginInv, RegistryInv
  <2>5. RegistryInv'
    BY <1>2 DEF LoginRemovesStale, isAlive, killEntry, TypeOK, LoginInv, RegistryInv
  <2> QED
    BY <2>2, <2>3, <2>4, <2>5 DEF SessionInv
<1>3. ASSUME NEW c \in Clients, NEW u \in Users, LoginMisses(c, u) PROVE SessionInv'
  <2>1. \A x \in Entries : TokensOf(x)' = TokensOf(x)
    BY <1>3, TokensSame DEF LoginMisses
  <2>2. TypeOK'
    BY <1>3, <2>1 DEF LoginMisses, TypeOK, LoginInv
  <2>3. RefCountsTokens'
    BY <1>3, <2>1 DEF LoginMisses, TypeOK, RefCountsTokens, LoginInv, RegistryInv
  <2>4. LoginInv'
    BY <1>3, <2>1 DEF LoginMisses, TypeOK, LoginInv, RegistryInv
  <2>5. RegistryInv'
    BY <1>3 DEF LoginMisses, TypeOK, LoginInv, RegistryInv
  <2> QED
    BY <2>2, <2>3, <2>4, <2>5 DEF SessionInv
<1>4. ASSUME NEW c \in Clients, NEW e \in Entries, Spawn(c, e) PROVE SessionInv'
  <2>1. \A x \in Entries : TokensOf(x)' = TokensOf(x)
    BY <1>4, TokensSame DEF Spawn, Free
  <2>2. TypeOK'
    BY <1>4, <2>1 DEF Spawn, Free, TypeOK, LoginInv
  <2>3. RefCountsTokens'
    BY <1>4, <2>1 DEF Spawn, Free, TypeOK, RefCountsTokens, LoginInv, RegistryInv
  <2>4. LoginInv'
    BY <1>4, <2>1 DEF Spawn, Free, TypeOK, LoginInv, RegistryInv
  <2>5. RegistryInv'
    BY <1>4 DEF Spawn, Free, TypeOK, LoginInv, RegistryInv
  <2> QED
    BY <2>2, <2>3, <2>4, <2>5 DEF SessionInv
<1>5. ASSUME NEW c \in Clients, SpawnFails(c) PROVE SessionInv'
  <2>1. \A x \in Entries : TokensOf(x)' = TokensOf(x)
    BY <1>5, TokensSame DEF SpawnFails
  <2>2. TypeOK'
    BY <1>5, <2>1 DEF SpawnFails, TypeOK, LoginInv
  <2>3. RefCountsTokens'
    BY <1>5, <2>1 DEF SpawnFails, TypeOK, RefCountsTokens, LoginInv, RegistryInv
  <2>4. LoginInv'
    BY <1>5, <2>1 DEF SpawnFails, TypeOK, LoginInv, RegistryInv
  <2>5. RegistryInv'
    BY <1>5 DEF SpawnFails, TypeOK, LoginInv, RegistryInv
  <2> QED
    BY <2>2, <2>3, <2>4, <2>5 DEF SessionInv
<1>6. ASSUME NEW c \in Clients, NEW e \in Entries, RegisterLoses(c, e) PROVE SessionInv'
  <2>b. byToken[c] = None /\ byToken' = [byToken EXCEPT ![c] = e]
    BY <1>6 DEF RegisterLoses, Reuse, killEntry, LoginInv
  <2>1. /\ \A x \in Entries \ {e} : TokensOf(x)' = TokensOf(x)
        /\ TokensOf(e)' = TokensOf(e) \cup {c}
        /\ Cardinality(TokensOf(e)') = Cardinality(TokensOf(e)) + 1
    BY <2>b, TokenAdded
  <2>r. /\ ref' = [ref EXCEPT ![e] = ref[e] + 1]
        /\ ref'[e] = Cardinality(TokensOf(e)') /\ ref'[e] \in Nat
    <3>1. \E u_1 \in Users : byUser[u_1] = e
      BY <1>6 DEF RegisterLoses, Reuse, killEntry, LoginInv
    <3>2. ref[e] = Cardinality(TokensOf(e))
      BY <3>1 DEF RefCountsTokens
    <3>3. ref' = [ref EXCEPT ![e] = ref[e] + 1]
      BY <1>6 DEF RegisterLoses, Reuse, killEntry
    <3>4. ref \in [Entries -> Nat]
      BY DEF TypeOK
    <3> QED
      BY <3>2, <3>3, <3>4, <2>1, TokensFinite
  <2>2. TypeOK'
    BY <1>6, <2>r DEF RegisterLoses, Reuse, killEntry, TypeOK, LoginInv
  <2>3. RefCountsTokens'
    <3>1. \A x \in Entries \ {e} : ref'[x] = ref[x]
      BY <2>r DEF TypeOK
    <3>2. \A x \in Entries \ {e}, v \in Users : byUser'[v] = x => byUser[v] = x
      BY <1>6 DEF RegisterLoses, Reuse, killEntry, TypeOK, LoginInv
    <3> SUFFICES ASSUME NEW x \in Entries, TokensOf(x)' # {} \/ \E v \in Users : byUser'[v] = x
                 PROVE  ref'[x] = Cardinality(TokensOf(x)')
      BY DEF RefCountsTokens
    <3>3. CASE x = e
      BY <3>3, <2>r
    <3>4. CASE x # e
      <4>1. TokensOf(x)' = TokensOf(x) /\ ref'[x] = ref[x]
        BY <3>4, <3>1, <2>1
      <4>2. TokensOf(x) # {} \/ \E v \in Users : byUser[v] = x
        BY <4>1, <3>2, <3>4
      <4>3. ref[x] = Cardinality(TokensOf(x))
        BY <4>2 DEF RefCountsTokens
      <4> QED
        BY <4>1, <4>3
    <3> QED
      BY <3>3, <3>4
  <2>4. LoginInv'
    BY <1>6, <2>1 DEF RegisterLoses, Reuse, killEntry, TypeOK, LoginInv, RegistryInv
  <2>5. RegistryInv'
    BY <1>6 DEF RegisterLoses, Reuse, killEntry, TypeOK, LoginInv, RegistryInv
  <2> QED
    BY <2>2, <2>3, <2>4, <2>5 DEF SessionInv
<1>7. ASSUME NEW c \in Clients, RegisterWins(c) PROVE SessionInv'
  <2>e. PICK e \in Entries : e = lentry[c]
    BY <1>7 DEF RegisterWins, TypeOK, LoginInv
  <2>b. byToken[c] = None /\ byToken' = [byToken EXCEPT ![c] = e]
    BY <1>7, <2>e DEF RegisterWins, LoginInv
  <2>1. /\ \A x \in Entries \ {e} : TokensOf(x)' = TokensOf(x)
        /\ TokensOf(e)' = TokensOf(e) \cup {c}
        /\ Cardinality(TokensOf(e)') = Cardinality(TokensOf(e)) + 1
    BY <2>b, TokenAdded
  <2>r. ref'[e] = Cardinality(TokensOf(e)') /\ ref' = ref
    <3>1. TokensOf(e) = {} /\ ref[e] = 1 /\ ref' = ref
      BY <1>7, <2>e DEF RegisterWins, LoginInv
    <3> QED
      BY <3>1, <2>1, FS_EmptySet
  <2>2. TypeOK'
    BY <1>7, <2>e, <2>r DEF RegisterWins, TypeOK, LoginInv
  <2>3. RefCountsTokens'
    <3>1. \A x \in Entries \ {e} : ref'[x] = ref[x]
      BY <2>r DEF TypeOK
    <3>2. \A x \in Entries \ {e}, v \in Users : byUser'[v] = x => byUser[v] = x
      BY <1>7, <2>e DEF RegisterWins, TypeOK, LoginInv
    <3> SUFFICES ASSUME NEW x \in Entries, TokensOf(x)' # {} \/ \E v \in Users : byUser'[v] = x
                 PROVE  ref'[x] = Cardinality(TokensOf(x)')
      BY DEF RefCountsTokens
    <3>3. CASE x = e
      BY <3>3, <2>r
    <3>4. CASE x # e
      <4>1. TokensOf(x)' = TokensOf(x) /\ ref'[x] = ref[x]
        BY <3>4, <3>1, <2>1
      <4>2. TokensOf(x) # {} \/ \E v \in Users : byUser[v] = x
        BY <4>1, <3>2, <3>4
      <4>3. ref[x] = Cardinality(TokensOf(x))
        BY <4>2 DEF RefCountsTokens
      <4> QED
        BY <4>1, <4>3
    <3> QED
      BY <3>3, <3>4
  <2>4. LoginInv'
    BY <1>7, <2>1, <2>e DEF RegisterWins, TypeOK, LoginInv, RegistryInv
  <2>5. RegistryInv'
    BY <1>7, <2>e DEF RegisterWins, TypeOK, LoginInv, RegistryInv
  <2> QED
    BY <2>2, <2>3, <2>4, <2>5 DEF SessionInv
<1>8. ASSUME NEW c \in Clients, Logout(c) PROVE SessionInv'
  <2>e. PICK e \in Entries : e = byToken[c]
    BY <1>8 DEF Logout, TypeOK, LoginInv
  <2>b. byToken[c] = e /\ byToken' = [byToken EXCEPT ![c] = None]
    BY <1>8, <2>e DEF Logout
  <2>1. /\ \A x \in Entries \ {e} : TokensOf(x)' = TokensOf(x)
        /\ TokensOf(e)' = TokensOf(e) \ {c}
        /\ Cardinality(TokensOf(e)') = Cardinality(TokensOf(e)) - 1
        /\ Cardinality(TokensOf(e)) # 0
    BY <2>b, TokenRemoved
  <2>r. /\ ref' = [ref EXCEPT ![e] = ref[e] - 1]
        /\ ref'[e] = Cardinality(TokensOf(e)') /\ ref'[e] \in Nat
    <3>1. TokensOf(e) # {}
      BY <2>1, FS_EmptySet
    <3>2. ref[e] = Cardinality(TokensOf(e))
      BY <3>1 DEF RefCountsTokens
    <3>3. ref' = [ref EXCEPT ![e] = ref[e] - 1]
      BY <1>8, <2>e DEF Logout
    <3>4. ref \in [Entries -> Nat]
      BY DEF TypeOK
    <3> QED
      BY <3>2, <3>3, <3>4, <2>1, TokensFinite
  <2>2. TypeOK'
    BY <1>8, <2>e, <2>r DEF Logout, TypeOK, LoginInv
  <2>3. RefCountsTokens'
    <3>1. \A x \in Entries \ {e} : ref'[x] = ref[x]
      BY <2>r DEF TypeOK
    <3>2. \A x \in Entries \ {e}, v \in Users : byUser'[v] = x => byUser[v] = x
      BY <1>8, <2>e DEF Logout, TypeOK, LoginInv
    <3> SUFFICES ASSUME NEW x \in Entries, TokensOf(x)' # {} \/ \E v \in Users : byUser'[v] = x
                 PROVE  ref'[x] = Cardinality(TokensOf(x)')
      BY DEF RefCountsTokens
    <3>3. CASE x = e
      BY <3>3, <2>r
    <3>4. CASE x # e
      <4>1. TokensOf(x)' = TokensOf(x) /\ ref'[x] = ref[x]
        BY <3>4, <3>1, <2>1
      <4>2. TokensOf(x) # {} \/ \E v \in Users : byUser[v] = x
        BY <4>1, <3>2, <3>4
      <4>3. ref[x] = Cardinality(TokensOf(x))
        BY <4>2 DEF RefCountsTokens
      <4> QED
        BY <4>1, <4>3
    <3> QED
      BY <3>3, <3>4
  <2>s. \A x \in Entries : TokensOf(x) = {} => TokensOf(x)' = {} /\ ref'[x] = ref[x]
    BY <2>1, <2>r, FS_EmptySet DEF TypeOK
  <2>4. LoginInv'
    BY <1>8, <2>s DEF Logout, TypeOK, LoginInv
  <2>5. RegistryInv'
    BY <1>8, <2>e DEF Logout, TypeOK, LoginInv, RegistryInv
  <2> QED
    BY <2>2, <2>3, <2>4, <2>5 DEF SessionInv
<1>9. ASSUME NEW c \in Clients, LogoutUnknown(c) PROVE SessionInv'
  <2>1. \A x \in Entries : TokensOf(x)' = TokensOf(x)
    BY <1>9, TokensSame DEF LogoutUnknown
  <2>2. TypeOK'
    BY <1>9, <2>1 DEF LogoutUnknown, TypeOK, LoginInv
  <2>3. RefCountsTokens'
    BY <1>9, <2>1 DEF LogoutUnknown, TypeOK, RefCountsTokens, LoginInv, RegistryInv
  <2>4. LoginInv'
    BY <1>9, <2>1 DEF LogoutUnknown, TypeOK, LoginInv, RegistryInv
  <2>5. RegistryInv'
    BY <1>9 DEF LogoutUnknown, TypeOK, LoginInv, RegistryInv
  <2> QED
    BY <2>2, <2>3, <2>4, <2>5 DEF SessionInv
<1>10. ASSUME NEW e \in Entries, TimerFires(e) PROVE SessionInv'
  <2>1. \A x \in Entries : TokensOf(x)' = TokensOf(x)
    BY <1>10, TokensSame DEF TimerFires
  <2>2. TypeOK'
    BY <1>10, <2>1 DEF TimerFires, TypeOK, LoginInv
  <2>3. RefCountsTokens'
    BY <1>10, <2>1 DEF TimerFires, TypeOK, RefCountsTokens, LoginInv, RegistryInv
  <2>4. LoginInv'
    BY <1>10, <2>1 DEF TimerFires, TypeOK, LoginInv, RegistryInv
  <2>5. RegistryInv'
    BY <1>10 DEF TimerFires, TypeOK, LoginInv, RegistryInv
  <2> QED
    BY <2>2, <2>3, <2>4, <2>5 DEF SessionInv
<1>11. ASSUME NEW e \in Entries, ReapSpares(e) PROVE SessionInv'
  <2>1. \A x \in Entries : TokensOf(x)' = TokensOf(x)
    BY <1>11, TokensSame DEF ReapSpares
  <2>2. TypeOK'
    BY <1>11, <2>1 DEF ReapSpares, TypeOK, LoginInv
  <2>3. RefCountsTokens'
    BY <1>11, <2>1 DEF ReapSpares, TypeOK, RefCountsTokens, LoginInv, RegistryInv
  <2>4. LoginInv'
    BY <1>11, <2>1 DEF ReapSpares, TypeOK, LoginInv, RegistryInv
  <2>5. RegistryInv'
    BY <1>11 DEF ReapSpares, TypeOK, LoginInv, RegistryInv
  <2> QED
    BY <2>2, <2>3, <2>4, <2>5 DEF SessionInv
<1>12. ASSUME NEW e \in Entries, reapSession(e) PROVE SessionInv'
  <2>1. /\ \A x \in Entries \ {e} : TokensOf(x)' = TokensOf(x)
        /\ TokensOf(e)' = {}
        /\ byToken' \in [Clients -> Entries \cup {None}]
        /\ \A d \in Clients : byToken[d] = None => byToken'[d] = None
    BY <1>12, TokensDropped DEF reapSession, killEntry
  <2>u. byUser' \in [Users -> Entries \cup {None}]
    <3>1. byUser' = byUser \/ byUser' = [byUser EXCEPT ![user[e]] = None]
      BY <1>12 DEF reapSession, killEntry
    <3>2. byUser \in [Users -> Entries \cup {None}]
      BY DEF TypeOK
    <3> QED
      BY <3>1, <3>2
  <2>2. TypeOK'
    BY <1>12, <2>1, <2>u DEF reapSession, killEntry, TypeOK, LoginInv
  <2>3. RefCountsTokens'
    BY <1>12, <2>1
       DEF reapSession, killEntry, TypeOK, RefCountsTokens, LoginInv, RegistryInv
  <2>4. LoginInv'
    BY <1>12, <2>1 DEF reapSession, killEntry, TypeOK, LoginInv, RegistryInv
  <2>5. RegistryInv'
    BY <1>12 DEF reapSession, killEntry, TypeOK, LoginInv, RegistryInv
  <2> QED
    BY <2>2, <2>3, <2>4, <2>5 DEF SessionInv
<1>13. ASSUME NEW e \in Entries, ChildExits(e) PROVE SessionInv'
  <2>1. \A x \in Entries : TokensOf(x)' = TokensOf(x)
    BY <1>13, TokensSame DEF ChildExits
  <2>2. TypeOK'
    BY <1>13, <2>1 DEF ChildExits, TypeOK, LoginInv
  <2>3. RefCountsTokens'
    BY <1>13, <2>1 DEF ChildExits, TypeOK, RefCountsTokens, LoginInv, RegistryInv
  <2>4. LoginInv'
    BY <1>13, <2>1 DEF ChildExits, TypeOK, LoginInv, RegistryInv
  <2>5. RegistryInv'
    BY <1>13 DEF ChildExits, TypeOK, LoginInv, RegistryInv
  <2> QED
    BY <2>2, <2>3, <2>4, <2>5 DEF SessionInv
<1>14. ASSUME NEW e \in Entries, MonitorWakes(e) PROVE SessionInv'
  <2>1. \A x \in Entries : TokensOf(x)' = TokensOf(x)
    BY <1>14, TokensSame DEF MonitorWakes
  <2>2. TypeOK'
    BY <1>14, <2>1 DEF MonitorWakes, TypeOK, LoginInv
  <2>3. RefCountsTokens'
    BY <1>14, <2>1 DEF MonitorWakes, TypeOK, RefCountsTokens, LoginInv, RegistryInv
  <2>4. LoginInv'
    BY <1>14, <2>1 DEF MonitorWakes, TypeOK, LoginInv, RegistryInv
  <2>5. RegistryInv'
    BY <1>14 DEF MonitorWakes, TypeOK, LoginInv, RegistryInv
  <2> QED
    BY <2>2, <2>3, <2>4, <2>5 DEF SessionInv
<1>15. ASSUME NEW e \in Entries, MonitorCleans(e) PROVE SessionInv'
  <2>1. /\ \A x \in Entries \ {e} : TokensOf(x)' = TokensOf(x)
        /\ TokensOf(e)' = {} \/ TokensOf(e)' = TokensOf(e)
        /\ byToken' \in [Clients -> Entries \cup {None}]
        /\ \A d \in Clients : byToken[d] = None => byToken'[d] = None
    BY <1>15, TokensDropped, TokensSame DEF MonitorCleans, TypeOK
  <2>u. byUser' \in [Users -> Entries \cup {None}]
    <3>1. byUser' = byUser \/ byUser' = [byUser EXCEPT ![user[e]] = None]
      BY <1>15 DEF MonitorCleans
    <3>2. byUser \in [Users -> Entries \cup {None}]
      BY DEF TypeOK
    <3> QED
      BY <3>1, <3>2
  <2>2. TypeOK'
    BY <1>15, <2>1, <2>u DEF MonitorCleans, TypeOK, LoginInv
  <2>3. RefCountsTokens'
    BY <1>15, <2>1 DEF MonitorCleans, TypeOK, RefCountsTokens, LoginInv, RegistryInv
  <2>4. LoginInv'
    BY <1>15, <2>1 DEF MonitorCleans, TypeOK, LoginInv, RegistryInv
  <2>5. RegistryInv'
    BY <1>15 DEF MonitorCleans, TypeOK, LoginInv, RegistryInv
  <2> QED
    BY <2>2, <2>3, <2>4, <2>5 DEF SessionInv
<1>16. CASE Close
  <2>1. \A x \in Entries : TokensOf(x)' = {}
    BY <1>16 DEF Close, TokensOf
  <2>2. TypeOK'
    BY <1>16, <2>1 DEF Close, TypeOK, LoginInv
  <2>3. RefCountsTokens'
    BY <1>16, <2>1 DEF Close, TypeOK, RefCountsTokens, LoginInv, RegistryInv
  <2>4. LoginInv'
    BY <1>16, <2>1 DEF Close, TypeOK, LoginInv, RegistryInv
  <2>5. RegistryInv'
    BY <1>16 DEF Close, TypeOK, LoginInv, RegistryInv
  <2> QED
    BY <2>2, <2>3, <2>4, <2>5 DEF SessionInv
<1>17. CASE UNCHANGED vars
  <2>1. \A x \in Entries : TokensOf(x)' = TokensOf(x)
    BY <1>17, TokensSame DEF vars
  <2>2. TypeOK'
    BY <1>17, <2>1 DEF vars, TypeOK, LoginInv
  <2>3. RefCountsTokens'
    BY <1>17, <2>1 DEF vars, TypeOK, RefCountsTokens, LoginInv, RegistryInv
  <2>4. LoginInv'
    BY <1>17, <2>1 DEF vars, TypeOK, LoginInv, RegistryInv
  <2>5. RegistryInv'
    BY <1>17 DEF vars, TypeOK, LoginInv, RegistryInv
  <2> QED
    BY <2>2, <2>3, <2>4, <2>5 DEF SessionInv
<1> QED
  BY <1>1, <1>2, <1>3, <1>4, <1>5, <1>6, <1>7, <1>8, <1>9,
     <1>10, <1>11, <1>12, <1>13, <1>14, <1>15, <1>16, <1>17
     DEF Next, Login, Background
----------------------------------------------------------------------------
(* What a step may terminate. *)

\* No step but Close terminates the process of a session somebody holds a token
\* of: a stale entry was waited for already, the loser of a race has no token
\* yet, and reapSession looks at the count again under the lock.
LEMMA StepKillsIdle ==
  SessionInv /\ [Next]_vars =>
    [\A e \in killed' \ killed : TokensOf(e) = {} \/ closed']_vars
<1> SUFFICES ASSUME SessionInv, Next
             PROVE  \A x \in killed' \ killed : TokensOf(x) = {} \/ closed'
  OBVIOUS
<1>0. TypeOK /\ RefCountsTokens /\ LoginInv /\ RegistryInv
  BY DEF SessionInv
<1>k. ASSUME killed' \subseteq killed
      PROVE  \A x \in killed' \ killed : TokensOf(x) = {} \/ closed'
  BY <1>k
<1>1. ASSUME NEW c \in Clients, NEW u \in Users, NEW e \in Entries, LoginReuses(c, u, e)
       PROVE  killed' \subseteq killed
  BY <1>1 DEF LoginReuses
<1>2. ASSUME NEW c \in Clients, NEW u \in Users, LoginMisses(c, u)
       PROVE  killed' \subseteq killed
  BY <1>2 DEF LoginMisses
<1>3. ASSUME NEW c \in Clients, NEW e \in Entries, Spawn(c, e)
       PROVE  killed' \subseteq killed
  BY <1>3 DEF Spawn
<1>4. ASSUME NEW c \in Clients, SpawnFails(c) PROVE killed' \subseteq killed
  BY <1>4 DEF SpawnFails
<1>5. ASSUME NEW c \in Clients, RegisterWins(c) PROVE killed' \subseteq killed
  BY <1>5 DEF RegisterWins
<1>6. ASSUME NEW c \in Clients, Logout(c) PROVE killed' \subseteq killed
  BY <1>6 DEF Logout
<1>7. ASSUME NEW c \in Clients, LogoutUnknown(c) PROVE killed' \subseteq killed
  BY <1>7 DEF LogoutUnknown
<1>8. ASSUME NEW e \in Entries, TimerFires(e) PROVE killed' \subseteq killed
  BY <1>8 DEF TimerFires
<1>9. ASSUME NEW e \in Entries, ReapSpares(e) PROVE killed' \subseteq killed
  BY <1>9 DEF ReapSpares
<1>10. ASSUME NEW e \in Entries, ChildExits(e) PROVE killed' \subseteq killed
  BY <1>10 DEF ChildExits
<1>11. ASSUME NEW e \in Entries, MonitorWakes(e) PROVE killed' \subseteq killed
  BY <1>11 DEF MonitorWakes
<1>12. ASSUME NEW e \in Entries, MonitorCleans(e) PROVE killed' \subseteq killed
  BY <1>12 DEF MonitorCleans
<1>13. ASSUME NEW c \in Clients, NEW u \in Users, NEW e \in Entries, LoginRemovesStale(c, u, e)
       PROVE  killed' \subseteq killed
  <2>1. child[e] = "waited"
    BY <1>13, <1>0, SessionConstants DEF LoginRemovesStale, isAlive, TypeOK, RegistryInv
  <2> QED
    BY <1>13, <2>1 DEF LoginRemovesStale, killEntry
<1>14. ASSUME NEW c \in Clients, NEW e \in Entries, RegisterLoses(c, e)
       PROVE  \A x \in killed' \ killed : TokensOf(x) = {} \/ closed'
  <2>1. killed' \ killed \subseteq {lentry[c]}
    BY <1>14 DEF RegisterLoses, killEntry
  <2>2. TokensOf(lentry[c]) = {}
    BY <1>14, <1>0 DEF RegisterLoses, LoginInv
  <2> QED
    BY <2>1, <2>2
<1>15. ASSUME NEW e \in Entries, reapSession(e)
       PROVE  \A x \in killed' \ killed : TokensOf(x) = {} \/ closed'
  <2>1. killed' \ killed \subseteq {e}
    BY <1>15 DEF reapSession, killEntry
  <2>2. TokensOf(e) = {}
    <3> SUFFICES ASSUME TokensOf(e) # {} PROVE FALSE
      OBVIOUS
    <3>1. ref[e] = Cardinality(TokensOf(e)) /\ ref[e] <= 0
      BY <1>15, <1>0 DEF reapSession, RefCountsTokens
    <3>2. Cardinality(TokensOf(e)) \in Nat \ {0}
      BY TokensFinite, FS_EmptySet
    <3> QED
      BY <3>1, <3>2
  <2> QED
    BY <2>1, <2>2
<1>16. ASSUME Close
       PROVE  \A x \in killed' \ killed : TokensOf(x) = {} \/ closed'
  BY <1>16 DEF Close
<1> QED
  BY <1>k, <1>1, <1>2, <1>3, <1>4, <1>5, <1>6, <1>7, <1>8,
     <1>9, <1>10, <1>11, <1>12, <1>13, <1>14, <1>15, <1>16
     DEF Next, Login, Background

----------------------------------------------------------------------------
(* The theorems. *)

\* The inductive invariant holds of every behaviour of the Manager.
LEMMA SessionInvHolds == Spec => []SessionInv
  BY InitSessionInv, NextSessionInv, PTL DEF Spec

\* Every variable keeps its type; above all refCount never goes below zero,
\* though Logout subtracts from it without looking.
THEOREM SessionTypes == Spec => []TypeOK
<1>1. SessionInv => TypeOK
  BY DEF SessionInv
<1> QED
  BY <1>1, SessionInvHolds, PTL

\* refCount is the number of tokens of every session a token or its user's name
\* reaches, through every race of Login, Logout, reapSession and monitorProcess.
THEOREM CountIsExact == Spec => []RefCountsTokens
<1>1. SessionInv => RefCountsTokens
  BY DEF SessionInv
<1> QED
  BY <1>1, SessionInvHolds, PTL

\* The Manager terminates a process that clients hold tokens of in Close only.
THEOREM NoKillInUse == Spec => KilledOnlyWhenIdle
<1>1. Spec => [][Next]_vars
  BY PTL DEF Spec
<1> QED
  BY <1>1, SessionInvHolds, StepKillsIdle, PTL DEF KilledOnlyWhenIdle
============================================================================
