--------------------------- MODULE AccountsProofs ----------------------------
(***************************************************************************)
(* Proofs about Accounts for any number of names, requests and accounts:   *)
(* type correctness, the bound on admins, and what an account that is gone *)
(* has left behind.                                                        *)
(*                                                                         *)
(* The last three properties are not inductive.  What they rest on is that *)
(* a request under a name is of the account that has the name now, or      *)
(* counts as crossed (Current); that an erasure and another request under  *)
(* its name make each other's account crossed (Alone); that an erasure     *)
(* meets the account it was asked to erase or a crossed one (Meant); that  *)
(* what it has erased stays so (Emptied); that a token in date is of the   *)
(* account that has its name, or counts as crossed or outlived (Held), as  *)
(* does what a request sets a column by (Set); and that a birth number     *)
(* never occurs under two names (OneName).                                 *)
(***************************************************************************)
EXTENDS Accounts, FiniteSetTheorems, TLAPS

\* Program counters of requests that run under a name, and of those that erase it.
ErasePcs == {"chats", "docs", "quota", "account"}
NamedPcs == {"acting", "setting", "swapped", "issuing", "audit"} \cup ErasePcs

\* What a request that runs under a name knows.
LEMMA NamedType ==
  ASSUME TypeOK, NEW w \in Workers, req[w].pc \in NamedPcs \cup {"late"}
  PROVE  /\ req[w] \in Request /\ req[w].name \in Names /\ req[w].birth \in Births
         /\ req[w].pc = "audit" => req[w].as \in {"name", "typed"} /\ req[w].more \in BOOLEAN
         /\ req[w].pc = "setting" => req[w].by \in Births /\ req[w].more \in BOOLEAN
BY DEF TypeOK, NamedPcs, ErasePcs, Request, Idle

\* What a registration knows.
LEMMA FoundingType ==
  ASSUME TypeOK, NEW w \in Workers, req[w].pc \in {"named", "counted"}
  PROVE  /\ req[w].name \in Names /\ req[w].sub \in Subs \cup {None}
         /\ req[w].pc = "counted" => req[w].role \in {"admin", "user"}
BY DEF TypeOK, Request, Idle

LEMMA InitType == Init => TypeOK
BY AccountsAssumption DEF Init, TypeOK, Idle

LEMMA MeetType ==
  ASSUME TypeOK, NEW n, NEW B, B \subseteq Births, NEW e, Meet(n, B, e)
  PROVE  crossed' \subseteq Births /\ crossed \subseteq crossed'
BY DEF Meet, TypeOK

LEMMA HolderType ==
  ASSUME TypeOK, NEW n \in Names
  PROVE  Holder(n) \subseteq Births /\ (users[n] # None => users[n].birth \in Births)
BY DEF TypeOK, Holder, Row

\* A step that leaves users and births alone and puts w where it can be.
LEMMA ReqType ==
  ASSUME TypeOK, NEW w \in Workers, NEW r \in {Idle} \cup Request,
         req' = [req EXCEPT ![w] = r], UNCHANGED <<users, births, ever, outlived>>,
         data' \subseteq Item, trail' \subseteq Entry, tokens' \subseteq Names \X Births,
         crossed' \subseteq Births
  PROVE  TypeOK'
BY DEF TypeOK

LEMMA AuditType ==
  ASSUME TypeOK, NEW n \in Names, NEW a \in {"name", "typed"}, NEW b \in Births, NEW m \in BOOLEAN
  PROVE  [pc |-> "audit", name |-> n, as |-> a, birth |-> b, more |-> m] \in Request
BY DEF Request

LEMMA SimpleType ==
  ASSUME NEW n \in Names, NEW b \in Births,
         NEW pc \in {"acting", "swapped", "issuing", "late", "chats", "docs", "quota", "account"}
  PROVE  [pc |-> pc, name |-> n, birth |-> b] \in Request
BY DEF Request

LEMMA SettingType ==
  ASSUME NEW n \in Names, NEW b \in Births, NEW y \in Births, NEW m \in BOOLEAN
  PROVE  [pc |-> "setting", name |-> n, birth |-> b, by |-> y, more |-> m] \in Request
BY DEF Request

LEMMA LoginType ==
  ASSUME TypeOK, NEW w \in Workers, NEW n \in Names, Login(w, n) \/ GoogleKnown(w, n)
  PROVE  TypeOK'
<1>1. /\ Holder(n) \subseteq Births
      /\ (users[n] # None => users[n].birth \in Births)
      /\ data \subseteq Item /\ trail \subseteq Entry /\ tokens \subseteq Names \X Births
  BY HolderType DEF TypeOK
<1>2. CASE Login(w, n)
  <2>1. PICK a \in {"name", "typed"}, m \in BOOLEAN :
          req' = [req EXCEPT ![w] = [pc |-> "audit", name |-> n, as |-> a,
                                     birth |-> users[n].birth, more |-> m]]
    BY <1>2 DEF Login, Audit, Become
  <2>2. [pc |-> "audit", name |-> n, as |-> a, birth |-> users[n].birth, more |-> m] \in Request
    BY <1>1, <1>2, AuditType DEF Login
  <2>3. crossed' \subseteq Births
    BY <1>1, <1>2, MeetType DEF Login
  <2> QED BY <1>1, <1>2, <2>1, <2>2, <2>3, ReqType DEF Login
<1>3. CASE GoogleKnown(w, n)
  <2>1. PICK r \in Request : req' = [req EXCEPT ![w] = r]
    <3>1. users[n].birth \in Births
      BY <1>1, <1>3 DEF GoogleKnown
    <3> QED BY <1>3, <3>1, AuditType, SettingType DEF GoogleKnown, Audit, Become
  <2>2. crossed' \subseteq Births
    BY <1>1, <1>3, MeetType DEF GoogleKnown
  <2> QED BY <1>1, <1>3, <2>1, <2>2, ReqType DEF GoogleKnown
<1> QED BY <1>2, <1>3

\* Refreshes and authenticated requests that begin.
LEMMA BeginType ==
  ASSUME TypeOK, NEW w \in Workers, NEW n \in Names, NEW b \in Births,
         \/ LoginNobody(w, n, b) \/ Refuse(w, n, b)
         \/ Refresh(w, n, b) \/ Act(w, n, b) \/ Delete(w, n, b)
  PROVE  TypeOK'
<1>1. /\ Holder(n) \subseteq Births
      /\ (users[n] # None => users[n].birth \in Births)
      /\ data \subseteq Item /\ trail \subseteq Entry /\ tokens \subseteq Names \X Births
      /\ crossed \subseteq Births
  BY HolderType DEF TypeOK
<1>2. ASSUME Late(w, n, b) PROVE TypeOK'
  BY <1>1, <1>2, SimpleType, ReqType DEF Late, Become
<1>3. CASE LoginNobody(w, n, b)
  BY <1>2, <1>3 DEF LoginNobody
<1>4. CASE Refuse(w, n, b)
  <2>1. CASE Late(w, n, b)
    BY <1>2, <2>1
  <2>2. CASE ~Late(w, n, b)
    <3>1. /\ Audit(w, n, "name", b, FALSE) /\ Meet(n, {b}, FALSE)
          /\ UNCHANGED <<users, births, data, tokens, trail, ever, outlived>>
      BY <1>4, <2>2 DEF Refuse
    <3>2. crossed' \subseteq Births
      BY <3>1, MeetType
    <3> QED BY <1>1, <3>1, <3>2, AuditType, ReqType DEF Audit, Become
  <2> QED BY <2>1, <2>2
<1>5. CASE Refresh(w, n, b)
  <2>1. /\ data' \subseteq Item
        /\ req' = [req EXCEPT ![w] = [pc |-> "swapped", name |-> n, birth |-> b]]
        /\ Meet(n, {b} \cup Holder(n), FALSE)
        /\ UNCHANGED <<users, births, tokens, trail, ever, outlived>>
    BY <1>1, <1>5 DEF Refresh, Become
  <2>2. {b} \cup Holder(n) \subseteq Births
    BY <1>1
  <2>3. crossed' \subseteq Births
    BY <2>1, <2>2, MeetType
  <2> QED BY <1>1, <2>1, <2>3, SimpleType, ReqType
<1>6. CASE Act(w, n, b)
  <2>1. PICK r \in Request : req' = [req EXCEPT ![w] = r]
    <3>1. users[n].birth \in Births
      BY <1>1, <1>6 DEF Act
    <3> QED BY <1>6, <3>1, SimpleType, SettingType DEF Act, Become
  <2>2. crossed' \subseteq Births
    BY <1>1, <1>6, MeetType DEF Act
  <2> QED BY <1>1, <1>6, <2>1, <2>2, ReqType DEF Act
<1>7. CASE Delete(w, n, b)
  <2>1. users[n].birth \in Births
    BY <1>1, <1>7 DEF Delete
  <2>2. crossed' \subseteq Births
    BY <1>1, <1>7, MeetType DEF Delete
  <2> QED BY <1>1, <1>7, <2>1, <2>2, SimpleType, ReqType DEF Delete, Become
<1> QED BY <1>3, <1>4, <1>5, <1>6, <1>7

\* A new account.
LEMMA InsertType == ASSUME TypeOK, NEW w \in Workers, Insert(w) PROVE TypeOK'
<1> DEFINE n == req[w].name
           b == births + 1
           row == NewRow(w)
           r == [pc |-> "audit", name |-> n, as |-> "name", birth |-> b, more |-> req[w].sub # None]
<1>1. n \in Names /\ req[w].sub \in Subs \cup {None} /\ req[w].role \in {"admin", "user"}
  BY FoundingType DEF Insert, At
<1>2. b \in Births
  BY AccountsAssumption DEF Insert, TypeOK, Births
<1>3. row \in Row /\ row.sub = req[w].sub
  BY <1>1, <1>2 DEF Row, NewRow
<1>4. crossed' \subseteq Births
  BY <1>2, MeetType DEF Insert, Found
<1>5. r \in Request
  BY <1>1, <1>2, AuditType
<1>6. /\ users' = [users EXCEPT ![n] = row] /\ births' = b
      /\ req' = [req EXCEPT ![w] = r]
      /\ data' = data /\ tokens' = tokens /\ trail' = trail
      /\ \A m \in Names : row.sub # None /\ users[m] # None => users[m].sub # row.sub
  BY <1>3 DEF Insert, Found, Audit, Become, Taken
<1>7. births' \in 0 .. MaxBirths
  BY <1>2, <1>6 DEF Births
<1>8. ever' \subseteq Names \X Births /\ outlived' \subseteq Births
  <2>1. ever' = ever \cup {<<n, b>>} /\ outlived' = outlived \cup {t[2] : t \in {u \in tokens : u[1] = n}}
    BY DEF Insert, Found
  <2> QED BY <1>1, <1>2, <2>1 DEF TypeOK
<1> HIDE DEF n, b, row, r
<1> QED BY <1>1, <1>3, <1>4, <1>5, <1>6, <1>7, <1>8 DEF TypeOK

LEMMA SetColumnType == ASSUME TypeOK, NEW w \in Workers, SetColumn(w) PROVE TypeOK'
<1> DEFINE n == req[w].name
<1>1. n \in Names /\ req[w].birth \in Births /\ req[w].by \in Births /\ req[w].more \in BOOLEAN
  BY NamedType DEF SetColumn, At, NamedPcs
<1>2. PICK r \in {Idle} \cup Request : req' = [req EXCEPT ![w] = r]
  <2>1. [pc |-> "audit", name |-> n, as |-> "name", birth |-> req[w].birth,
         more |-> req[w].more] \in Request
    BY <1>1, AuditType
  <2> QED BY <2>1 DEF SetColumn, Audit, Become
<1>3. /\ users' = IF users[n] = None THEN users ELSE [users EXCEPT ![n].set_by = req[w].by]
      /\ UNCHANGED <<births, data, tokens, trail, ever, crossed, outlived>>
  BY DEF SetColumn
<1> HIDE DEF n
<1>4. /\ users' \in [Names -> Row \cup {None}]
      /\ \A m \in Names : /\ users'[m] = None <=> users[m] = None
                          /\ users[m] # None => users'[m].sub = users[m].sub
  <2>1. CASE users[n] = None
    BY <1>3, <2>1 DEF TypeOK
  <2>2. CASE users[n] # None
    <3>1. users[n] \in Row
      BY <1>1, <2>2 DEF TypeOK
    <3>2. [users[n] EXCEPT !.set_by = req[w].by] \in Row
      BY <1>1, <3>1 DEF Row
    <3> QED BY <1>1, <1>3, <2>2, <3>1, <3>2, AccountsAssumption DEF TypeOK, Row
  <2> QED BY <2>1, <2>2
<1> QED BY <1>2, <1>3, <1>4 DEF TypeOK

LEMMA NextType == TypeOK /\ [Next]_vars => TypeOK'
<1> SUFFICES ASSUME TypeOK, [Next]_vars PROVE TypeOK'
  OBVIOUS
<1>0. /\ data \subseteq Item /\ trail \subseteq Entry /\ crossed \subseteq Births
      /\ tokens \subseteq Names \X Births
  BY DEF TypeOK
<1>1. ASSUME NEW w \in Workers, Step(w) PROVE TypeOK'
  <2>1. ASSUME NEW n \in Names, Register(w, n) PROVE TypeOK'
    <3>1. [pc |-> "named", name |-> n, sub |-> None] \in Request
      BY DEF Request
    <3> QED BY <1>0, <2>1, <3>1, ReqType DEF Register, Become
  <2>2. ASSUME NEW s \in Subs, GoogleNew(w, s) PROVE TypeOK'
    <3>1. [pc |-> "google", sub |-> s] \in Request
      BY DEF Request
    <3> QED BY <1>0, <2>2, <3>1, ReqType DEF GoogleNew, Become
  <2>3. ASSUME NEW n \in Names, FreeUsername(w, n) PROVE TypeOK'
    <3>1. req[w].sub \in Subs
      BY <2>3 DEF FreeUsername, At, TypeOK, Request, Idle
    <3>2. [pc |-> "named", name |-> n, sub |-> req[w].sub] \in Request
      BY <3>1 DEF Request
    <3> QED BY <1>0, <2>3, <3>2, ReqType DEF FreeUsername, Become
  <2>4. CASE CountUsers(w)
    <3>1. req[w].pc = "named" /\ req[w].name \in Names /\ req[w].sub \in Subs \cup {None}
      BY <2>4, FoundingType DEF CountUsers, At
    <3>2. [pc |-> "counted", name |-> req[w].name, sub |-> req[w].sub,
           role |-> IF First(req[w].name) THEN "admin" ELSE "user"] \in Request
      BY <3>1 DEF Request
    <3> QED BY <1>0, <2>4, <3>2, ReqType DEF CountUsers, Become
  <2>5. CASE InsertConflict(w) \/ Abort(w)
    BY <1>0, <2>5, ReqType DEF InsertConflict, Abort, Become
  <2>6. CASE FindUser(w)
    <3>1. req[w].name \in Names /\ req[w].birth \in Births
      BY <2>6, NamedType DEF FindUser, At, NamedPcs
    <3>2. PICK r \in {Idle} \cup Request : req' = [req EXCEPT ![w] = r]
      BY <2>6, <3>1, AuditType DEF FindUser, Audit, Become
    <3> QED BY <1>0, <2>6, <3>2, ReqType DEF FindUser
  <2>7. CASE IssueTokens(w)
    <3>1. req[w].name \in Names /\ req[w].birth \in Births
      BY <2>7, NamedType DEF IssueTokens, At, NamedPcs
    <3>2. data' \subseteq Item /\ tokens' \subseteq Names \X Births
      BY <1>0, <2>7, <3>1 DEF IssueTokens, Item
    <3> QED BY <1>0, <2>7, <3>2, ReqType DEF IssueTokens, Become
  <2>8. ASSUME NEW k \in Kinds, Write(w, k) PROVE TypeOK'
    <3>1. req[w].name \in Names /\ req[w].birth \in Births
      BY <2>8, NamedType DEF Write, At, NamedPcs
    <3>2. data' \subseteq Item
      BY <1>0, <2>8, <3>1 DEF Write, Item
    <3> QED BY <1>0, <2>8, <3>1, <3>2, AuditType, ReqType DEF Write, Audit, Become
  <2>9. CASE WriteAudit(w)
    <3>1. /\ req[w].name \in Names /\ req[w].birth \in Births /\ req[w].as \in {"name", "typed"}
      BY <2>9, NamedType DEF WriteAudit, At, NamedPcs
    <3>2. trail' \subseteq Entry
      BY <1>0, <2>9, <3>1 DEF WriteAudit, Entry
    <3>3. PICK r \in {Idle} \cup Request : req' = [req EXCEPT ![w] = r]
      BY <2>9, <3>1, SimpleType DEF WriteAudit, Become
    <3> QED BY <1>0, <2>9, <3>2, <3>3, ReqType DEF WriteAudit
  <2>10. CASE WriteLate(w)
    <3>1. req[w].name \in Names /\ req[w].birth \in Births
      BY <2>10, NamedType DEF WriteLate, At, NamedPcs
    <3>2. trail' \subseteq Entry
      BY <1>0, <2>10, <3>1 DEF WriteLate, Entry
    <3> QED BY <1>0, <2>10, <3>2, ReqType DEF WriteLate, Become
  <2>11. CASE EraseContent(w)
    <3>1. /\ req[w] \in Request /\ req[w].pc \in Kinds
          /\ req[w].name \in Names /\ req[w].birth \in Births
      BY <2>11, NamedType DEF EraseContent, Kinds, NamedPcs, ErasePcs
    <3>2. [req[w] EXCEPT !.pc = After[@]] \in Request
      BY <3>1 DEF Request, After, Kinds
    <3>3. data' \subseteq Item
      BY <1>0, <2>11 DEF EraseContent
    <3> QED BY <1>0, <2>11, <3>2, <3>3, ReqType DEF EraseContent, Become
  <2>12. CASE EraseUser(w)
    BY <2>12 DEF EraseUser, Erased, Become, TypeOK
  <2> QED BY <1>1, <2>1, <2>2, <2>3, <2>4, <2>5, <2>6, <2>7, <2>8, <2>9, <2>10, <2>11, <2>12,
             LoginType, BeginType, InsertType, SetColumnType DEF Step
<1>2. ASSUME NEW t \in tokens, Lapse(t) PROVE TypeOK'
  BY <1>2 DEF Lapse, TypeOK
<1>3. CASE UNCHANGED vars
  BY <1>3 DEF vars, TypeOK
<1> QED BY <1>1, <1>2, <1>3 DEF Next

\* The state keeps its types, and no Google identity ever has two accounts.
THEOREM TypeCorrect == Spec => []TypeOK
<1>1. Init => TypeOK
  BY InitType
<1>2. TypeOK /\ [Next]_vars => TypeOK'
  BY NextType
<1> QED BY <1>1, <1>2, PTL DEF Spec

------------------------------------------------------------------------------
(***************************************************************************)
(* The admins.  A registration joins Founding only while there is no user  *)
(* at all, so when it does all admins there can be are the founding        *)
(* requests themselves; an INSERT turns one of them into an account.       *)
(***************************************************************************)

AdminInv == IsFiniteSet(Admins) /\ AdminsBounded

LEMMA FoundingFinite ==
  /\ IsFiniteSet(Founding) /\ Cardinality(Founding) \in Nat
  /\ Cardinality(Founding) <= Cardinality(Workers) /\ Cardinality(Workers) \in Nat
<1>1. Founding \in SUBSET Workers
  BY DEF Founding
<1>2. IsFiniteSet(Founding) /\ Cardinality(Founding) <= Cardinality(Workers)
  BY <1>1, AccountsAssumption, FS_Subset, Zenon
<1> QED BY <1>2, AccountsAssumption, FS_CardinalityType

LEMMA InitAdmins == Init => AdminInv
<1> SUFFICES ASSUME Init PROVE AdminInv
  OBVIOUS
<1>1. Admins = {}
  BY DEF Init, Admins
<1>2. Cardinality(Admins) = 0 /\ IsFiniteSet(Admins)
  BY <1>1, FS_EmptySet
<1> QED BY <1>2, FoundingFinite DEF AdminInv, AdminsBounded

\* Fewer of both.
LEMMA AdminsFewer ==
  ASSUME AdminInv, Admins' \in SUBSET Admins, Founding' \in SUBSET Founding
  PROVE  AdminInv'
<1>1. IsFiniteSet(Admins) /\ IsFiniteSet(Founding) /\ Cardinality(Workers) \in Nat
  BY FoundingFinite DEF AdminInv
<1>2. IsFiniteSet(Admins') /\ Cardinality(Admins') <= Cardinality(Admins)
  BY <1>1, FS_Subset
<1>3. IsFiniteSet(Founding') /\ Cardinality(Founding') <= Cardinality(Founding)
  BY <1>1, FS_Subset
<1>4. /\ Cardinality(Admins) \in Nat /\ Cardinality(Admins') \in Nat
      /\ Cardinality(Founding) \in Nat /\ Cardinality(Founding') \in Nat
  BY <1>1, <1>2, <1>3, FS_CardinalityType
<1> QED BY <1>1, <1>2, <1>3, <1>4 DEF AdminInv, AdminsBounded

\* Another founding request, when there is no user.
LEMMA AdminsNone ==
  ASSUME Admins' = {}, Founding' \in SUBSET Workers
  PROVE  AdminInv'
<1>1. Cardinality(Admins') = 0 /\ IsFiniteSet(Admins')
  BY FS_EmptySet
<1>2. Cardinality(Founding') <= Cardinality(Workers) /\ IsFiniteSet(Founding')
  BY AccountsAssumption, FS_Subset, Zenon
<1>3. Cardinality(Founding') \in Nat /\ Cardinality(Workers) \in Nat
  BY <1>2, AccountsAssumption, FS_CardinalityType
<1> QED BY <1>1, <1>2, <1>3 DEF AdminInv, AdminsBounded

\* A founding request becomes an admin.
LEMMA AdminsSwap ==
  ASSUME AdminInv, NEW n, NEW w \in Founding,
         Admins' \in SUBSET (Admins \cup {n}), Founding' \in SUBSET (Founding \ {w})
  PROVE  AdminInv'
<1>1. IsFiniteSet(Admins) /\ IsFiniteSet(Founding) /\ Cardinality(Workers) \in Nat
  BY FoundingFinite DEF AdminInv
<1>2. /\ IsFiniteSet(Admins \cup {n})
      /\ Cardinality(Admins \cup {n}) <= Cardinality(Admins) + 1
  <2>1. Cardinality(Admins) \in Nat
    BY <1>1, FS_CardinalityType
  <2> QED BY <1>1, <2>1, FS_AddElement
<1>3. IsFiniteSet(Admins') /\ Cardinality(Admins') <= Cardinality(Admins \cup {n})
  BY <1>2, FS_Subset
<1>4. /\ IsFiniteSet(Founding \ {w})
      /\ Cardinality(Founding \ {w}) = Cardinality(Founding) - 1
  BY <1>1, FS_RemoveElement
<1>5. IsFiniteSet(Founding') /\ Cardinality(Founding') <= Cardinality(Founding \ {w})
  BY <1>4, FS_Subset
<1>6. /\ Cardinality(Admins) \in Nat /\ Cardinality(Admins') \in Nat
      /\ Cardinality(Admins \cup {n}) \in Nat
      /\ Cardinality(Founding) \in Nat /\ Cardinality(Founding') \in Nat
  BY <1>1, <1>2, <1>3, <1>5, FS_CardinalityType
<1> QED BY <1>1, <1>2, <1>3, <1>4, <1>5, <1>6 DEF AdminInv, AdminsBounded

\* A step that makes w anything but a counted registration adds to neither.
LEMMA FoundingKept ==
  ASSUME TypeOK, NEW w \in Workers, NEW r, r.pc # "counted", req' = [req EXCEPT ![w] = r]
  PROVE  Founding' \in SUBSET (Founding \ {w})
BY DEF TypeOK, Founding, At

LEMMA NextAdmins == TypeOK /\ AdminInv /\ [Next]_vars => AdminInv'
<1> SUFFICES ASSUME TypeOK, AdminInv, [Next]_vars PROVE AdminInv'
  OBVIOUS
<1>1. ASSUME NEW w \in Workers, Step(w) PROVE AdminInv'
  <2>1. CASE CountUsers(w)
    <3> DEFINE n == req[w].name
               r == [pc |-> "counted", name |-> n, sub |-> req[w].sub,
                     role |-> IF First(n) THEN "admin" ELSE "user"]
    <3>1. users' = users /\ req' = [req EXCEPT ![w] = r]
      BY <2>1 DEF CountUsers, Become
    <3>2. Admins' = Admins
      BY <3>1 DEF Admins
    <3>3. CASE First(n)
      <4>1. Admins = {}
        BY <3>3 DEF First, Admins
      <4>2. Founding' \in SUBSET Workers
        BY DEF Founding
      <4> QED BY <3>2, <4>1, <4>2, AdminsNone
    <3>4. CASE ~First(n)
      <4>1. r.role = "user"
        BY <3>4
      <4> HIDE DEF r
      <4>2. Founding' \in SUBSET Founding
        BY <3>1, <4>1 DEF Founding, At, TypeOK
      <4> QED BY <3>2, <4>2, AdminsFewer
    <3> QED BY <3>3, <3>4
  <2>2. CASE Insert(w)
    <3> DEFINE n == req[w].name
               r == [pc |-> "audit", name |-> n, as |-> "name", birth |-> births + 1,
                     more |-> req[w].sub # None]
               row == NewRow(w)
    <3>1. /\ At(w, "counted") /\ users' = [users EXCEPT ![n] = row]
          /\ req' = [req EXCEPT ![w] = r] /\ r.pc # "counted" /\ row.role = req[w].role
      BY <2>2 DEF Insert, Found, Audit, Become, NewRow
    <3>2. n \in Names /\ req[w].role \in {"admin", "user"}
      BY <3>1, FoundingType DEF At
    <3> HIDE DEF n, r, row
    <3>3. Founding' \in SUBSET (Founding \ {w})
      BY <3>1, FoundingKept
    <3>4. CASE req[w].role = "admin"
      <4>1. w \in Founding
        BY <3>1, <3>4 DEF Founding
      <4>2. Admins' \in SUBSET (Admins \cup {n})
        BY <3>1, <3>2 DEF Admins, TypeOK
      <4> QED BY <3>3, <4>1, <4>2, AdminsSwap
    <3>5. CASE req[w].role = "user"
      <4>1. Admins' \in SUBSET Admins
        BY <3>1, <3>2, <3>5 DEF Admins, TypeOK
      <4> QED BY <3>3, <4>1, AdminsFewer
    <3> QED BY <3>2, <3>4, <3>5
  <2>3. CASE SetColumn(w)
    <3>1. Founding' \in SUBSET Founding
      BY <2>3, FoundingKept DEF SetColumn, Audit, Become, Idle
    <3>2. req[w].name \in Names
      BY <2>3, NamedType DEF SetColumn, At, NamedPcs
    <3>3. \A m \in Names : users'[m] # None => users[m] # None /\ users'[m].role = users[m].role
      BY <2>3, <3>2 DEF SetColumn, TypeOK, Row
    <3>4. Admins' \in SUBSET Admins
      BY <3>3 DEF Admins
    <3> QED BY <3>1, <3>4, AdminsFewer
  <2>4. CASE EraseUser(w)
    <3>1. Founding' \in SUBSET Founding
      BY <2>4, FoundingKept DEF EraseUser, Become, Idle
    <3>2. req[w].name \in Names
      BY <2>4, NamedType DEF EraseUser, At, NamedPcs, ErasePcs
    <3>3. Admins' \in SUBSET Admins
      BY <2>4, <3>2 DEF EraseUser, Erased, Admins, TypeOK
    <3> QED BY <3>1, <3>3, AdminsFewer
  <2>5. ASSUME UNCHANGED users,
               \E r : r.pc # "counted" /\ req' = [req EXCEPT ![w] = r]
        PROVE  AdminInv'
    <3>1. Founding' \in SUBSET Founding
      BY <2>5, FoundingKept
    <3>2. Admins' \in SUBSET Admins
      BY <2>5 DEF Admins
    <3> QED BY <3>1, <3>2, AdminsFewer
  <2>6. ASSUME NEW n \in Names,
               Register(w, n) \/ FreeUsername(w, n) \/ Login(w, n) \/ GoogleKnown(w, n)
        PROVE  AdminInv'
    BY <2>5, <2>6 DEF Register, FreeUsername, Login, GoogleKnown, Audit, Become
  <2>7. ASSUME NEW n \in Names, NEW b \in Births,
               LoginNobody(w, n, b) \/ Refuse(w, n, b) \/ Refresh(w, n, b) \/ Act(w, n, b)
                 \/ Delete(w, n, b)
        PROVE  AdminInv'
    BY <2>5, <2>7 DEF LoginNobody, Refuse, Late, Refresh, Act, Delete, Audit, Become
  <2>8. ASSUME NEW s \in Subs, GoogleNew(w, s) PROVE AdminInv'
    BY <2>5, <2>8 DEF GoogleNew, Become
  <2>9. ASSUME NEW k \in Kinds, Write(w, k) PROVE AdminInv'
    BY <2>5, <2>9 DEF Write, Audit, Become
  <2>11. CASE InsertConflict(w) \/ FindUser(w) \/ IssueTokens(w) \/ WriteAudit(w) \/ WriteLate(w)
                \/ Abort(w)
    BY <2>5, <2>11 DEF InsertConflict, FindUser, IssueTokens, WriteAudit, WriteLate, Abort, Audit,
                       Become, Idle
  <2>10. CASE EraseContent(w)
    <3>1. req[w] \in Request /\ req[w].pc \in Kinds
      BY <2>10, NamedType DEF EraseContent, Kinds, NamedPcs, ErasePcs
    <3>2. [req[w] EXCEPT !.pc = After[@]].pc # "counted"
      BY <3>1 DEF Request, After, Kinds
    <3> QED BY <2>5, <2>10, <3>2 DEF EraseContent, Become
  <2> QED BY <1>1, <2>1, <2>2, <2>3, <2>4, <2>6, <2>7, <2>8, <2>9, <2>10, <2>11 DEF Step
<1>2. ASSUME UNCHANGED <<users, req>> PROVE AdminInv'
  <2>1. Admins' \in SUBSET Admins /\ Founding' \in SUBSET Founding
    BY <1>2 DEF Admins, Founding, At
  <2> QED BY <2>1, AdminsFewer
<1>3. ASSUME NEW t \in tokens, Lapse(t) PROVE AdminInv'
  BY <1>2, <1>3 DEF Lapse
<1>4. CASE UNCHANGED vars
  BY <1>2, <1>4 DEF vars
<1> QED BY <1>1, <1>3, <1>4 DEF Next

\* However many registrations run in parallel, there are never more admins than
\* requests that can be in flight together.
THEOREM FewAdmins == Spec => []AdminsBounded
<1>1. Init => TypeOK /\ AdminInv
  BY InitType, InitAdmins
<1>2. TypeOK /\ AdminInv /\ [Next]_vars => TypeOK' /\ AdminInv'
  BY NextType, NextAdmins
<1>3. AdminInv => AdminsBounded
  BY DEF AdminInv
<1> QED BY <1>1, <1>2, <1>3, PTL DEF Spec

------------------------------------------------------------------------------
(***************************************************************************)
(* What an account leaves behind.                                          *)
(***************************************************************************)

Named  == {w \in Workers : req[w].pc \in NamedPcs}
Erases == {w \in Workers : req[w].pc \in ErasePcs}
Lates  == {w \in Workers : At(w, "late")}

\* The usernames under which a birth number occurs, wherever that is.
Pairs == {<<n, users[n].birth>> : n \in {m \in Names : users[m] # None}}
         \cup {<<d.name, d.birth>> : d \in data} \cup {<<e.name, e.birth>> : e \in trail}
         \cup {<<req[w].name, req[w].birth>> : w \in Named \cup Lates} \cup ever

OneName == \A p, q \in Pairs : p[2] = q[2] => p[1] = q[1]
Past    == \A p \in Pairs : p[2] <= births

Current == \A w \in Named : LET row == users[req[w].name] IN
  req[w].birth \in crossed \/ (row # None /\ row.birth = req[w].birth)

Alone == \A u \in Erases, v \in Named :
  u # v /\ req[u].name = req[v].name => {req[u].birth, req[v].birth} \subseteq crossed

Meant == \A u \in Erases : LET row == users[req[u].name] IN
  row # None => row.birth \in crossed \cup {req[u].birth}

\* What an erasure that is at pc has still to erase.
Left == [chats |-> Kinds \cup {"tokens"}, docs |-> {"docs", "quota", "tokens"},
         quota |-> {"quota", "tokens"}, account |-> {"tokens"}]

Emptied == \A u \in Erases, d \in data :
  d.birth = req[u].birth => d.birth \in crossed \/ d.kind \in Left[req[u].pc]

Held == \A t \in tokens : LET row == users[t[1]] IN
  row # None => t[2] \in {row.birth} \cup crossed \cup outlived

Set == \A w \in Workers :
  At(w, "setting") => req[w].by \in {req[w].birth} \cup crossed \cup outlived

IInv == OneName /\ Past /\ Current /\ Alone /\ Meant /\ Emptied /\ Held /\ Set

LEMMA InitIInv == Init => IInv
BY DEF Init, IInv, OneName, Past, Current, Alone, Meant, Emptied, Held, Set, Pairs, Named, Erases,
       Lates, At, Idle, NamedPcs, ErasePcs

LEMMA Around ==
  ASSUME TypeOK, NEW w \in Workers, NEW r, req' = [req EXCEPT ![w] = r]
  PROVE  req'[w] = r /\ \A v \in Workers \ {w} : req'[v] = req[v]
BY DEF TypeOK

LEMMA ErasesNamed == Erases \subseteq Named /\ Named \subseteq Workers
BY DEF Erases, Named, NamedPcs

\* w goes on under its name, or leaves; nobody begins to erase, accounts stay.
LEMMA GoesOn ==
  ASSUME TypeOK, IInv, NEW w \in Workers, NEW r, req' = [req EXCEPT ![w] = r],
         r.pc \in NamedPcs =>
           w \in Named /\ r.name = req[w].name /\ r.birth = req[w].birth,
         r.pc \notin ErasePcs, r.pc # "setting",
         \A m \in Names : /\ users'[m] = None <=> users[m] = None
                          /\ users[m] # None => users'[m].birth = users[m].birth,
         UNCHANGED <<births, crossed, outlived>>, Pairs' \subseteq Pairs,
         \A t \in tokens' : \/ t \in tokens
                            \/ w \in Named /\ t = <<req[w].name, req[w].birth>>,
         \A u \in Erases : \A d \in data' :
           d \in data \/ d.birth # req[u].birth \/ d.birth \in crossed
  PROVE  IInv'
<1>1. req'[w] = r /\ \A v \in Workers \ {w} : req'[v] = req[v]
  BY Around
<1>2. \A v \in Named' : v \in Named /\ req'[v].name = req[v].name /\ req'[v].birth = req[v].birth
  BY <1>1 DEF Named
<1>3. \A v \in Erases' : v \in Erases /\ req'[v] = req[v]
  BY <1>1 DEF Erases
<1>4. \A v \in Named : req[v].name \in Names
  BY NamedType DEF Named
<1>5. OneName' /\ Past'
  BY DEF IInv, OneName, Past
<1>6. Current'
  BY <1>2, <1>4 DEF IInv, Current
<1>7. Alone'
  BY <1>2, <1>3 DEF IInv, Alone
<1>8. Meant'
  BY <1>3, <1>4, ErasesNamed DEF IInv, Meant
<1>9. Emptied'
  BY <1>3 DEF IInv, Emptied
<1>10. Held'
  <2> SUFFICES ASSUME NEW t \in tokens', users'[t[1]] # None
               PROVE  t[2] \in {users'[t[1]].birth} \cup crossed \cup outlived
    BY DEF Held
  <2>1. CASE t \in tokens
    <3>1. t[1] \in Names
      BY <2>1 DEF TypeOK
    <3> QED BY <2>1, <3>1 DEF IInv, Held
  <2>2. CASE w \in Named /\ t = <<req[w].name, req[w].birth>>
    <3>1. t[1] = req[w].name /\ t[2] = req[w].birth /\ t[1] \in Names
      BY <1>4, <2>2
    <3> QED BY <2>2, <3>1 DEF IInv, Current
  <2> QED BY <2>1, <2>2
<1>11. Set'
  BY <1>1 DEF IInv, Set, At
<1> QED BY <1>5, <1>6, <1>7, <1>8, <1>9, <1>10, <1>11 DEF IInv

\* What Meet makes of a request that starts under n for the account b.
LEMMA MeetCrosses ==
  ASSUME NEW n, NEW B, NEW e \in BOOLEAN, Meet(n, B, e)
  PROVE  /\ crossed \subseteq crossed'
         /\ \A v \in Named : req[v].name = n /\ (e \/ v \in Erases) => B \subseteq crossed'
<1>1. \A v \in Named : req[v].name = n => v \in Under(n)
  BY DEF Named, Under, NamedPcs, ErasePcs
<1>2. \A v \in Erases : req[v].name = n => v \in Erasing(n)
  BY <1>1, ErasesNamed DEF Erases, Erasing, ErasePcs
<1> QED BY <1>1, <1>2 DEF Meet

\* w enters under n, on behalf of the account b: the one that has the name, or one
\* that is crossed already.
LEMMA Enters ==
  ASSUME TypeOK, IInv, NEW w \in Workers \ Named, NEW n \in Names, NEW b, NEW r,
         NEW B, NEW e \in BOOLEAN, Meet(n, B, e),
         b \in B, Holder(n) \subseteq B, b \in Holder(n) \cup crossed, <<n, b>> \in Pairs,
         req' = [req EXCEPT ![w] = r],
         r.pc \in NamedPcs, r.name = n, r.birth = b,
         r.pc \in ErasePcs => e /\ r.pc = "chats" /\ b \in Holder(n),
         r.pc = "setting" => r.by \in {b} \cup crossed \cup outlived,
         data' \subseteq data, UNCHANGED <<users, births, tokens, trail, ever, outlived>>
  PROVE  IInv'
<1>1. req'[w] = r /\ \A v \in Workers \ {w} : req'[v] = req[v]
  BY Around
<1>2. Named' = Named \cup {w}
  BY <1>1 DEF Named
<1>3. \A v \in Named : v # w /\ req'[v] = req[v]
  BY <1>1 DEF Named
<1>4. \A v \in Erases' : v # w => v \in Erases
  BY <1>1 DEF Erases
<1>5. crossed \subseteq crossed'
      /\ \A v \in Named : req[v].name = n /\ (e \/ v \in Erases) => B \subseteq crossed'
  BY MeetCrosses
<1>6. Pairs' \subseteq Pairs
  <2>1. \A v \in Lates' : v \in Lates /\ req'[v] = req[v]
    BY <1>1 DEF Lates, At, NamedPcs, ErasePcs
  <2>2. \A v \in Named' \cup Lates' : <<req'[v].name, req'[v].birth>> \in Pairs
    BY <1>1, <1>2, <1>3, <2>1 DEF Pairs
  <2> QED BY <2>2 DEF Pairs
<1>7. OneName' /\ Past'
  BY <1>6 DEF IInv, OneName, Past
<1>8. b \in crossed \/ (users[n] # None /\ users[n].birth = b)
  BY DEF Holder
<1>9. Current'
  BY <1>1, <1>2, <1>3, <1>5, <1>8 DEF IInv, Current
<1>10. ASSUME NEW v \in Named, req[v].name = n, e \/ v \in Erases
       PROVE  {b, req[v].birth} \subseteq crossed'
  <2>1. B \subseteq crossed'
    BY <1>5, <1>10
  <2>2. req[v].birth \in crossed \/ req[v].birth \in Holder(n)
    BY <1>10 DEF IInv, Current, Holder
  <2> QED BY <1>5, <2>1, <2>2
<1>11. Alone'
  <2> SUFFICES ASSUME NEW u \in Erases', NEW v \in Named', u # v, req'[u].name = req'[v].name
               PROVE  req'[u].birth \in crossed' /\ req'[v].birth \in crossed'
    BY DEF Alone
  <2>1. CASE u = w
    <3>1. v \in Named /\ req'[v] = req[v] /\ req[v].name = n /\ e
      BY <1>1, <1>2, <1>3, <2>1 DEF Erases
    <3> QED BY <1>1, <1>10, <2>1, <3>1
  <2>2. CASE v = w
    <3>1. u \in Erases /\ u \in Named /\ req'[u] = req[u] /\ req[u].name = n
      BY <1>1, <1>3, <1>4, <2>2, ErasesNamed
    <3> QED BY <1>1, <1>10, <2>2, <3>1
  <2>3. CASE u # w /\ v # w
    <3>1. u \in Erases /\ v \in Named /\ req'[u] = req[u] /\ req'[v] = req[v]
      BY <1>2, <1>3, <1>4, <2>3, ErasesNamed
    <3> QED BY <1>5, <3>1 DEF IInv, Alone
  <2> QED BY <2>1, <2>2, <2>3
<1>12. Meant'
  <2>1. w \in Erases' => users[n].birth = b
    BY <1>1 DEF Erases, Holder
  <2> QED BY <1>1, <1>3, <1>4, <1>5, <2>1, ErasesNamed DEF IInv, Meant
<1>13. Emptied'
  <2>1. \A d \in data : d.kind \in Left["chats"]
    BY DEF TypeOK, Item, Left
  <2>2. w \in Erases' => req'[w].pc = "chats"
    BY <1>1 DEF Erases
  <2> QED BY <1>3, <1>4, <1>5, <2>1, <2>2, ErasesNamed DEF IInv, Emptied
<1>14. Held'
  BY <1>5 DEF IInv, Held
<1>15. Set'
  BY <1>1, <1>5 DEF IInv, Set, At
<1> QED BY <1>7, <1>9, <1>11, <1>12, <1>13, <1>14, <1>15 DEF IInv

\* A new account: its number is a new one.
LEMMA InsertKeeps ==
  ASSUME TypeOK, IInv, NEW w \in Workers, Insert(w)
  PROVE  IInv'
<1> DEFINE n == req[w].name
           b == births + 1
           r == [pc |-> "audit", name |-> n, as |-> "name", birth |-> b, more |-> req[w].sub # None]
           row == NewRow(w)
<1>0. /\ At(w, "counted") /\ users[n] = None
      /\ users' = [users EXCEPT ![n] = row] /\ births' = b
      /\ ever' = ever \cup {<<n, b>>}
      /\ outlived' = outlived \cup {t[2] : t \in {u \in tokens : u[1] = n}}
      /\ req' = [req EXCEPT ![w] = r] /\ Meet(n, {b}, FALSE)
      /\ data' = data /\ tokens' = tokens /\ trail' = trail
      /\ r.pc = "audit" /\ r.name = n /\ r.birth = b /\ row.birth = b /\ row # None
  <2>1. b \in Births
    BY AccountsAssumption DEF Insert, TypeOK, Births
  <2>2. row \in Row
    BY <2>1, FoundingType DEF Insert, At, Row, NewRow
  <2> QED BY <2>2, AccountsAssumption DEF Insert, Found, NewRow, Audit, Become, Taken
<1>1. n \in Names /\ births \in Nat /\ b = births + 1
  BY <1>0, FoundingType DEF At, TypeOK
<1> HIDE DEF n, b, r, row
<1>2. req'[w] = r /\ \A v \in Workers \ {w} : req'[v] = req[v]
  BY <1>0, Around
<1>3. w \notin Named /\ Named' = Named \cup {w} /\ Erases' = Erases
  BY <1>0, <1>2 DEF Named, Erases, At, NamedPcs, ErasePcs
<1>4. /\ \A v \in Named : req'[v] = req[v] /\ req[v].name \in Names
      /\ Lates' = Lates /\ \A v \in Lates : req'[v] = req[v]
  BY <1>0, <1>2, <1>3, NamedType DEF Named, Lates, At
<1>5. /\ crossed \subseteq crossed'
      /\ \A v \in Erases : req[v].name = n => b \in crossed'
  BY <1>0, MeetCrosses, ErasesNamed
<1>6. users'[n] = row /\ \A m \in Names \ {n} : users'[m] = users[m]
  BY <1>0, <1>1 DEF TypeOK
<1>7. Pairs' \subseteq Pairs \cup {<<n, b>>}
  <2>1. \A m \in Names : users'[m] # None => <<m, users'[m].birth>> \in Pairs \cup {<<n, b>>}
    BY <1>0, <1>6 DEF Pairs
  <2>2. \A v \in Named' \cup Lates' : <<req'[v].name, req'[v].birth>> \in Pairs \cup {<<n, b>>}
    BY <1>0, <1>2, <1>3, <1>4 DEF Pairs
  <2>3. /\ \A d \in data' : <<d.name, d.birth>> \in Pairs
        /\ \A e \in trail' : <<e.name, e.birth>> \in Pairs
        /\ ever' \subseteq Pairs \cup {<<n, b>>}
    BY <1>0 DEF Pairs
  <2> QED BY <2>1, <2>2, <2>3 DEF Pairs
<1>8. \A p \in Pairs : p[2] \in Nat /\ p[2] <= births
  <2>1. \A p \in Pairs : p[2] \in Births
    BY NamedType DEF Pairs, Named, Lates, At, TypeOK, Row, Item, Entry
  <2> QED BY <2>1 DEF IInv, Past, Births
<1>9. OneName'
  <2>1. \A p \in Pairs : p[2] # b
    BY <1>1, <1>8
  <2> QED BY <1>7, <2>1 DEF IInv, OneName
<1>10. Past'
  BY <1>0, <1>1, <1>7, <1>8 DEF Past
<1>11. Current'
  BY <1>0, <1>2, <1>3, <1>4, <1>5, <1>6 DEF IInv, Current
<1>12. Alone'
  <2> SUFFICES ASSUME NEW u \in Erases, NEW v \in Named', u # v, req'[u].name = req'[v].name
               PROVE  req'[u].birth \in crossed' /\ req'[v].birth \in crossed'
    BY <1>3 DEF Alone
  <2>1. u \in Named /\ req'[u] = req[u]
    BY <1>4, ErasesNamed
  <2>2. CASE v = w
    <3>1. req[u].name = n
      BY <1>0, <1>2, <2>1, <2>2
    <3>2. b \in crossed'
      BY <1>5, <3>1
    <3>3. req[u].birth \in crossed
      BY <1>0, <2>1, <3>1 DEF IInv, Current
    <3> QED BY <1>0, <1>2, <1>5, <2>1, <2>2, <3>2, <3>3
  <2>3. CASE v # w
    <3>1. v \in Named /\ req'[v] = req[v]
      BY <1>3, <1>4, <2>3
    <3> QED BY <1>5, <2>1, <3>1 DEF IInv, Alone
  <2> QED BY <2>2, <2>3
<1>13. Meant'
  BY <1>0, <1>3, <1>4, <1>5, <1>6, ErasesNamed DEF IInv, Meant
<1>14. Emptied'
  BY <1>0, <1>3, <1>4, <1>5, ErasesNamed DEF IInv, Emptied
<1>15. Held'
  <2> SUFFICES ASSUME NEW t \in tokens, users'[t[1]] # None
               PROVE  t[2] \in {users'[t[1]].birth} \cup crossed' \cup outlived'
    BY <1>0 DEF Held
  <2>1. CASE t[1] = n
    BY <1>0, <2>1
  <2>2. CASE t[1] # n
    <3>1. t[1] \in Names
      BY DEF TypeOK
    <3> QED BY <1>0, <1>5, <1>6, <2>2, <3>1 DEF IInv, Held
  <2> QED BY <2>1, <2>2
<1>16. Set'
  BY <1>0, <1>2, <1>5 DEF IInv, Set, At
<1> QED BY <1>9, <1>10, <1>11, <1>12, <1>13, <1>14, <1>15, <1>16 DEF IInv

\* What an erasure finds under its name that carries its number carries its name.
LEMMA SameName ==
  ASSUME TypeOK, IInv, NEW u \in Named
  PROVE  /\ \A d \in data : d.birth = req[u].birth => d.name = req[u].name
         /\ \A v \in Named : req[v].birth = req[u].birth => req[v].name = req[u].name
<1>1. <<req[u].name, req[u].birth>> \in Pairs
  BY DEF Pairs
<1>2. \A d \in data : <<d.name, d.birth>> \in Pairs
  BY DEF Pairs
<1>3. \A v \in Named : <<req[v].name, req[v].birth>> \in Pairs
  BY DEF Pairs
<1> QED BY <1>1, <1>2, <1>3 DEF IInv, OneName

\* One kind of content goes, and the erasure turns to the next.
LEMMA EraseContentKeeps ==
  ASSUME TypeOK, IInv, NEW w \in Workers, EraseContent(w)
  PROVE  IInv'
<1> DEFINE r == [req[w] EXCEPT !.pc = After[@]]
<1>0. /\ req[w].pc \in Kinds /\ req' = [req EXCEPT ![w] = r]
      /\ data' = {d \in data : ~(d.name = req[w].name /\ d.kind = req[w].pc)}
      /\ UNCHANGED <<users, births, tokens, trail, ever, crossed, outlived>>
  BY DEF EraseContent, Become
<1>1. w \in Named /\ w \in Erases
  BY <1>0 DEF Named, Erases, Kinds, NamedPcs, ErasePcs
<1>2. /\ r.pc = After[req[w].pc] /\ r.pc \in ErasePcs
      /\ r.name = req[w].name /\ r.birth = req[w].birth
  BY <1>0, <1>1, NamedType DEF Named, Request, After, Kinds, ErasePcs
<1> HIDE DEF r
<1>3. req'[w] = r /\ \A v \in Workers \ {w} : req'[v] = req[v]
  BY <1>0, Around
<1>4. /\ Named' = Named /\ Erases' = Erases
      /\ Lates' = Lates /\ \A v \in Lates : req'[v] = req[v]
  BY <1>1, <1>2, <1>3 DEF Named, Erases, NamedPcs, ErasePcs, Lates, At
<1>5. \A v \in Named : /\ req'[v].name = req[v].name /\ req'[v].birth = req[v].birth
                       /\ req[v].name \in Names
  BY <1>2, <1>3, NamedType DEF Named
<1>6. Pairs' \subseteq Pairs
  BY <1>0, <1>4, <1>5 DEF Pairs
<1>7. OneName' /\ Past'
  BY <1>0, <1>6 DEF IInv, OneName, Past
<1>8. Current' /\ Alone' /\ Meant'
  BY <1>0, <1>4, <1>5, ErasesNamed DEF IInv, Current, Alone, Meant
<1>9. Emptied'
  <2> SUFFICES ASSUME NEW u \in Erases, NEW d \in data', d.birth = req'[u].birth
               PROVE  d.birth \in crossed \/ d.kind \in Left[req'[u].pc]
    BY <1>0, <1>4 DEF Emptied
  <2>1. d \in data /\ d.birth = req[u].birth
    BY <1>0, <1>5, ErasesNamed
  <2>2. d.birth \in crossed \/ d.kind \in Left[req[u].pc]
    BY <2>1 DEF IInv, Emptied
  <2>3. CASE u = w
    <3>1. d.name = req[w].name
      BY <1>1, <2>1, <2>3, SameName
    <3>2. d.kind # req[w].pc
      BY <1>0, <3>1
    <3> QED BY <1>0, <1>2, <1>3, <2>2, <2>3, <3>2 DEF Left, After, Kinds
  <2>4. CASE u # w
    BY <1>3, <2>2, <2>4 DEF Erases
  <2> QED BY <2>3, <2>4
<1>10. Held' /\ Set'
  BY <1>0, <1>2, <1>3 DEF IInv, Held, Set, At, ErasePcs
<1> QED BY <1>7, <1>8, <1>9, <1>10 DEF IInv

\* The account goes; requests that are still under its name were crossed by this one.
LEMMA EraseUserKeeps ==
  ASSUME TypeOK, IInv, NEW w \in Workers, EraseUser(w)
  PROVE  IInv'
<1> DEFINE n == req[w].name
<1>0. /\ req[w].pc = "account" /\ req' = [req EXCEPT ![w] = Idle]
      /\ users' = [users EXCEPT ![n] = None]
      /\ trail' \subseteq trail /\ data' \subseteq data
      /\ UNCHANGED <<births, tokens, ever, crossed, outlived>>
  BY DEF EraseUser, Erased, Become, At
<1>1. w \in Named /\ w \in Erases
  BY <1>0 DEF Named, Erases, NamedPcs, ErasePcs
<1>2. n \in Names
  BY <1>1, NamedType DEF Named
<1> HIDE DEF n
<1>3. req'[w] = Idle /\ \A v \in Workers \ {w} : req'[v] = req[v]
  BY <1>0, Around
<1>4. /\ Named' = Named \ {w} /\ Erases' = Erases \ {w}
      /\ \A v \in Lates' : v \in Lates /\ req'[v] = req[v]
  BY <1>3 DEF Named, Erases, Idle, NamedPcs, ErasePcs, Lates, At
<1>5. \A v \in Named \ {w} : req'[v] = req[v] /\ req[v].name \in Names
  BY <1>3, NamedType DEF Named
<1>6. users'[n] = None /\ \A m \in Names \ {n} : users'[m] = users[m]
  BY <1>0, <1>2 DEF TypeOK
<1>7. Pairs' \subseteq Pairs
  <2>1. \A m \in Names : users'[m] # None => <<m, users'[m].birth>> \in Pairs
    BY <1>6 DEF Pairs
  <2>2. \A v \in Named' \cup Lates' : <<req'[v].name, req'[v].birth>> \in Pairs
    BY <1>4, <1>5 DEF Pairs
  <2>3. /\ \A d \in data' : <<d.name, d.birth>> \in Pairs
        /\ \A e \in trail' : <<e.name, e.birth>> \in Pairs
        /\ ever' \subseteq Pairs
    BY <1>0 DEF Pairs
  <2> QED BY <2>1, <2>2, <2>3 DEF Pairs
<1>8. OneName' /\ Past'
  BY <1>0, <1>7 DEF IInv, OneName, Past
<1>9. Current'
  <2> SUFFICES ASSUME NEW v \in Named \ {w}
               PROVE  \/ req[v].birth \in crossed
                      \/ /\ users'[req[v].name] # None
                         /\ users'[req[v].name].birth = req[v].birth
    BY <1>0, <1>4, <1>5 DEF Current
  <2>1. CASE req[v].name = n
    BY <1>1, <2>1 DEF IInv, Alone, n
  <2>2. CASE req[v].name # n
    BY <1>5, <1>6, <2>2 DEF IInv, Current
  <2> QED BY <2>1, <2>2
<1>10. Alone' /\ Emptied'
  BY <1>0, <1>4, <1>5, ErasesNamed DEF IInv, Alone, Emptied
<1>11. Meant'
  BY <1>0, <1>4, <1>5, <1>6, ErasesNamed DEF IInv, Meant
<1>12. Held'
  <2>1. \A t \in tokens : t[1] \in Names
    BY DEF TypeOK
  <2> QED BY <1>0, <1>6, <2>1 DEF IInv, Held
<1>13. Set'
  BY <1>0, <1>3 DEF IInv, Set, At, Idle
<1> QED BY <1>8, <1>9, <1>10, <1>11, <1>12, <1>13 DEF IInv

\* A step of w that runs under no name afterwards and writes nothing.
LEMMA Quiet ==
  ASSUME TypeOK, IInv, NEW w \in Workers, NEW r, req' = [req EXCEPT ![w] = r],
         r.pc \notin NamedPcs, r.pc = "late" => <<r.name, r.birth>> \in ever,
         UNCHANGED <<users, births, data, tokens, trail, ever, crossed, outlived>>
  PROVE  IInv'
<1>1. req'[w] = r /\ \A v \in Workers \ {w} : req'[v] = req[v]
  BY Around
<1>2. \A v \in Named' : v \in Named /\ req'[v] = req[v]
  BY <1>1 DEF Named
<1>3. \A v \in Lates' : <<req'[v].name, req'[v].birth>> \in Pairs
  BY <1>1 DEF Lates, At, Pairs
<1>4. Pairs' \subseteq Pairs
  BY <1>2, <1>3 DEF Pairs
<1>5. r.pc \notin ErasePcs /\ r.pc # "setting"
  BY DEF NamedPcs
<1> QED BY <1>4, <1>5, GoesOn

\* w goes on under its name and stores something there.
LEMMA Stores ==
  ASSUME TypeOK, IInv, NEW w \in Named \ Erases, NEW r, req' = [req EXCEPT ![w] = r],
         r.pc = "idle" \/ (r.pc = "audit" /\ r.name = req[w].name /\ r.birth = req[w].birth),
         NEW i, data' = data \cup {i}, i.name = req[w].name, i.birth = req[w].birth,
         tokens' \subseteq tokens \cup {<<req[w].name, req[w].birth>>},
         UNCHANGED <<users, births, trail, ever, crossed, outlived>>
  PROVE  IInv'
<1>1. w \in Workers
  BY ErasesNamed
<1>2. req'[w] = r /\ \A v \in Workers \ {w} : req'[v] = req[v]
  BY <1>1, Around
<1>3. /\ r.pc \notin ErasePcs /\ r.pc # "setting" /\ r.pc # "late"
      /\ r.pc \in NamedPcs => r.pc = "audit"
  BY DEF NamedPcs, ErasePcs
<1>4. /\ \A v \in Named' : /\ v \in Named /\ req'[v].name = req[v].name
                           /\ req'[v].birth = req[v].birth
      /\ \A v \in Lates' : v \in Lates /\ req'[v] = req[v]
  BY <1>1, <1>2, <1>3 DEF Named, Lates, At
<1>5. Pairs' \subseteq Pairs
  <2>1. <<i.name, i.birth>> \in Pairs
    BY DEF Pairs
  <2>2. \A d \in data' : <<d.name, d.birth>> \in Pairs
    BY <2>1 DEF Pairs
  <2>3. \A v \in Named' \cup Lates' : <<req'[v].name, req'[v].birth>> \in Pairs
    BY <1>4 DEF Pairs
  <2> QED BY <2>2, <2>3 DEF Pairs
<1>6. \A u \in Erases : \A d \in data' :
        d \in data \/ d.birth # req[u].birth \/ d.birth \in crossed
  <2> SUFFICES ASSUME NEW u \in Erases, i.birth = req[u].birth PROVE i.birth \in crossed
    OBVIOUS
  <2>1. u \in Named /\ req[w].name = req[u].name
    BY SameName, ErasesNamed
  <2> QED BY <2>1 DEF IInv, Alone
<1> QED BY <1>1, <1>3, <1>5, <1>6, GoesOn

LEMMA SetColumnKeeps ==
  ASSUME TypeOK, IInv, NEW w \in Workers, SetColumn(w)
  PROVE  IInv'
<1>1. PICK r : /\ req' = [req EXCEPT ![w] = r]
               /\ r.pc = "idle" \/ (r.pc = "audit" /\ r.name = req[w].name /\ r.birth = req[w].birth)
  <2>1. CASE Become(w, Idle)
    <3>1. req' = [req EXCEPT ![w] = Idle] /\ Idle.pc = "idle"
      BY <2>1 DEF Become, Idle
    <3> QED BY <3>1
  <2>2. CASE Audit(w, req[w].name, "name", req[w].birth, req[w].more)
    <3> DEFINE a == [pc |-> "audit", name |-> req[w].name, as |-> "name", birth |-> req[w].birth,
                     more |-> req[w].more]
    <3>1. /\ req' = [req EXCEPT ![w] = a]
          /\ a.pc = "audit" /\ a.name = req[w].name /\ a.birth = req[w].birth
      BY <2>2 DEF Audit, Become
    <3> HIDE DEF a
    <3> QED BY <3>1
  <2> QED BY <2>1, <2>2 DEF SetColumn
<1>2. w \in Named /\ UNCHANGED <<births, data, tokens, trail, ever, crossed, outlived>>
  BY DEF SetColumn, At, Named, NamedPcs
<1>3. /\ r.pc \notin ErasePcs /\ r.pc # "setting" /\ r.pc # "late"
      /\ r.pc \in NamedPcs => r.pc = "audit"
  BY <1>1 DEF NamedPcs, ErasePcs
<1>4. \A m \in Names : /\ users'[m] = None <=> users[m] = None
                       /\ users[m] # None => users'[m].birth = users[m].birth
  <2>1. req[w].name \in Names /\ req[w].by \in Births
    BY NamedType DEF SetColumn, At, NamedPcs
  <2>2. users' = IF users[req[w].name] = None THEN users
                 ELSE [users EXCEPT ![req[w].name].set_by = req[w].by]
    BY DEF SetColumn
  <2>3. CASE users[req[w].name] = None
    BY <2>2, <2>3
  <2>4. CASE users[req[w].name] # None
    <3>1. users[req[w].name] \in Row
      BY <2>1, <2>4 DEF TypeOK
    <3>2. [users[req[w].name] EXCEPT !.set_by = req[w].by] \in Row
      BY <2>1, <3>1 DEF Row
    <3> QED BY <2>1, <2>2, <2>4, <3>1, <3>2, AccountsAssumption DEF TypeOK, Row
  <2> QED BY <2>3, <2>4
<1>5. req'[w] = r /\ \A v \in Workers \ {w} : req'[v] = req[v]
  BY <1>1, Around
<1>6. /\ \A v \in Named' : /\ v \in Named /\ req'[v].name = req[v].name
                           /\ req'[v].birth = req[v].birth
      /\ \A v \in Lates' : v \in Lates /\ req'[v] = req[v]
  BY <1>1, <1>2, <1>3, <1>5 DEF Named, Lates, At
<1>7. Pairs' \subseteq Pairs
  BY <1>2, <1>4, <1>6 DEF Pairs
<1> QED BY <1>1, <1>2, <1>3, <1>4, <1>7, GoesOn

\* A refresh, a login or an authenticated request begins, or DELETE /account.
LEMMA BeginKeeps ==
  ASSUME TypeOK, IInv, NothingOutlivesAccount, NEW w \in Workers, NEW n \in Names, NEW b \in Births,
         \/ LoginNobody(w, n, b) \/ Refuse(w, n, b)
         \/ Refresh(w, n, b) \/ Act(w, n, b) \/ Delete(w, n, b)
  PROVE  IInv'
<1>0. At(w, "idle") /\ w \in Workers \ Named
  BY DEF LoginNobody, Refuse, Refresh, Act, Delete, At, Named, NamedPcs, ErasePcs
<1>1. ASSUME Late(w, n, b), <<n, b>> \in ever PROVE IInv'
  <2> DEFINE r == [pc |-> "late", name |-> n, birth |-> b]
  <2>1. /\ req' = [req EXCEPT ![w] = r]
        /\ UNCHANGED <<users, births, data, tokens, trail, ever, crossed, outlived>>
    BY <1>1 DEF Late, Become
  <2>2. r.pc = "late" /\ r.pc \notin NamedPcs /\ r.name = n /\ r.birth = b
    BY DEF NamedPcs, ErasePcs
  <2> HIDE DEF r
  <2> QED BY <1>1, <2>1, <2>2, Quiet
<1>2. CASE LoginNobody(w, n, b)
  BY <1>1, <1>2 DEF LoginNobody
<1>3. ASSUME <<n, b>> \in Pairs, b \in Alive \cup crossed PROVE b \in Holder(n) \cup crossed
  <2> SUFFICES ASSUME b \in Alive PROVE b \in Holder(n)
    BY <1>3
  <2>1. PICK m \in Names : users[m] # None /\ users[m].birth = b
    BY DEF Alive
  <2>2. <<m, b>> \in Pairs
    BY <2>1 DEF Pairs
  <2>3. m = n
    BY <1>3, <2>2 DEF IInv, OneName
  <2> QED BY <2>1, <2>3 DEF Holder
<1>4. users[n] # None => /\ Holder(n) = {users[n].birth} /\ <<n, users[n].birth>> \in Pairs
  BY DEF Holder, Pairs
<1>5. CASE Refuse(w, n, b)
  <2>1. CASE Late(w, n, b)
    BY <1>1, <1>5, <2>1 DEF Refuse
  <2>2. CASE ~Late(w, n, b)
    <3> DEFINE r == [pc |-> "audit", name |-> n, as |-> "name", birth |-> b, more |-> FALSE]
    <3>1. /\ <<n, b>> \in ever /\ b \in Alive
          /\ req' = [req EXCEPT ![w] = r] /\ Meet(n, {b}, FALSE)
          /\ UNCHANGED <<users, births, data, tokens, trail, ever, outlived>>
      BY <1>5, <2>2 DEF Refuse, Audit, Become
    <3>2. /\ r.pc = "audit" /\ r.name = n /\ r.birth = b
          /\ r.pc \in NamedPcs /\ r.pc \notin ErasePcs /\ r.pc # "setting"
      BY DEF NamedPcs, ErasePcs
    <3>3. <<n, b>> \in Pairs
      BY <3>1 DEF Pairs
    <3>4. /\ b \in Holder(n) \cup crossed
      BY <1>3, <3>1, <3>3
    <3>5. Holder(n) \subseteq {b}
      <4>1. PICK m \in Names : users[m] # None /\ users[m].birth = b
        BY <3>1 DEF Alive
      <4>2. <<m, b>> \in Pairs
        BY <4>1 DEF Pairs
      <4>3. m = n
        BY <3>3, <4>2 DEF IInv, OneName
      <4> QED BY <1>4, <4>1, <4>3
    <3> HIDE DEF r
    <3> QED BY <1>0, <3>1, <3>2, <3>3, <3>4, <3>5, Enters
  <2> QED BY <2>1, <2>2
<1>6. CASE Refresh(w, n, b)
  <2> DEFINE r == [pc |-> "swapped", name |-> n, birth |-> b]
             row == [name |-> n, kind |-> "tokens", birth |-> b]
             B == {b} \cup Holder(n)
  <2>1. /\ row \in data /\ row.name = n /\ row.birth = b /\ data' \subseteq data
        /\ req' = [req EXCEPT ![w] = r] /\ Meet(n, B, FALSE)
        /\ b \in B /\ Holder(n) \subseteq B
        /\ UNCHANGED <<users, births, tokens, trail, ever, outlived>>
    BY <1>6 DEF Refresh, Become
  <2>2. /\ r.pc = "swapped" /\ r.name = n /\ r.birth = b
        /\ r.pc \in NamedPcs /\ r.pc \notin ErasePcs /\ r.pc # "setting"
    BY DEF NamedPcs, ErasePcs
  <2> HIDE DEF r, row, B
  <2>3. <<n, b>> \in Pairs
    BY <2>1 DEF Pairs
  <2>4. b \in Holder(n) \cup crossed
    BY <1>3, <2>1, <2>3 DEF NothingOutlivesAccount
  <2> QED BY <1>0, <2>1, <2>2, <2>3, <2>4, Enters
<1>7. CASE Act(w, n, b)
  <2>1. /\ users[n] # None /\ <<n, b>> \in tokens /\ Meet(n, Holder(n), FALSE)
        /\ UNCHANGED <<users, births, data, tokens, trail, ever, outlived>>
    BY <1>7 DEF Act
  <2>2. PICK r : /\ req' = [req EXCEPT ![w] = r] /\ r.name = n /\ r.birth = users[n].birth
                 /\ r.pc = "acting" \/ (r.pc = "setting" /\ r.by = b)
    <3> DEFINE p == [pc |-> "acting", name |-> n, birth |-> users[n].birth]
               q == [pc |-> "setting", name |-> n, birth |-> users[n].birth, by |-> b, more |-> FALSE]
    <3>1. /\ req' = [req EXCEPT ![w] = p] \/ req' = [req EXCEPT ![w] = q]
          /\ p.name = n /\ p.birth = users[n].birth /\ p.pc = "acting"
          /\ q.name = n /\ q.birth = users[n].birth /\ q.pc = "setting" /\ q.by = b
      BY <1>7 DEF Act, Become
    <3> HIDE DEF p, q
    <3> QED BY <3>1
  <2>3. r.pc \in NamedPcs /\ r.pc \notin ErasePcs
    BY <2>2 DEF NamedPcs, ErasePcs
  <2>4. b \in {users[n].birth} \cup crossed \cup outlived
    BY <2>1 DEF IInv, Held
  <2> QED BY <1>0, <1>4, <2>1, <2>2, <2>3, <2>4, Enters
<1>8. CASE Delete(w, n, b)
  <2> DEFINE r == [pc |-> "chats", name |-> n, birth |-> users[n].birth]
  <2>1. /\ users[n] # None /\ Meet(n, Holder(n), TRUE) /\ req' = [req EXCEPT ![w] = r]
        /\ UNCHANGED <<users, births, data, tokens, trail, ever, outlived>>
    BY <1>8 DEF Delete, Become
  <2>2. /\ r.pc = "chats" /\ r.pc \in NamedPcs /\ r.pc # "setting"
        /\ r.name = n /\ r.birth = users[n].birth
    BY DEF NamedPcs, ErasePcs
  <2> HIDE DEF r
  <2> QED BY <1>0, <1>4, <2>1, <2>2, Enters
<1> QED BY <1>2, <1>5, <1>6, <1>7, <1>8

LEMMA NextIInv == TypeOK /\ IInv /\ NothingOutlivesAccount /\ [Next]_vars => IInv'
<1> SUFFICES ASSUME TypeOK, IInv, NothingOutlivesAccount, [Next]_vars PROVE IInv'
  OBVIOUS
<1>1. ASSUME NEW w \in Workers, Step(w) PROVE IInv'
  <2>1. ASSUME NEW n \in Names, Register(w, n) \/ FreeUsername(w, n) PROVE IInv'
    BY <2>1, Quiet DEF Register, FreeUsername, Become, NamedPcs, ErasePcs
  <2>2. ASSUME NEW s \in Subs, GoogleNew(w, s) PROVE IInv'
    BY <2>2, Quiet DEF GoogleNew, Become, NamedPcs, ErasePcs
  <2>3. CASE CountUsers(w)
    <3> DEFINE r == [pc |-> "counted", name |-> req[w].name, sub |-> req[w].sub,
                     role |-> IF First(req[w].name) THEN "admin" ELSE "user"]
    <3>1. /\ req' = [req EXCEPT ![w] = r]
          /\ UNCHANGED <<users, births, data, tokens, trail, ever, crossed, outlived>>
      BY <2>3 DEF CountUsers, Become
    <3>2. r.pc \notin NamedPcs /\ r.pc # "late"
      BY DEF NamedPcs, ErasePcs
    <3> HIDE DEF r
    <3> QED BY <3>1, <3>2, Quiet
  <2>4. CASE InsertConflict(w) \/ Abort(w)
    BY <2>4, Quiet DEF InsertConflict, Abort, Become, Idle, NamedPcs, ErasePcs
  <2>5. CASE Insert(w)
    BY <2>5, InsertKeeps
  <2>6. ASSUME NEW n \in Names, Login(w, n) \/ GoogleKnown(w, n) PROVE IInv'
    <3>1. PICK r : /\ req' = [req EXCEPT ![w] = r]
                   /\ r.pc = "audit" \/ (r.pc = "setting" /\ r.by = users[n].birth)
                   /\ r.name = n /\ r.birth = users[n].birth
      BY <2>6 DEF Login, GoogleKnown, Audit, Become
    <3>2. r.pc \in NamedPcs /\ r.pc \notin ErasePcs
      BY <3>1 DEF NamedPcs, ErasePcs
    <3>3. /\ w \in Workers \ Named /\ users[n] # None /\ Meet(n, Holder(n), FALSE)
          /\ UNCHANGED <<users, births, data, tokens, trail, ever, outlived>>
      BY <2>6 DEF Login, GoogleKnown, At, Named, NamedPcs, ErasePcs
    <3>4. Holder(n) = {users[n].birth} /\ <<n, users[n].birth>> \in Pairs
      BY <3>3 DEF Holder, Pairs
    <3> QED BY <3>1, <3>2, <3>3, <3>4, Enters
  <2>7. ASSUME NEW k \in Kinds, Write(w, k) PROVE IInv'
    <3> DEFINE r == [pc |-> "audit", name |-> req[w].name, as |-> "name", birth |-> req[w].birth,
                     more |-> FALSE]
               i == [name |-> req[w].name, kind |-> k, birth |-> req[w].birth]
    <3>1. /\ req' = [req EXCEPT ![w] = r] /\ r.pc = "audit"
          /\ r.name = req[w].name /\ r.birth = req[w].birth
          /\ data' = data \cup {i} /\ i.name = req[w].name /\ i.birth = req[w].birth
          /\ UNCHANGED <<users, births, tokens, trail, ever, crossed, outlived>>
      BY <2>7 DEF Write, Audit, Become
    <3>2. w \in Named \ Erases
      BY <2>7 DEF Write, At, Named, Erases, NamedPcs, ErasePcs
    <3> HIDE DEF r, i
    <3> QED BY <3>1, <3>2, Stores
  <2>8. CASE IssueTokens(w)
    <3> DEFINE i == [name |-> req[w].name, kind |-> "tokens", birth |-> req[w].birth]
    <3>1. /\ req' = [req EXCEPT ![w] = Idle] /\ Idle.pc = "idle"
          /\ data' = data \cup {i} /\ i.name = req[w].name /\ i.birth = req[w].birth
          /\ tokens' = tokens \cup {<<req[w].name, req[w].birth>>}
          /\ UNCHANGED <<users, births, trail, ever, crossed, outlived>>
      BY <2>8 DEF IssueTokens, Become, Idle
    <3>2. w \in Named \ Erases
      BY <2>8 DEF IssueTokens, At, Named, Erases, NamedPcs, ErasePcs
    <3> HIDE DEF i, Idle
    <3> QED BY <3>1, <3>2, Stores
  <2>9. CASE SetColumn(w)
    BY <2>9, SetColumnKeeps
  <2>10. CASE FindUser(w) \/ WriteAudit(w)
    <3>1. w \in Named
      BY <2>10 DEF FindUser, WriteAudit, At, Named, NamedPcs
    <3>2. PICK r : /\ req' = [req EXCEPT ![w] = r]
                   /\ \/ r.pc = "idle"
                      \/ /\ r.pc \in {"audit", "issuing"}
                         /\ r.name = req[w].name /\ r.birth = req[w].birth
      <4> DEFINE p == [pc |-> "audit", name |-> req[w].name, as |-> "name", birth |-> req[w].birth,
                       more |-> TRUE]
                 q == [pc |-> "issuing", name |-> req[w].name, birth |-> req[w].birth]
      <4>1. /\ \/ req' = [req EXCEPT ![w] = Idle] \/ req' = [req EXCEPT ![w] = p]
               \/ req' = [req EXCEPT ![w] = q]
            /\ p.name = req[w].name /\ p.birth = req[w].birth /\ p.pc = "audit"
            /\ q.name = req[w].name /\ q.birth = req[w].birth /\ q.pc = "issuing"
            /\ Idle.pc = "idle"
        BY <2>10 DEF FindUser, WriteAudit, Audit, Become, Idle
      <4> HIDE DEF p, q, Idle
      <4> QED BY <4>1
    <3>3. /\ UNCHANGED <<users, births, data, tokens, ever, crossed, outlived>>
          /\ \A e \in trail' : e \in trail \/ (e.name = req[w].name /\ e.birth = req[w].birth)
      <4> DEFINE i == [name |-> req[w].name, as |-> req[w].as, birth |-> req[w].birth]
      <4>1. /\ UNCHANGED <<users, births, data, tokens, ever, crossed, outlived>>
            /\ trail' = trail \/ trail' = trail \cup {i}
            /\ i.name = req[w].name /\ i.birth = req[w].birth
        BY <2>10, Zenon DEF FindUser, WriteAudit
      <4> HIDE DEF i
      <4> QED BY <4>1
    <3>4. req'[w] = r /\ \A v \in Workers \ {w} : req'[v] = req[v]
      BY <3>2, Around
    <3>5. /\ \A v \in Named' : /\ v \in Named /\ req'[v].name = req[v].name
                               /\ req'[v].birth = req[v].birth
          /\ \A v \in Lates' : v \in Lates /\ req'[v] = req[v]
      BY <3>1, <3>2, <3>4 DEF Named, Lates, At, NamedPcs, ErasePcs
    <3>6. Pairs' \subseteq Pairs
      <4>1. \A e \in trail' : <<e.name, e.birth>> \in Pairs
        BY <3>1, <3>3 DEF Pairs
      <4>2. \A v \in Named' \cup Lates' : <<req'[v].name, req'[v].birth>> \in Pairs
        BY <3>5 DEF Pairs
      <4> QED BY <3>3, <4>1, <4>2 DEF Pairs
    <3>7. r.pc \notin ErasePcs /\ r.pc # "setting" /\ (r.pc \in NamedPcs => r.pc # "idle")
      BY <3>2 DEF NamedPcs, ErasePcs
    <3> QED BY <3>1, <3>2, <3>3, <3>6, <3>7, GoesOn
  <2>11. CASE WriteLate(w)
    <3>1. /\ req' = [req EXCEPT ![w] = Idle] /\ w \in Lates
          /\ UNCHANGED <<users, births, data, tokens, ever, crossed, outlived>>
          /\ \A e \in trail' : e \in trail \/ (e.name = req[w].name /\ e.birth = req[w].birth)
      BY <2>11 DEF WriteLate, Become, Lates
    <3>2. Idle.pc \notin NamedPcs /\ Idle.pc # "late" /\ Idle.pc # "setting" /\ Idle.pc \notin ErasePcs
      BY DEF Idle, NamedPcs, ErasePcs
    <3>3. req'[w] = Idle /\ \A v \in Workers \ {w} : req'[v] = req[v]
      BY <3>1, Around
    <3>4. /\ \A v \in Named' : v \in Named /\ req'[v] = req[v]
          /\ \A v \in Lates' : v \in Lates /\ req'[v] = req[v]
      BY <3>2, <3>3 DEF Named, Lates, At
    <3>5. Pairs' \subseteq Pairs
      <4>1. \A e \in trail' : <<e.name, e.birth>> \in Pairs
        BY <3>1 DEF Pairs
      <4>2. \A v \in Named' \cup Lates' : <<req'[v].name, req'[v].birth>> \in Pairs
        BY <3>4 DEF Pairs
      <4> QED BY <3>1, <4>1, <4>2 DEF Pairs
    <3> HIDE DEF Idle
    <3> QED BY <3>1, <3>2, <3>5, GoesOn
  <2>12. CASE EraseContent(w)
    BY <2>12, EraseContentKeeps
  <2>13. CASE EraseUser(w)
    BY <2>13, EraseUserKeeps
  <2> QED BY <1>1, <2>1, <2>2, <2>3, <2>4, <2>5, <2>6, <2>7, <2>8, <2>9, <2>10, <2>11, <2>12,
             <2>13, BeginKeeps DEF Step
<1>2. ASSUME UNCHANGED <<users, births, data, trail, req, ever, crossed, outlived>>,
             tokens' \subseteq tokens
      PROVE  IInv'
  BY <1>2 DEF IInv, OneName, Past, Current, Alone, Meant, Emptied, Held, Set, Pairs, Named, Erases,
             Lates, At
<1>3. ASSUME NEW t \in tokens, Lapse(t) PROVE IInv'
  BY <1>2, <1>3 DEF Lapse
<1>4. CASE UNCHANGED vars
  BY <1>2, <1>4 DEF vars
<1> QED BY <1>1, <1>3, <1>4 DEF Next

------------------------------------------------------------------------------
(***************************************************************************)
(* The three properties together.                                          *)
(***************************************************************************)

Clean == NothingOutlivesAccount /\ RowIsOwn /\ TrailForgets

LEMMA InitClean == Init => Clean
BY DEF Init, Clean, NothingOutlivesAccount, RowIsOwn, TrailForgets

\* A request that runs under a name writes with a number that may be written.
LEMMA NamedAlive ==
  ASSUME TypeOK, IInv, NEW w \in Named
  PROVE  req[w].birth \in Alive \cup crossed
BY NamedType DEF Named, IInv, Current, Alive

\* Accounts stay, and nothing is written but by number of one of them.
LEMMA Stays ==
  ASSUME Clean, users' = users, crossed \subseteq crossed', outlived \subseteq outlived',
         \A d \in data' : d \in data \/ d.birth \in Alive \cup crossed,
         \A e \in trail' : e \in trail \/ e.as = "late" \/ e.birth \in Alive \cup crossed
  PROVE  Clean'
<1>1. Alive' = Alive
  BY DEF Alive
<1> QED BY <1>1 DEF Clean, NothingOutlivesAccount, RowIsOwn, TrailForgets

LEMMA InsertClean ==
  ASSUME TypeOK, Clean, NEW w \in Workers, Insert(w)
  PROVE  Clean'
<1> DEFINE n == req[w].name
           row == NewRow(w)
<1>1. /\ At(w, "counted") /\ users[n] = None /\ users' = [users EXCEPT ![n] = row]
      /\ Meet(n, {births + 1}, FALSE) /\ data' = data /\ trail' = trail
      /\ outlived \subseteq outlived' /\ row.set_by = row.birth
  BY DEF Insert, Found, NewRow, Taken
<1>2. n \in Names
  BY <1>1, FoundingType DEF At
<1>3. crossed \subseteq crossed'
  BY <1>1, MeetCrosses
<1> HIDE DEF n, row
<1>4. users'[n] = row /\ \A m \in Names \ {n} : users'[m] = users[m]
  BY <1>1, <1>2 DEF TypeOK
<1>5. Alive \subseteq Alive'
  BY <1>1, <1>4 DEF Alive
<1>6. NothingOutlivesAccount' /\ TrailForgets'
  BY <1>1, <1>3, <1>5 DEF Clean, NothingOutlivesAccount, TrailForgets
<1>7. RowIsOwn'
  BY <1>1, <1>3, <1>4 DEF Clean, RowIsOwn
<1> QED BY <1>6, <1>7 DEF Clean

\* Whoever sets a column has the account, or is one of the exceptions.
LEMMA SetColumnClean ==
  ASSUME TypeOK, IInv, Clean, NEW w \in Workers, SetColumn(w)
  PROVE  Clean'
<1> DEFINE n == req[w].name
           b == req[w].birth
           y == req[w].by
<1>1. w \in Named
  BY DEF SetColumn, At, Named, NamedPcs
<1>2. /\ n \in Names /\ y \in Births
      /\ b \in crossed \/ (users[n] # None /\ users[n].birth = b)
      /\ y \in {b} \cup crossed \cup outlived
  BY <1>1, NamedType DEF SetColumn, At, Named, IInv, Current, Set
<1>3. /\ users' = IF users[n] = None THEN users ELSE [users EXCEPT ![n].set_by = y]
      /\ UNCHANGED <<data, trail, crossed, outlived>>
  BY DEF SetColumn
<1> HIDE DEF n, b, y
<1>4. \A m \in Names :
        /\ users'[m] # None <=> users[m] # None
        /\ users[m] # None => /\ users'[m].birth = users[m].birth
                              /\ users'[m].set_by = users[m].set_by \/ (m = n /\ users'[m].set_by = y)
  <2>1. CASE users[n] = None
    BY <1>3, <2>1
  <2>2. CASE users[n] # None
    <3>1. users[n] \in Row
      BY <1>2, <2>2 DEF TypeOK
    <3>2. [users[n] EXCEPT !.set_by = y] \in Row
      BY <1>2, <3>1 DEF Row
    <3> QED BY <1>2, <1>3, <2>2, <3>1, <3>2, AccountsAssumption DEF TypeOK, Row
  <2> QED BY <2>1, <2>2
<1>5. Alive \subseteq Alive'
  BY <1>4 DEF Alive
<1>6. NothingOutlivesAccount' /\ TrailForgets'
  BY <1>3, <1>5 DEF Clean, NothingOutlivesAccount, TrailForgets
<1>7. RowIsOwn'
  BY <1>2, <1>3, <1>4 DEF Clean, RowIsOwn
<1> QED BY <1>6, <1>7 DEF Clean

\* The account that goes is the one whose content the erasure has removed, or crossed.
LEMMA EraseUserClean ==
  ASSUME TypeOK, IInv, Clean, NEW w \in Workers, EraseUser(w)
  PROVE  Clean'
<1> DEFINE n == req[w].name
<1>1. /\ req[w].pc = "account" /\ users' = [users EXCEPT ![n] = None]
      /\ trail' = {e \in trail : e.name = n => e.as = "typed"}
      /\ data' = {d \in data : ~(d.name = n /\ d.kind = "tokens")}
      /\ UNCHANGED <<crossed, outlived>>
  BY DEF EraseUser, Erased, At
<1>2. w \in Erases /\ w \in Named
  BY <1>1, ErasesNamed DEF Erases, ErasePcs
<1>3. n \in Names
  BY <1>2, NamedType DEF Named
<1>4. users[n] # None => users[n].birth \in crossed \cup {req[w].birth}
  BY <1>2 DEF IInv, Meant
<1>5. \A d \in data : d.birth = req[w].birth => d.name = n
  BY <1>2, SameName
<1> HIDE DEF n
<1>6. users'[n] = None /\ \A m \in Names \ {n} : users'[m] = users[m]
  BY <1>1, <1>3 DEF TypeOK
<1>7. \A b \in Alive : b \in Alive' \/ (users[n] # None /\ b = users[n].birth)
  BY <1>6 DEF Alive
<1>8. NothingOutlivesAccount'
  <2> SUFFICES ASSUME NEW d \in data', d.birth \notin crossed, d.birth \notin Alive'
               PROVE  FALSE
    BY <1>1 DEF NothingOutlivesAccount
  <2>1. d \in data /\ d.birth = req[w].birth
    BY <1>1, <1>4, <1>7 DEF Clean, NothingOutlivesAccount
  <2>2. d.kind \in Left["account"]
    BY <1>1, <1>2, <2>1 DEF IInv, Emptied
  <2>3. d.kind = "tokens" /\ d.name = n
    BY <1>5, <2>1, <2>2 DEF Left
  <2> QED BY <1>1, <2>3
<1>9. TrailForgets'
  <2> SUFFICES ASSUME NEW e \in trail', e.as = "name", e.birth \notin crossed, e.birth \notin Alive'
               PROVE  FALSE
    BY <1>1 DEF TrailForgets
  <2>1. users[n] # None /\ e.birth = users[n].birth /\ e \in trail /\ e.name # n
    BY <1>1, <1>7 DEF Clean, TrailForgets
  <2>2. <<n, users[n].birth>> \in Pairs /\ <<e.name, e.birth>> \in Pairs
    BY <1>3, <2>1 DEF Pairs
  <2> QED BY <2>1, <2>2 DEF IInv, OneName
<1>10. RowIsOwn'
  BY <1>1, <1>6 DEF Clean, RowIsOwn
<1> QED BY <1>8, <1>9, <1>10 DEF Clean

LEMMA NextClean == TypeOK /\ IInv /\ Clean /\ [Next]_vars => Clean'
<1> SUFFICES ASSUME TypeOK, IInv, Clean, [Next]_vars PROVE Clean'
  OBVIOUS
<1>1. ASSUME UNCHANGED <<users, trail, outlived>>, crossed \subseteq crossed', data' \subseteq data
      PROVE  Clean'
  BY <1>1, Stays
<1>2. ASSUME NEW w \in Workers, Step(w) PROVE Clean'
  <2>1. ASSUME NEW n \in Names,
               Register(w, n) \/ FreeUsername(w, n) \/ Login(w, n) \/ GoogleKnown(w, n)
        PROVE  Clean'
    BY <1>1, <2>1 DEF Register, FreeUsername, Login, GoogleKnown, Meet
  <2>2. ASSUME NEW n \in Names, NEW b \in Births,
               LoginNobody(w, n, b) \/ Refuse(w, n, b) \/ Refresh(w, n, b) \/ Act(w, n, b)
                 \/ Delete(w, n, b)
        PROVE  Clean'
    <3>1. crossed \subseteq crossed'
      BY <2>2 DEF LoginNobody, Refuse, Late, Refresh, Act, Delete, Meet
    <3>2. UNCHANGED <<users, trail, outlived>> /\ data' \subseteq data
      BY <2>2 DEF LoginNobody, Refuse, Late, Refresh, Act, Delete
    <3> QED BY <1>1, <3>1, <3>2
  <2>3. ASSUME NEW s \in Subs, GoogleNew(w, s) PROVE Clean'
    BY <1>1, <2>3 DEF GoogleNew
  <2>4. CASE CountUsers(w) \/ InsertConflict(w) \/ FindUser(w) \/ EraseContent(w) \/ Abort(w)
    BY <1>1, <2>4 DEF CountUsers, InsertConflict, FindUser, EraseContent, Abort
  <2>5. CASE Insert(w)
    BY <2>5, InsertClean
  <2>6. ASSUME req[w].pc \in NamedPcs,
               UNCHANGED <<users, trail, crossed, outlived>>,
               NEW i, data' = data \cup {i}, i.birth = req[w].birth
        PROVE  Clean'
    <3>1. i.birth \in Alive \cup crossed
      BY <2>6, NamedAlive DEF Named
    <3> QED BY <2>6, <3>1, Stays
  <2>7. ASSUME NEW k \in Kinds, Write(w, k) PROVE Clean'
    <3> DEFINE i == [name |-> req[w].name, kind |-> k, birth |-> req[w].birth]
    <3>1. /\ data' = data \cup {i} /\ i.birth = req[w].birth /\ req[w].pc \in NamedPcs
          /\ UNCHANGED <<users, trail, crossed, outlived>>
      BY <2>7 DEF Write, At, NamedPcs
    <3> HIDE DEF i
    <3> QED BY <2>6, <3>1
  <2>8. CASE IssueTokens(w)
    <3> DEFINE i == [name |-> req[w].name, kind |-> "tokens", birth |-> req[w].birth]
    <3>1. /\ data' = data \cup {i} /\ i.birth = req[w].birth /\ req[w].pc \in NamedPcs
          /\ UNCHANGED <<users, trail, crossed, outlived>>
      BY <2>8 DEF IssueTokens, At, NamedPcs
    <3> HIDE DEF i
    <3> QED BY <2>6, <3>1
  <2>9. CASE SetColumn(w)
    BY <2>9, SetColumnClean
  <2>10. CASE WriteAudit(w)
    <3> DEFINE i == [name |-> req[w].name, as |-> req[w].as, birth |-> req[w].birth]
    <3>1. /\ trail' = trail \cup {i} /\ i.birth = req[w].birth /\ req[w].pc \in NamedPcs
          /\ UNCHANGED <<users, data, crossed, outlived>>
      BY <2>10 DEF WriteAudit, At, NamedPcs
    <3> HIDE DEF i
    <3>2. i.birth \in Alive \cup crossed
      BY <3>1, NamedAlive DEF Named
    <3> QED BY <3>1, <3>2, Stays
  <2>11. CASE WriteLate(w)
    <3> DEFINE i == [name |-> req[w].name, as |-> "late", birth |-> req[w].birth]
    <3>1. /\ trail' = trail \cup {i} /\ i.as = "late"
          /\ UNCHANGED <<users, data, crossed, outlived>>
      BY <2>11 DEF WriteLate
    <3> HIDE DEF i
    <3> QED BY <3>1, Stays
  <2>12. CASE EraseUser(w)
    BY <2>12, EraseUserClean
  <2> QED BY <1>2, <2>1, <2>2, <2>3, <2>4, <2>5, <2>7, <2>8, <2>9, <2>10, <2>11, <2>12 DEF Step
<1>3. CASE UNCHANGED vars \/ \E t \in tokens : Lapse(t)
  BY <1>1, <1>3 DEF vars, Lapse
<1> QED BY <1>2, <1>3 DEF Next

\* The invariant that holds it all.
LEMMA CleanAlways == Spec => [](TypeOK /\ IInv /\ Clean)
<1>1. Init => TypeOK /\ IInv /\ Clean
  BY InitType, InitIInv, InitClean
<1>2. TypeOK /\ IInv /\ Clean /\ [Next]_vars => (TypeOK /\ IInv /\ Clean)'
  <2>1. Clean => NothingOutlivesAccount
    BY DEF Clean
  <2> QED BY <2>1, NextType, NextIInv, NextClean
<1> QED BY <1>1, <1>2, PTL DEF Spec

\* An erased account has no chat, document, quota row or refresh token, whatever
\* failed and was repeated on the way, unless another request ran under its name
\* during an erasure.
THEOREM NothingOutlives == Spec => []NothingOutlivesAccount
<1>1. TypeOK /\ IInv /\ Clean => NothingOutlivesAccount
  BY DEF Clean
<1> QED BY <1>1, CleanAlways, PTL

\* The columns of an account are set by its own holder only, unless a request was
\* under way when the name changed hands, or the name was registered anew while an
\* access token of the account before was in date.
THEOREM RowStaysOwn == Spec => []RowIsOwn
<1>1. TypeOK /\ IInv /\ Clean => RowIsOwn
  BY DEF Clean
<1> QED BY <1>1, CleanAlways, PTL

\* No audit row written before or during an erasure names the erased account by its
\* username, unless another request ran under that name meanwhile; only attempts
\* that begin later do.
THEOREM TrailIsForgotten == Spec => []TrailForgets
<1>1. TypeOK /\ IInv /\ Clean => TrailForgets
  BY DEF Clean
<1> QED BY <1>1, CleanAlways, PTL
==============================================================================
