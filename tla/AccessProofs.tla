---------------------------- MODULE AccessProofs ----------------------------
(***************************************************************************)
(* Theorems about who may do what, for any number of projects, keys,       *)
(* identities, records and requests in flight.                             *)
(***************************************************************************)
EXTENDS Access, TLAPS

-----------------------------------------------------------------------------
(***************************************************************************)
(* Requests in hand, and the rows they write.                              *)
(***************************************************************************)

\* What the commit of a request finds in what the request has in hand.
LEMMA InHand ==
  ASSUME TypeOK, NEW c \in Clients, NEW op, Ends(c, op)
  PROVE  /\ at[c] \in Request
         /\ at' \in [Clients -> Request \cup {None}]
         /\ op \in {"create", "purge"} => at[c].scope \in Scope
         /\ op \in {"erase", "share"} => at[c].record \in Records
         /\ op = "purge" => at[c].who \in Creds
         /\ op = "unshare" => at[c].link \in Links
         /\ op \in {"hook", "delete_project", "cancel", "update_hook", "rotate_hook",
                    "delete_hook", "settings", "member"} => at[c].project \in Projects
         /\ op \in {"update_hook", "rotate_hook", "delete_hook"} => at[c].hook \in Hooks
         /\ op = "settings" => at[c].values \in SUBSET Switches
         /\ op = "member" => at[c].who \in Idents /\ at[c].role \in Roles
         /\ op = "issue" => at[c].scope \in Binding
         /\ op = "revoke" => at[c].key \in Keys
<1>1. at[c] \in Request /\ at[c].op = op /\ at' \in [Clients -> Request \cup {None}]
  BY DEF Ends, TypeOK
<1> QED
  BY <1>1 DEF Request

\* A row that is inserted takes the place of none: no row that is there changes.
LEMMA InsertRow ==
  ASSUME NEW table, NEW row, NEW S, NEW T, table \in [S -> T \cup {None}], row \in T
  PROVE  /\ Insert(table, row) \in [S -> T \cup {None}]
         /\ \A i \in S : \/ Insert(table, row)[i] = table[i]
                         \/ table[i] = None /\ Insert(table, row)[i] = row
<1> DEFINE named == UNION {{at[c][f] : f \in DOMAIN at[c] \cap {"record", "link", "hook", "key"}} :
                             c \in {b \in Clients : at[b] # None}}
           free  == {i \in DOMAIN table \ named : table[i] = None}
           slot  == CHOOSE i \in free : TRUE
<1>1. Insert(table, row) = IF free = {} THEN table ELSE [table EXCEPT ![slot] = row]
  BY DEF Insert
<1>2. free # {} => slot \in S /\ table[slot] = None
  <2>1. free # {} => slot \in free
    OBVIOUS
  <2>2. free \subseteq {i \in S : table[i] = None}
    OBVIOUS
  <2> HIDE DEF slot, free
  <2> QED
    BY <2>1, <2>2
<1> HIDE DEF slot, free
<1> QED
  BY <1>1, <1>2

\* What a credential is bound to, and the scope it is granted, are scopes.
LEMMA BoundType ==
  ASSUME TypeOK, NEW c \in Creds
  PROVE  /\ Bound(c).tag \in Tags \cup {None}
         /\ Bound(c).org \in Orgs \cup {None}
         /\ Bound(c).project \in Projects \cup {None}
<1>1. CASE c = Admin \/ ~Known(c)
  BY <1>1 DEF Bound
<1>2. CASE c \in Keys /\ Known(c) /\ c # Admin
  BY <1>2, AccessConstantsOK DEF Bound, Known, TypeOK, Binding
<1>3. CASE c \in Idents /\ Known(c) /\ c # Admin
  BY <1>3, AccessConstantsOK DEF Bound, Scope
<1> QED
  BY <1>1, <1>2, <1>3 DEF Creds

\* ... and so is what a request is granted.
LEMMA GrantedType ==
  ASSUME TypeOK, NEW c \in Creds, NEW want \in Want
  PROVE  /\ Granted(c, want) \in Scope
         /\ Granted(c, want).tag = want.tag
         /\ Granted(c, want).org = EffectiveOrg(c, want)
         /\ Granted(c, want).project = EffectiveProject(c, want)
<1>1. EffectiveProject(c, want) \in Projects \cup {None}
  BY BoundType DEF EffectiveProject, Want
<1>2. EffectiveOrg(c, want) \in Orgs \cup {None}
  BY <1>1, BoundType, AccessConstantsOK DEF EffectiveOrg, Want
<1> QED
  BY <1>1, <1>2 DEF Granted, Scope, Want

-----------------------------------------------------------------------------
(***************************************************************************)
(* The type invariant.  That a revocation is always of a key needs more    *)
(* than the types: a request to revoke names a key that was there, and no  *)
(* key ever goes away.                                                     *)
(***************************************************************************)
Belongs(scope) == scope.project # None => scope.org = OrgOf[scope.project]

\* A key that is issued for a project is given the organization of the project.
LEMMA IssuedBelongs ==
  ASSUME NEW g \in Grants
  PROVE  Issued(g) \in Binding /\ Belongs(Issued(g))
<1>1. g \in Binding
  BY AccessConstantsOK
<1>2. Issued(g) \in Binding
  BY <1>1, AccessConstantsOK DEF Issued, Binding
<1>3. Belongs(Issued(g))
  BY <1>1, AccessConstantsOK DEF Issued, Binding, Belongs
<1> QED
  BY <1>2, <1>3

\* A request that is admitted: a key to revoke is there, and a key to issue for a
\* project has the organization of the project.
Sound(request) ==
  /\ request.op = "revoke" => key[request.key] # None
  /\ request.op = "issue" => Belongs(request.scope)

KeyInv ==
  /\ \A c \in Clients : at[c] # None => Sound(at[c])
  /\ \A k \in Keys : key[k] # None => Belongs(key[k])

\* What each check of a request leaves in hand.
LEMMA AskHand ==
  ASSUME TypeOK, NEW c \in Clients, Ask(c)
  PROVE  \E request \in Request : Sound(request) /\ Admitted(c, request)
<1>1. CASE AskCreate(c)
  <2>1. PICK u \in Creds, want \in Wants : Admitted(c, [op |-> "create", scope |-> Granted(u, want)])
    BY <1>1 DEF AskCreate
  <2>2. Granted(u, want) \in Scope
    BY GrantedType, AccessConstantsOK
  <2>3. [op |-> "create", scope |-> Granted(u, want)] \in Request
    BY <2>2 DEF Request
  <2> QED
    BY <2>1, <2>3 DEF Sound
<1>2. CASE AskErase(c)
  <2>1. PICK d \in Records : Admitted(c, [op |-> "erase", record |-> d])
    BY <1>2 DEF AskErase
  <2>2. [op |-> "erase", record |-> d] \in Request
    BY DEF Request
  <2> QED
    BY <2>1, <2>2 DEF Sound
<1>3. CASE AskPurge(c)
  <2>1. PICK u \in Creds, tag \in Tags :
          Admitted(c, [op |-> "purge", who |-> u,
                       scope |-> Granted(u, [tag |-> tag, org |-> None, project |-> None])])
    BY <1>3 DEF AskPurge
  <2> DEFINE want == [tag |-> tag, org |-> None, project |-> None]
  <2>2. want \in Want
    BY DEF Want
  <2>3. Granted(u, want) \in Scope
    BY <2>2, GrantedType
  <2>4. [op |-> "purge", who |-> u, scope |-> Granted(u, want)] \in Request
    BY <2>3 DEF Request
  <2> QED
    BY <2>1, <2>4 DEF Sound
<1>4. CASE AskShare(c)
  <2>1. PICK d \in Records : Admitted(c, [op |-> "share", record |-> d])
    BY <1>4 DEF AskShare
  <2>2. [op |-> "share", record |-> d] \in Request
    BY DEF Request
  <2> QED
    BY <2>1, <2>2 DEF Sound
<1>5. CASE AskUnshare(c)
  <2>1. PICK l \in Links : Admitted(c, [op |-> "unshare", link |-> l])
    BY <1>5 DEF AskUnshare
  <2>2. [op |-> "unshare", link |-> l] \in Request
    BY DEF Request
  <2> QED
    BY <2>1, <2>2 DEF Sound
<1>6. CASE AskHook(c) \/ AskDelete(c) \/ AskCancel(c)
  <2>1. PICK p \in Projects, op \in {"hook", "delete_project", "cancel"} :
          Admitted(c, [op |-> op, project |-> p])
    BY <1>6 DEF AskHook, AskDelete, AskCancel
  <2>2. [op |-> op, project |-> p] \in Request
    BY DEF Request
  <2> QED
    BY <2>1, <2>2 DEF Sound
<1>7. CASE AskUpdateHook(c) \/ AskRotateHook(c) \/ AskDeleteHook(c)
  <2>1. PICK h \in Hooks, op \in {"update_hook", "rotate_hook", "delete_hook"} :
          hook[h] # None /\ Admitted(c, [op |-> op, project |-> hook[h].project, hook |-> h])
    BY <1>7 DEF AskUpdateHook, AskRotateHook, AskDeleteHook, OwnsHook
  <2>2. hook[h].project \in Projects
    BY <2>1 DEF TypeOK, HookRow
  <2>3. [op |-> op, project |-> hook[h].project, hook |-> h] \in Request
    BY <2>2 DEF Request
  <2> QED
    BY <2>1, <2>3 DEF Sound
<1>8. CASE AskProject(c)
  <2>1. [op |-> "create_project"] \in Request
    BY DEF Request
  <2> QED
    BY <1>8, <2>1 DEF Sound, AskProject
<1>9. CASE AskSettings(c)
  <2>1. PICK p \in Projects, s \in Switches :
          Admitted(c, [op |-> "settings", project |-> p,
            values |-> IF s \in settings[p] THEN settings[p] \ {s} ELSE settings[p] \cup {s}])
    BY <1>9 DEF AskSettings
  <2> DEFINE values == IF s \in settings[p] THEN settings[p] \ {s} ELSE settings[p] \cup {s}
  <2>2. settings[p] \in SUBSET Switches
    BY DEF TypeOK
  <2>3. values \in SUBSET Switches
    BY <2>2
  <2>4. [op |-> "settings", project |-> p, values |-> values] \in Request
    BY <2>3 DEF Request
  <2> QED
    BY <2>1, <2>4 DEF Sound
<1>10. CASE AskMember(c)
  <2>1. PICK p \in Projects, e \in Idents, role \in {"OWNER", "READER", None} :
          Admitted(c, [op |-> "member", project |-> p, who |-> e, role |-> role])
    BY <1>10 DEF AskMember
  <2>2. [op |-> "member", project |-> p, who |-> e, role |-> role] \in Request
    BY DEF Request, Roles
  <2> QED
    BY <2>1, <2>2 DEF Sound
<1>11. CASE AskIssue(c)
  <2>1. PICK g \in Grants : Issuable(g) /\ Admitted(c, [op |-> "issue", scope |-> Issued(g)])
    BY <1>11 DEF AskIssue
  <2>2. Issued(g) \in Binding /\ Belongs(Issued(g))
    BY IssuedBelongs
  <2>3. [op |-> "issue", scope |-> Issued(g)] \in Request
    BY <2>2 DEF Request
  <2> QED
    BY <2>1, <2>2, <2>3 DEF Sound
<1>12. CASE AskRevoke(c)
  <2>1. PICK k \in Keys : key[k] # None /\ Admitted(c, [op |-> "revoke", key |-> k])
    BY <1>12 DEF AskRevoke
  <2>2. [op |-> "revoke", key |-> k] \in Request
    BY DEF Request
  <2> QED
    BY <2>1, <2>2 DEF Sound
<1> QED
  BY <1>1, <1>2, <1>3, <1>4, <1>5, <1>6, <1>7, <1>8, <1>9, <1>10, <1>11, <1>12 DEF Ask

\* The steps that deal with the rows that requests name, one kind at a time.
LEMMA Removal ==
  ASSUME TypeOK, NEW gone, Removed(gone)
  PROVE  /\ record' \in [Records -> Scope \cup {None}]
         /\ link' \in [Links -> LinkRow \cup {None}]
         /\ \A l \in Links : link'[l] # None =>
              link[l] # None /\ link'[l] = link[l] /\ link[l].record \notin gone
         /\ \A d \in Records : d \notin gone => record'[d] = record[d]
<1> QED
  BY DEF Removed, Unlinked, TypeOK

\* The webhook rows that a commit leaves have their type.
LEMMA HookSet ==
  ASSUME TypeOK, NEW c \in Clients, NEW new, SetHook(c, new),
         \A h \in Hooks : hook[h] # None =>
           new[h] = None \/ (new[h] \in HookRow /\ new[h].project = hook[h].project)
  PROVE  /\ hook' \in [Hooks -> HookRow \cup {None}]
         /\ \A h \in Hooks : hook'[h] # None =>
              hook[h] # None /\ hook'[h].project = hook[h].project
<1> QED
  BY DEF SetHook, TypeOK

\* The commit that changes a webhook keeps the project it belongs to.
LEMMA HookCommits ==
  ASSUME TypeOK, NEW c \in Clients, UpdateHook(c) \/ RotateHook(c) \/ DeleteHook(c)
  PROVE  /\ hook' \in [Hooks -> HookRow \cup {None}]
         /\ \A h \in Hooks : hook'[h] # None =>
              hook[h] # None /\ hook'[h].project = hook[h].project
         /\ UNCHANGED <<project, settings, member, key, revoked, record, link, left, now>>
         /\ at' = [at EXCEPT ![c] = None]
<1>1. \A h \in Hooks : hook[h] # None => hook[h] \in HookRow
  BY DEF TypeOK
<1>2. CASE UpdateHook(c)
  <2> DEFINE new == [h \in Hooks |-> [hook[h] EXCEPT !.active = ~@]]
  <2>1. \A h \in Hooks : hook[h] # None =>
          new[h] \in HookRow /\ new[h].project = hook[h].project
    BY <1>1 DEF HookRow
  <2>2. SetHook(c, new)
    BY <1>2 DEF UpdateHook
  <2>3. at' = [at EXCEPT ![c] = None]
    BY <1>2 DEF UpdateHook, Ends
  <2> HIDE DEF new
  <2>4. /\ hook' \in [Hooks -> HookRow \cup {None}]
        /\ \A h \in Hooks : hook'[h] # None =>
             hook[h] # None /\ hook'[h].project = hook[h].project
    BY <2>1, <2>2, HookSet
  <2> QED
    BY <2>2, <2>3, <2>4 DEF SetHook
<1>3. CASE RotateHook(c)
  <2> DEFINE new == [h \in Hooks |-> [hook[h] EXCEPT !.secret = "new"]]
  <2>1. \A h \in Hooks : hook[h] # None =>
          new[h] \in HookRow /\ new[h].project = hook[h].project
    BY <1>1 DEF HookRow
  <2>2. SetHook(c, new)
    BY <1>3 DEF RotateHook
  <2>3. at' = [at EXCEPT ![c] = None]
    BY <1>3 DEF RotateHook, Ends
  <2> HIDE DEF new
  <2>4. /\ hook' \in [Hooks -> HookRow \cup {None}]
        /\ \A h \in Hooks : hook'[h] # None =>
             hook[h] # None /\ hook'[h].project = hook[h].project
    BY <2>1, <2>2, HookSet
  <2> QED
    BY <2>2, <2>3, <2>4 DEF SetHook
<1>4. CASE DeleteHook(c)
  <2> DEFINE new == [h \in Hooks |-> None]
  <2>1. \A h \in Hooks : hook[h] # None => new[h] = None
    OBVIOUS
  <2>2. SetHook(c, new)
    BY <1>4 DEF DeleteHook
  <2> HIDE DEF new
  <2> QED
    BY <1>4, <2>1, <2>2, HookSet DEF DeleteHook, Ends, SetHook
<1> QED
  BY <1>2, <1>3, <1>4

\* A row that is in the table of keys has a key, whatever a step does.
LEMMA KeysStay ==
  ASSUME TypeOK, KeyInv, [Next]_vars
  PROVE  /\ key' \in [Keys -> Binding \cup {None}]
         /\ \A k \in Keys : key[k] # None => key'[k] = key[k]
         /\ \A k \in Keys : key'[k] # None => Belongs(key'[k])
<1>1. CASE \E c \in Clients : Issue(c)
  <2>1. PICK c \in Clients : Issue(c)
    BY <1>1
  <2>2. at[c].scope \in Binding /\ key' = Insert(key, at[c].scope) /\ Belongs(at[c].scope)
    BY <2>1, InHand DEF Issue, KeyInv, Sound, Ends
  <2>3. key \in [Keys -> Binding \cup {None}]
    BY DEF TypeOK
  <2> QED
    BY <2>2, <2>3, InsertRow DEF KeyInv
<1>2. CASE ~\E c \in Clients : Issue(c)
  <2>1. key' = key
    <3>1. \A c \in Clients : Ask(c) => key' = key
      BY AskHand DEF Admitted, tables
    <3>2. \A c \in Clients : Commit(c) => key' = key
      <4>1. \A c \in Clients : UpdateHook(c) \/ RotateHook(c) \/ DeleteHook(c) => key' = key
        BY HookCommits
      <4> QED
        BY <1>2, <4>1 DEF Commit, Create, Erase, PurgeTag, Share, Unshare, Hook, CreateProject,
             SetSettings, Member, Delete, Cancel, Revoke
    <3> QED
      BY <3>1, <3>2 DEF Next, vars, tables, PurgeProject, Sweep, Tick
  <2> QED
    BY <2>1 DEF TypeOK, KeyInv
<1> QED
  BY <1>1, <1>2

\* No request in hand loses its key: keys stay.
LEMMA NextKeyInv ==
  ASSUME TypeOK, KeyInv, [Next]_vars
  PROVE  KeyInv'
<1>1. \A c \in Clients : at'[c] # None => Sound(at'[c]) /\ at'[c] \in Request
  <2>1. CASE \E c \in Clients : Ask(c)
    <3>1. PICK c \in Clients : Ask(c)
      BY <2>1
    <3>2. PICK request \in Request : Sound(request) /\ Admitted(c, request)
      BY <3>1, AskHand
    <3> QED
      BY <3>2 DEF Admitted, TypeOK, KeyInv
  <2>2. CASE \E c \in Clients : Commit(c)
    <3>1. PICK c \in Clients : Commit(c)
      BY <2>2
    <3>2. at' = [at EXCEPT ![c] = None]
      BY <3>1, HookCommits DEF Commit, Ends, Create, Erase, PurgeTag, Share, Unshare, Hook,
         CreateProject, SetSettings, Member, Delete, Cancel, Issue, Revoke
    <3> QED
      BY <3>2 DEF TypeOK, KeyInv
  <2>3. CASE at' = at
    BY <2>3 DEF TypeOK, KeyInv
  <2>4. (\E p \in Projects : PurgeProject(p)) \/ Sweep \/ Tick \/ UNCHANGED vars => at' = at
    BY DEF PurgeProject, Sweep, Tick, vars
  <2> QED
    BY <2>1, <2>2, <2>3, <2>4 DEF Next
<1>2. \A request \in Request : Sound(request) => Sound(request)'
  BY KeysStay DEF Sound, Request
<1>3. \A k \in Keys : key'[k] # None => Belongs(key'[k])
  BY KeysStay
<1> QED
  BY <1>1, <1>2, <1>3 DEF KeyInv, Sound, Belongs

\* The commits that write the tables of keys and of records.
LEMMA CommitTypeOK ==
  ASSUME TypeOK, KeyInv, NEW c \in Clients, Commit(c)
  PROVE  TypeOK'
<1> USE DEF TypeOK
<1>1. CASE Create(c)
  <2>1. record' = Insert(record, at[c].scope) /\ at[c].scope \in Scope
        /\ at' \in [Clients -> Request \cup {None}]
    BY <1>1, InHand DEF Create
  <2>2. record' \in [Records -> Scope \cup {None}]
    BY <2>1, InsertRow
  <2> QED
    BY <1>1, <2>1, <2>2 DEF Create
<1>2. CASE Erase(c)
  <2>1. at' \in [Clients -> Request \cup {None}]
    BY <1>2, InHand DEF Erase
  <2> QED
    BY <1>2, <2>1, Removal DEF Erase
<1>3. CASE PurgeTag(c)
  <2>1. at' \in [Clients -> Request \cup {None}]
    BY <1>3, InHand DEF PurgeTag
  <2> QED
    BY <1>3, <2>1, Removal DEF PurgeTag
<1>4. CASE Share(c)
  <2> DEFINE row == [record |-> at[c].record, expires |-> now, ended |-> None]
  <2>1. at' \in [Clients -> Request \cup {None}] /\ at[c].record \in Records
    BY <1>4, InHand DEF Share
  <2>2. row \in LinkRow /\ row.expires = now /\ row.ended = None
    BY <2>1 DEF LinkRow
  <2>3. link' = link \/ link' = Insert(link, row)
    BY <1>4 DEF Share
  <2> HIDE DEF row
  <2>4. /\ link' \in [Links -> LinkRow \cup {None}]
        /\ \A l \in Links : link'[l] = link[l] \/ link'[l] = row
    BY <2>2, <2>3, InsertRow
  <2>5. \A l \in Links : link'[l] # None =>
          link'[l].expires <= now /\ (link'[l].ended # None => link'[l].ended <= now)
    BY <2>2, <2>4
  <2> QED
    BY <1>4, <2>1, <2>4, <2>5 DEF Share
<1>5. CASE Unshare(c)
  <2>1. at' \in [Clients -> Request \cup {None}] /\ at[c].link \in Links
    BY <1>5, InHand DEF Unshare
  <2>2. \A l \in Links : \/ link'[l] = link[l]
                         \/ link[l] # None /\ link'[l] = [link[l] EXCEPT !.ended = now]
    BY <1>5, <2>1 DEF Unshare
  <2>3. \A l \in Links : link[l] # None =>
          /\ link[l] \in LinkRow
          /\ [link[l] EXCEPT !.ended = now] \in LinkRow
          /\ [link[l] EXCEPT !.ended = now].expires = link[l].expires
          /\ [link[l] EXCEPT !.ended = now].ended = now
    BY DEF LinkRow
  <2>4. link' \in [Links -> LinkRow \cup {None}]
    <3>1. link' = [link EXCEPT ![at[c].link] =
                     IF link[at[c].link] = None THEN None ELSE [link[at[c].link] EXCEPT !.ended = now]]
      BY <1>5 DEF Unshare
    <3> QED
      BY <2>1, <2>3, <3>1
  <2>5. \A l \in Links : link'[l] # None =>
          link'[l].expires <= now /\ (link'[l].ended # None => link'[l].ended <= now)
    <3> SUFFICES ASSUME NEW l \in Links, link'[l] # None
                 PROVE  link'[l].expires <= now /\ (link'[l].ended # None => link'[l].ended <= now)
      OBVIOUS
    <3>1. CASE link'[l] = link[l]
      BY <3>1
    <3>2. CASE link[l] # None /\ link'[l] = [link[l] EXCEPT !.ended = now]
      <4>1. link'[l].expires = link[l].expires /\ link'[l].ended = now
        BY <2>3, <3>2
      <4>2. now <= now
        OBVIOUS
      <4> QED
        BY <3>2, <4>1, <4>2
    <3> QED
      BY <2>2, <3>1, <3>2
  <2> QED
    BY <1>5, <2>1, <2>4, <2>5 DEF Unshare
<1>6. CASE Hook(c)
  <2> DEFINE row == [project |-> at[c].project, active |-> TRUE, secret |-> "first"]
  <2>1. at' \in [Clients -> Request \cup {None}] /\ at[c].project \in Projects
    BY <1>6, InHand DEF Hook
  <2>2. row \in HookRow
    BY <2>1 DEF HookRow
  <2>3. hook' = hook \/ hook' = Insert(hook, row)
    BY <1>6 DEF Hook
  <2> HIDE DEF row
  <2>4. hook' \in [Hooks -> HookRow \cup {None}]
    BY <2>2, <2>3, InsertRow
  <2> QED
    BY <1>6, <2>1, <2>4 DEF Hook
<1>7. CASE UpdateHook(c) \/ RotateHook(c) \/ DeleteHook(c)
  BY <1>7, HookCommits
<1>8. CASE CreateProject(c)
  <2>1. at' \in [Clients -> Request \cup {None}]
    BY <1>8, InHand DEF CreateProject
  <2>2. project' \in [Projects -> {"unborn", "live", "deleting", "none"}]
    BY <1>8 DEF CreateProject
  <2> QED
    BY <1>8, <2>1, <2>2 DEF CreateProject
<1>9. CASE SetSettings(c)
  <2>1. /\ at' \in [Clients -> Request \cup {None}]
        /\ at[c].project \in Projects /\ at[c].values \in SUBSET Switches
    BY <1>9, InHand DEF SetSettings
  <2> QED
    BY <1>9, <2>1 DEF SetSettings
<1>10. CASE Member(c)
  <2>1. /\ at' \in [Clients -> Request \cup {None}]
        /\ at[c].project \in Projects /\ at[c].who \in Idents /\ at[c].role \in Roles
    BY <1>10, InHand DEF Member
  <2>2. member' \in [Projects -> [Idents -> Roles]]
    BY <1>10, <2>1 DEF Member
  <2> QED
    BY <1>10, <2>1, <2>2 DEF Member
<1>11. CASE Delete(c) \/ Cancel(c)
  <2>1. at' \in [Clients -> Request \cup {None}] /\ at[c].project \in Projects
    BY <1>11, InHand DEF Delete, Cancel
  <2> QED
    BY <1>11, <2>1 DEF Delete, Cancel
<1>12. CASE Issue(c)
  <2>1. at' \in [Clients -> Request \cup {None}]
    BY <1>12, InHand DEF Issue
  <2>2. [Next]_vars
    BY DEF Next
  <2>3. /\ key' \in [Keys -> Binding \cup {None}]
        /\ \A k \in Keys : key[k] # None => key'[k] = key[k]
    BY <2>2, KeysStay
  <2> QED
    BY <1>12, <2>1, <2>3 DEF Issue
<1>13. CASE Revoke(c)
  <2>1. at' \in [Clients -> Request \cup {None}] /\ at[c].key \in Keys /\ key[at[c].key] # None
    BY <1>13, InHand DEF Revoke, Ends, KeyInv, Sound
  <2>2. now \in 0..now
    OBVIOUS
  <2> QED
    BY <1>13, <2>1, <2>2 DEF Revoke
<1> QED
  BY <1>1, <1>2, <1>3, <1>4, <1>5, <1>6, <1>7, <1>8, <1>9, <1>10, <1>11, <1>12, <1>13 DEF Commit

\* TypeOK is preserved: a commit by the lemma before, a check by AskHand.
LEMMA NextTypeOK ==
  ASSUME TypeOK, KeyInv, [Next]_vars
  PROVE  TypeOK'
<1>1. ASSUME NEW c \in Clients, Ask(c)
      PROVE  TypeOK'
  <2>1. PICK request \in Request : Admitted(c, request)
    BY <1>1, AskHand
  <2> QED
    BY <2>1, AccessConstantsOK DEF Admitted, TypeOK, tables
<1>2. ASSUME NEW c \in Clients, Commit(c)
      PROVE  TypeOK'
  BY <1>2, CommitTypeOK
<1>3. ASSUME NEW p \in Projects, PurgeProject(p)
      PROVE  TypeOK'
  <2>1. /\ record' \in [Records -> Scope \cup {None}]
        /\ link' \in [Links -> LinkRow \cup {None}]
        /\ \A l \in Links : link'[l] # None => link'[l] = link[l]
    BY <1>3, Removal DEF PurgeProject
  <2>2. member' \in [Projects -> [Idents -> Roles]]
    BY <1>3 DEF PurgeProject, TypeOK, Roles
  <2>3. settings' \in [Projects -> SUBSET Switches]
    BY <1>3 DEF PurgeProject, TypeOK
  <2>4. hook' \in [Hooks -> HookRow \cup {None}]
    BY <1>3 DEF PurgeProject, TypeOK
  <2>5. /\ revoked' \in [Keys -> 0..now \cup {None}]
        /\ \A k \in Keys : revoked'[k] # None => revoked[k] # None
    BY <1>3 DEF PurgeProject, TypeOK
  <2>6. project' \in [Projects -> {"unborn", "live", "deleting", "none"}]
    BY <1>3 DEF PurgeProject, TypeOK
  <2> QED
    BY <1>3, <2>1, <2>2, <2>3, <2>4, <2>5, <2>6 DEF PurgeProject, TypeOK
<1>4. CASE Sweep
  <2>1. /\ link' \in [Links -> LinkRow \cup {None}]
        /\ \A l \in Links : link'[l] # None => link'[l] = link[l]
    BY <1>4 DEF Sweep, TypeOK
  <2>2. /\ revoked' \in [Keys -> 0..now \cup {None}]
        /\ \A k \in Keys : revoked'[k] # None => revoked[k] # None
    BY <1>4 DEF Sweep, TypeOK
  <2> QED
    BY <1>4, <2>1, <2>2 DEF Sweep, TypeOK
<1>5. CASE Tick
  <2>1. now' \in 0..MaxTime /\ now <= now'
    BY <1>5, AccessConstantsOK DEF Tick, TypeOK
  <2>2. revoked' \in [Keys -> 0..now' \cup {None}]
    BY <1>5, <2>1, AccessConstantsOK DEF Tick, TypeOK, tables
  <2>3. \A l \in Links : link'[l] # None =>
          link'[l].expires <= now' /\ (link'[l].ended # None => link'[l].ended <= now')
    BY <1>5, <2>1, AccessConstantsOK DEF Tick, TypeOK, tables, LinkRow
  <2> QED
    BY <1>5, <2>1, <2>2, <2>3 DEF Tick, TypeOK, tables
<1>6. CASE UNCHANGED vars
  BY <1>6 DEF vars, tables, TypeOK
<1> QED
  BY <1>1, <1>2, <1>3, <1>4, <1>5, <1>6 DEF Next

\* The first states: the keys that are there already are of their project's organization.
LEMMA InitAccess ==
  ASSUME Init
  PROVE  TypeOK /\ KeyInv /\ NothingOutlivesItsOwner
<1> USE DEF Init
<1>1. \A g \in Grants : Issued(g) \in Binding /\ Belongs(Issued(g))
  BY IssuedBelongs
<1>2. \A k \in Keys : key[k] = None \/ key[k] \in {Issued(g) : g \in Grants}
  OBVIOUS
<1>3. KeyInv
  BY <1>1, <1>2 DEF KeyInv
<1>4. key \in [Keys -> Binding \cup {None}]
  BY <1>1, <1>2
<1>5. record \in [Records -> Scope \cup {None}]
  BY AccessConstantsOK DEF Scope, Want
<1>6. member \in [Projects -> [Idents -> Roles]]
  BY DEF Roles
<1>7. settings \in [Projects -> SUBSET Switches]
  OBVIOUS
<1>8. link \in [Links -> LinkRow \cup {None}] /\ hook \in [Hooks -> HookRow \cup {None}]
      /\ at \in [Clients -> Request \cup {None}] /\ revoked \in [Keys -> 0..now \cup {None}]
  OBVIOUS
<1>9. left \in 0..MaxRequests /\ now \in 0..MaxTime
  BY AccessConstantsOK
<1> QED
  BY <1>3, <1>4, <1>5, <1>6, <1>7, <1>8, <1>9 DEF TypeOK, NothingOutlivesItsOwner

\* The type invariant: what is in the tables and in hand is of the types of db.py, a
\* revocation is of a key, and no time of a share link or a revocation is still to come.
THEOREM TypeCorrect == Spec => []TypeOK
<1>1. Init => TypeOK /\ KeyInv
  BY InitAccess
<1>2. TypeOK /\ KeyInv /\ [Next]_vars => TypeOK' /\ KeyInv'
  BY NextTypeOK, NextKeyInv
<1> QED
  BY <1>1, <1>2, PTL DEF Spec

\* TypeOK and KeyInv of every state, for the proofs that need both.
LEMMA KeysBelong == Spec => [](TypeOK /\ KeyInv)
<1>1. Init => TypeOK /\ KeyInv
  BY InitAccess
<1>2. TypeOK /\ KeyInv /\ [Next]_vars => TypeOK' /\ KeyInv'
  BY NextTypeOK, NextKeyInv
<1> QED
  BY <1>1, <1>2, PTL DEF Spec

-----------------------------------------------------------------------------
(***************************************************************************)
(* Rows and the rows they refer to.  Every insert looks its owner up again *)
(* when it commits, and every step that takes a row takes with it those    *)
(* that refer to the row: no more is needed of the requests in hand.       *)
(***************************************************************************)

\* The commits: the row they write has its owner, and the rows they take are followed.
LEMMA CommitOwners ==
  ASSUME TypeOK, NothingOutlivesItsOwner, NEW c \in Clients, Commit(c)
  PROVE  NothingOutlivesItsOwner'
<1> USE DEF NothingOutlivesItsOwner
<1>1. CASE Create(c)
  <2>1. at[c].scope \in Scope /\ record' = Insert(record, at[c].scope)
    BY <1>1, InHand DEF Create
  <2>2. \A d \in Records : record[d] # None => record'[d] = record[d]
    BY <2>1, InsertRow DEF TypeOK
  <2>3. \A l \in Links : link[l] # None => link[l].record \in Records
    BY DEF TypeOK, LinkRow
  <2> QED
    BY <1>1, <2>2, <2>3 DEF Create, Exists
<1>2. CASE Erase(c) \/ PurgeTag(c)
  <2>1. PICK gone : Removed(gone)
    BY <1>2 DEF Erase, PurgeTag
  <2>2. \A l \in Links : link'[l] # None => record'[link'[l].record] # None
    <3>1. \A l \in Links : link[l] # None => link[l].record \in Records
      BY DEF TypeOK, LinkRow
    <3> QED
      BY <2>1, <3>1, Removal
  <2> QED
    BY <1>2, <2>2 DEF Erase, PurgeTag, Exists
<1>3. CASE Share(c)
  <2> DEFINE row == [record |-> at[c].record, expires |-> now, ended |-> None]
  <2>1. at[c].record \in Records
    BY <1>3, InHand DEF Share
  <2>2. row \in LinkRow /\ row.record = at[c].record
    BY <2>1 DEF LinkRow, TypeOK
  <2>3. link' = link \/ (record[at[c].record] # None /\ link' = Insert(link, row))
    BY <1>3 DEF Share
  <2> HIDE DEF row
  <2>4. \A l \in Links : link'[l] = link[l] \/ (record[at[c].record] # None /\ link'[l] = row)
    BY <2>2, <2>3, InsertRow DEF TypeOK
  <2> QED
    BY <1>3, <2>2, <2>4 DEF Share, Exists
<1>4. CASE Unshare(c)
  <2>1. at[c].link \in Links
    BY <1>4, InHand DEF Unshare
  <2>2. \A l \in Links : \/ link'[l] = link[l]
                         \/ link[l] # None /\ link'[l] = [link[l] EXCEPT !.ended = now]
    BY <1>4, <2>1 DEF Unshare, TypeOK
  <2>3. \A l \in Links : link[l] # None => [link[l] EXCEPT !.ended = now].record = link[l].record
    BY DEF TypeOK, LinkRow
  <2>4. \A l \in Links : link'[l] # None => link[l] # None /\ link'[l].record = link[l].record
    BY <2>2, <2>3
  <2> QED
    BY <1>4, <2>4 DEF Unshare, Exists
<1>5. CASE Hook(c)
  <2> DEFINE row == [project |-> at[c].project, active |-> TRUE, secret |-> "first"]
  <2>1. at[c].project \in Projects
    BY <1>5, InHand DEF Hook
  <2>2. row \in HookRow /\ row.project = at[c].project
    BY <2>1 DEF HookRow
  <2>3. hook' = hook \/ (Exists(at[c].project) /\ hook' = Insert(hook, row))
    BY <1>5 DEF Hook
  <2> HIDE DEF row
  <2>4. \A h \in Hooks : hook'[h] = hook[h] \/ (Exists(at[c].project) /\ hook'[h] = row)
    BY <2>2, <2>3, InsertRow DEF TypeOK
  <2> QED
    BY <1>5, <2>2, <2>4 DEF Hook, Exists
<1>6. CASE UpdateHook(c) \/ RotateHook(c) \/ DeleteHook(c)
  BY <1>6, HookCommits DEF Exists
<1>7. CASE CreateProject(c) \/ Delete(c) \/ Cancel(c)
  <2>1. \A p \in Projects : Exists(p) => Exists(p)'
    <3>1. CASE CreateProject(c)
      <4> DEFINE unborn == {p \in Projects : project[p] = "unborn"}
                 slot   == CHOOSE p \in unborn : TRUE
      <4>1. unborn # {} => slot \in unborn
        OBVIOUS
      <4>2. project' = IF unborn = {} THEN project ELSE [project EXCEPT ![slot] = "live"]
        BY <3>1 DEF CreateProject
      <4> HIDE DEF slot
      <4> QED
        BY <4>1, <4>2 DEF Exists, TypeOK
    <3>2. CASE Delete(c) \/ Cancel(c)
      BY <3>2, InHand DEF Delete, Cancel, Exists, TypeOK
    <3> QED
      BY <1>7, <3>1, <3>2
  <2>2. \A h \in Hooks : hook[h] # None => hook[h].project \in Projects
    BY DEF TypeOK, HookRow
  <2> QED
    BY <1>7, <2>1, <2>2 DEF CreateProject, Delete, Cancel
<1>8. CASE Member(c)
  <2>1. at[c].project \in Projects /\ at[c].who \in Idents
    BY <1>8, InHand DEF Member
  <2>2. \A p \in Projects, e \in Idents : member'[p][e] # None => member[p][e] # None \/ Exists(p)
    BY <1>8, <2>1 DEF Member, TypeOK
  <2> QED
    BY <1>8, <2>2 DEF Member, Exists
<1>9. CASE SetSettings(c) \/ Issue(c) \/ Revoke(c)
  BY <1>9 DEF SetSettings, Issue, Revoke, Exists
<1> QED
  BY <1>1, <1>2, <1>3, <1>4, <1>5, <1>6, <1>7, <1>8, <1>9 DEF Commit

\* Every step keeps the owners of rows, keys and hooks.
LEMMA NextOwners ==
  ASSUME TypeOK, NothingOutlivesItsOwner, [Next]_vars
  PROVE  NothingOutlivesItsOwner'
<1> USE DEF NothingOutlivesItsOwner
<1>1. ASSUME NEW c \in Clients, Ask(c)
      PROVE  NothingOutlivesItsOwner'
  BY <1>1, AskHand DEF Admitted, tables, Exists
<1>2. ASSUME NEW c \in Clients, Commit(c)
      PROVE  NothingOutlivesItsOwner'
  BY <1>2, CommitOwners
<1>3. ASSUME NEW p \in Projects, PurgeProject(p)
      PROVE  NothingOutlivesItsOwner'
  <2>1. \A q \in Projects : q # p => Exists(q)' = Exists(q)
    BY <1>3 DEF PurgeProject, Exists, TypeOK
  <2>2. \A h \in Hooks : hook'[h] # None =>
          hook'[h] = hook[h] /\ hook[h].project # p /\ hook[h].project \in Projects
    BY <1>3 DEF PurgeProject, TypeOK, HookRow
  <2>3. \A q \in Projects, e \in Idents : member'[q][e] # None => member[q][e] # None /\ q # p
    BY <1>3 DEF PurgeProject, TypeOK
  <2>4. \A l \in Links : link[l] # None => link[l].record \in Records
    BY DEF TypeOK, LinkRow
  <2>5. \A l \in Links : link'[l] # None => record'[link'[l].record] # None
    BY <1>3, <2>4, Removal DEF PurgeProject
  <2> QED
    BY <2>1, <2>2, <2>3, <2>5
<1>4. CASE Sweep
  BY <1>4 DEF Sweep, Exists, TypeOK
<1>5. CASE Tick \/ UNCHANGED vars
  BY <1>5 DEF Tick, vars, tables, Exists
<1> QED
  BY <1>1, <1>2, <1>3, <1>4, <1>5 DEF Next

\* No webhook and no member outlives its project and no share link its record,
\* whatever was asked for before they went and whatever commits after.
THEOREM OwnersComeFirst == Spec => []NothingOutlivesItsOwner
<1>1. Init => NothingOutlivesItsOwner
  BY InitAccess
<1>2. TypeOK /\ NothingOutlivesItsOwner /\ [Next]_vars => NothingOutlivesItsOwner'
  BY NextOwners
<1> QED
  BY <1>1, <1>2, TypeCorrect, PTL DEF Spec

-----------------------------------------------------------------------------
(***************************************************************************)
(* Scopes.  What a credential may do follows from its binding alone, once  *)
(* the binding of a key for a project is of the organization of the        *)
(* project (KeyInv).  The identity provider is trusted to say no less of   *)
(* an identity: auth.py takes its claims as they are, and where a scope    *)
(* has no tag the program compares no more than the project.               *)
(***************************************************************************)
ClaimsBelong == \A e \in Idents : Belongs(Claims[e]) \/ Claims[e].org = None

\* What is bound to a project is bound to its organization, or to none.
LEMMA BoundBelongs ==
  ASSUME TypeOK, KeyInv, ClaimsBelong, NEW c \in Creds, Bound(c).project # None
  PROVE  Fits(Bound(c).org, OrgOf[Bound(c).project])
<1>1. CASE c = Admin \/ ~Known(c)
  BY <1>1 DEF Bound
<1>2. CASE c \in Keys /\ Known(c) /\ c # Admin
  BY <1>2 DEF Bound, Known, KeyInv, Belongs, Fits
<1>3. CASE c \in Idents /\ Known(c) /\ c # Admin
  BY <1>3, AccessConstantsOK DEF Bound, ClaimsBelong, Belongs, Fits
<1> QED
  BY <1>1, <1>2, <1>3 DEF Creds

\* Who manages a project sees the job that purges it, and nobody of another organization does.
LEMMA JobsAreScoped ==
  ASSUME TypeOK, KeyInv, ClaimsBelong, NEW c \in Creds, NEW p \in Projects
  PROVE  /\ Manages(c, p) => SeesJob(c, p)
         /\ SeesJob(c, p) => Fits(Bound(c).org, OrgOf[p])
<1>1. OrgOf[p] \in Orgs /\ p # None /\ OrgOf[p] # None
  BY AccessConstantsOK
<1>2. JobScope(p).tag = None /\ JobScope(p).org = OrgOf[p] /\ JobScope(p).project = p
  BY DEF JobScope
<1>3. ASSUME Manages(c, p)
      PROVE  SeesJob(c, p)
  <2>1. CASE c = Admin
    BY <2>1, AccessConstantsOK DEF SeesJob, MayAccess, Known, ScopeAllows
  <2>2. CASE c # Admin
    <3>1. Role(c, p) = "OWNER" /\ "OWNER" # None
      BY <1>3, AccessConstantsOK DEF Manages
    <3>2. Known(c) /\ Fits(Bound(c).org, OrgOf[p])
      BY <2>2, <3>1 DEF Role
    <3>3. CASE c \in Idents
      <4>1. member[p][c] # None
        BY <2>2, <3>1, <3>2, <3>3 DEF Role
      <4> QED
        BY <1>1, <1>2, <3>2, <3>3, <4>1 DEF SeesJob, MayAccess
    <3>4. CASE c \notin Idents
      <4>1. Bound(c).project = p
        BY <2>2, <3>1, <3>2, <3>4 DEF Role
      <4> QED
        BY <1>1, <1>2, <3>2, <4>1 DEF SeesJob, MayAccess, ScopeAllows
    <3> QED
      BY <3>3, <3>4
  <2> QED
    BY <2>1, <2>2
<1>4. ASSUME SeesJob(c, p)
      PROVE  Fits(Bound(c).org, OrgOf[p])
  <2>1. CASE c = Admin
    BY <2>1 DEF Bound, Fits
  <2>2. CASE c # Admin /\ Bound(c).project = p
    BY <1>1, <2>2, BoundBelongs
  <2>3. CASE c # Admin /\ Bound(c).project # p
    BY <1>1, <1>2, <1>4, <2>3 DEF SeesJob, MayAccess, ScopeAllows
  <2> QED
    BY <2>1, <2>2, <2>3
<1> QED
  BY <1>3, <1>4

\* What a credential is granted, spelled out: the facts that the listings rest on.
LEMMA GrantedFits ==
  ASSUME TypeOK, NEW c \in Creds, NEW want \in Want, Admits(c, want)
  PROVE  /\ Known(c) /\ ScopeAllows(c, Granted(c, want))
         /\ want.tag # None
         /\ Fits(Bound(c).tag, want.tag)
         /\ Fits(Bound(c).org, EffectiveOrg(c, want))
         /\ Fits(Bound(c).project, EffectiveProject(c, want))
         /\ EffectiveProject(c, want) # None =>
              EffectiveOrg(c, want) = OrgOf[EffectiveProject(c, want)]
<1>1. want.tag \in Tags /\ want.tag # None
  BY AccessConstantsOK DEF Want
<1>2. /\ Known(c) /\ ScopeAllows(c, Granted(c, want))
      /\ Granted(c, want).project # None =>
           Granted(c, want).org = OrgOf[Granted(c, want).project]
  BY DEF Admits
<1>3. CASE c = Admin
  BY <1>1, <1>2, <1>3, GrantedType DEF Bound, Fits
<1>4. CASE c # Admin
  BY <1>1, <1>2, <1>4, GrantedType DEF ScopeAllows
<1> QED
  BY <1>3, <1>4

\* Nothing is listed that the credential could not read by its identifier.
LEMMA ListedIsReadable ==
  ASSUME TypeOK, NEW c \in Creds, NEW want \in Want, Admits(c, want),
         NEW d \in Listed(Granted(c, want))
  PROVE  Confined(c, record[d]) /\ Readable(c, d)
<1>1. /\ d \in Records /\ record[d] # None /\ record[d].tag = want.tag
      /\ Fits(EffectiveOrg(c, want), record[d].org)
      /\ Fits(EffectiveProject(c, want), record[d].project)
  BY GrantedType DEF Listed
<1>2. Confined(c, record[d])
  BY <1>1, GrantedFits DEF Confined, Fits
<1> QED
  BY <1>1, <1>2, GrantedFits DEF Readable, MayAccess, ScopeAllows, Confined

\* What is created under a scope is found by every listing that is asked for likewise.
LEMMA CreatedIsListed ==
  ASSUME TypeOK, NEW c \in Creds, NEW want \in Want, Admits(c, want),
         NEW d \in Records, record[d] = Granted(c, want), NEW asked \in Listing(c, want)
  PROVE  d \in Listed(Granted(c, asked))
<1>1. record[d] # None /\ record[d].tag = want.tag
      /\ record[d].org = EffectiveOrg(c, want) /\ record[d].project = EffectiveProject(c, want)
  BY GrantedType, AccessConstantsOK
<1>2. /\ Bound(c).project \in Projects \cup {None}
      /\ want.org \in Orgs \cup {None} /\ want.project \in Projects \cup {None} /\ want.tag \in Tags
  BY BoundType DEF Want
<1>3. /\ asked \in Want /\ asked.tag = want.tag
      /\ \/ asked.org = want.org /\ asked.project = want.project
         \/ asked.org = None /\ asked.project \in {want.project, Bound(c).project}
  <2>1. CASE asked = want
    BY <2>1
  <2>2. CASE asked = [want EXCEPT !.org = None]
    <3>1. asked.tag = want.tag /\ asked.org = None /\ asked.project = want.project
      BY <2>2 DEF Want
    <3> QED
      BY <2>2, <3>1 DEF Want
  <2>3. CASE asked = [want EXCEPT !.org = None, !.project = Bound(c).project]
    <3>1. asked.tag = want.tag /\ asked.org = None /\ asked.project = Bound(c).project
      BY <2>3 DEF Want
    <3>2. asked \in Want
      BY <1>2, <2>3 DEF Want
    <3> QED
      BY <3>1, <3>2
  <2> QED
    BY <2>1, <2>2, <2>3 DEF Listing, Native, Searching
<1>4. \/ EffectiveProject(c, asked) = EffectiveProject(c, want)
      \/ Bound(c).project = None /\ asked.org = None /\ EffectiveProject(c, asked) = None
  BY <1>3 DEF EffectiveProject
<1>5. Fits(EffectiveOrg(c, asked), EffectiveOrg(c, want))
  <2>1. Fits(Bound(c).org, EffectiveOrg(c, want))
        /\ (EffectiveProject(c, want) # None =>
              EffectiveOrg(c, want) = OrgOf[EffectiveProject(c, want)])
    BY GrantedFits
  <2>2. CASE asked.org = want.org /\ asked.project = want.project
    BY <2>2 DEF EffectiveProject, EffectiveOrg, Fits
  <2>3. CASE asked.org = None
    <3>1. \/ EffectiveOrg(c, asked) = Bound(c).org
          \/ /\ EffectiveProject(c, asked) # None
             /\ EffectiveOrg(c, asked) = OrgOf[EffectiveProject(c, asked)]
      BY <2>3 DEF EffectiveOrg
    <3> QED
      BY <1>4, <2>1, <3>1 DEF Fits
  <2> QED
    BY <1>3, <2>2, <2>3
<1>6. Fits(EffectiveProject(c, asked), EffectiveProject(c, want))
  BY <1>4 DEF Fits
<1> QED
  BY <1>1, <1>3, <1>5, <1>6, GrantedType DEF Listed

\* A key of a tag alone purges no tenant's rows.
LEMMA TagPurgeSparesTenants ==
  ASSUME TypeOK, NEW c \in Creds, NEW want \in Want, c # Admin,
         Bound(c).org = None, Bound(c).project = None, want.org = None, want.project = None,
         NEW d \in TagPurged(c, Granted(c, want))
  PROVE  record[d].org = None /\ record[d].project = None
<1>1. EffectiveProject(c, want) = None /\ EffectiveOrg(c, want) = None
  BY DEF EffectiveProject, EffectiveOrg
<1> QED
  BY <1>1, GrantedType DEF TagPurged

\* The routes that list, search and purge and the check of a record's own route
\* confine a credential in the same way, whatever the scopes of keys and records,
\* if the identity provider names no project with an organization that is not its own.
THEOREM ScopesAreKept == ClaimsBelong => (Spec => []ScopeIsKept)
<1> SUFFICES ASSUME ClaimsBelong
             PROVE  Spec => []ScopeIsKept
  OBVIOUS
<1>1. TypeOK /\ KeyInv => ScopeIsKept
  <2> SUFFICES ASSUME TypeOK, KeyInv
               PROVE  ScopeIsKept
    OBVIOUS
  <2>1. \A c \in Creds, p \in Projects :
          /\ Manages(c, p) => SeesJob(c, p)
          /\ SeesJob(c, p) => Fits(Bound(c).org, OrgOf[p])
    BY JobsAreScoped
  <2>2. ASSUME NEW c \in Creds, NEW want \in Want, Admits(c, want)
        PROVE  /\ Confined(c, Granted(c, want)) /\ MayAccess(c, Granted(c, want))
               /\ \A d \in Listed(Granted(c, want)) : Confined(c, record[d]) /\ Readable(c, d)
               /\ \A d \in Records : record[d] = Granted(c, want) =>
                    \A asked \in Listing(c, want) : d \in Listed(Granted(c, asked))
               /\ c # Admin /\ Bound(c).org = None /\ Bound(c).project = None
                    /\ want.org = None /\ want.project = None =>
                    \A d \in TagPurged(c, Granted(c, want)) :
                      record[d].org = None /\ record[d].project = None
    <3>1. Confined(c, Granted(c, want)) /\ MayAccess(c, Granted(c, want))
      BY <2>2, GrantedFits, GrantedType DEF Confined, MayAccess
    <3>2. \A d \in Listed(Granted(c, want)) : Confined(c, record[d]) /\ Readable(c, d)
      BY <2>2, ListedIsReadable
    <3>3. \A d \in Records : record[d] = Granted(c, want) =>
            \A asked \in Listing(c, want) : d \in Listed(Granted(c, asked))
      BY <2>2, CreatedIsListed
    <3> QED
      BY <3>1, <3>2, <3>3, TagPurgeSparesTenants
  <2> QED
    BY <2>1, <2>2 DEF ScopeIsKept
<1> QED
  BY <1>1, KeysBelong, PTL
=============================================================================
