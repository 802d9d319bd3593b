------------------------------- MODULE Access -------------------------------
(***************************************************************************)
(* Who may do what (app.py): credentials and their scopes, the routes that *)
(* ask for them, and the tables the management routes write (projects,     *)
(* members, webhooks, keys, share links), with the purge of a project and  *)
(* the retention sweep (retention.py) running beside the requests.         *)
(*                                                                         *)
(* A request checks and then commits, and other requests and the worker    *)
(* come in between.  Documents, memories and facts are records of a scope  *)
(* here: their contents and life cycles are matters of other modules, and  *)
(* metering and auditing are left out.                                     *)
(***************************************************************************)
EXTENDS Integers, FiniteSets

CONSTANTS
  Tags, Orgs, Projects,
  OrgOf,         \* the organization of each project
  Admin, Keys, Idents,
  Claims,        \* what the identity provider says of each identity
  Grants,        \* the scopes that keys are issued for
  Wants,         \* the scopes that requests ask for
  Clients,       \* requests in flight
  Records, Links, Hooks,
  None,
  MaxRequests,   \* bound: changing requests in a behaviour
  MaxTime

VARIABLES
  project,   \* projects: "unborn", "live", "deleting", "none" after their purge
  settings,  \* what is switched on in each project
  member,    \* project_members: the role of each identity in each project
  key,       \* api_keys: the scope of each key
  revoked,   \* revoked_keys: when
  record,    \* the scope of each record
  link,      \* share_links
  hook,      \* webhooks
  at,        \* requests that have been admitted
  left, now

tables == <<project, settings, member, key, revoked, record, link, hook>>
vars == <<tables, at, left, now>>

Scope   == [tag : Tags \cup {None}, org : Orgs \cup {None}, project : Projects \cup {None}]
Want    == [tag : Tags, org : Orgs \cup {None}, project : Projects \cup {None}]
Binding == [tag : Tags \cup {None}, org : Orgs \cup {None}, project : Projects \cup {None},
            role : {"OWNER", "READER"}]
Creds   == {Admin} \cup Keys \cup Idents

Switches == {"multilingual", "decay"}

\* What the tables hold; None is NULL, or no row.
LinkRow == [record : Records, expires : Nat, ended : Nat \cup {None}]
HookRow == [project : Projects, active : BOOLEAN, secret : {"first", "new"}]

ASSUME AccessConstantsOK ==
  /\ OrgOf \in [Projects -> Orgs] /\ Claims \in [Idents -> Scope]
  /\ Grants \subseteq Binding /\ Wants \subseteq Want
  /\ Admin \notin Keys \cup Idents /\ Keys \cap Idents = {}
  /\ None \notin Tags \cup Orgs \cup Projects \cup {"OWNER", "READER"}
  /\ None \notin Scope \cup Binding \cup LinkRow \cup HookRow \cup Nat
  /\ MaxRequests \in Nat /\ MaxTime \in Nat

Exists(p) == project[p] \in {"live", "deleting"}

Fits(bound, value) == bound = None \/ bound = value

\* A key for a project is given the organization of the project.
Issuable(g) == g.project # None => Exists(g.project) /\ Fits(g.org, OrgOf[g.project])
Issued(g) == [g EXCEPT !.org = IF g.project = None THEN @ ELSE OrgOf[g.project]]

\* The keys and records that are there already belong to a project.
Init ==
  /\ project \in [Projects -> {"unborn", "live"}]
  /\ \E p \in Projects : project[p] = "live"
  /\ settings = [p \in Projects |-> {}]
  /\ member \in [Projects -> [Idents -> {None, "OWNER"}]]
  /\ \A p \in Projects, e \in Idents : member[p][e] # None => Exists(p)
  /\ key \in [Keys -> {None} \cup {Issued(g) : g \in {h \in Grants : h.project # None /\ Issuable(h)}}]
  /\ revoked = [k \in Keys |-> None]
  /\ record \in [Records -> {None} \cup
       {s \in Wants : s.project # None /\ Exists(s.project) /\ s.org = OrgOf[s.project]}]
  /\ link = [l \in Links |-> None]
  /\ hook = [h \in Hooks |-> None]
  /\ at = [c \in Clients |-> None]
  /\ left = MaxRequests
  /\ now = 0

-----------------------------------------------------------------------------
(***************************************************************************)
(* Decisions.                                                              *)
(***************************************************************************)
\* scope_of, lookup_key: the administrator, an identity, or a key that is not revoked.
Known(c) == c \in Keys => key[c] # None /\ revoked[c] = None

\* An unknown key is bound to nothing: Known refuses it.
Bound(c) == IF c = Admin \/ ~Known(c) THEN [tag |-> None, org |-> None, project |-> None]
            ELSE IF c \in Keys THEN key[c] ELSE Claims[c]

\* Mutant: the organization is not compared.
AllowsAnyOrg(c, s) ==
  \/ c = Admin
  \/ /\ s.tag = None /\ Bound(c).project # None /\ Bound(c).project = s.project
  \/ /\ s.tag # None
     /\ Fits(Bound(c).tag, s.tag) /\ Fits(Bound(c).project, s.project)

\* A scope without a tag, as of the purge of a project, is open to its project only.
ScopeAllows(c, s) ==
  \/ c = Admin
  \/ /\ s.tag = None /\ Bound(c).project # None /\ Bound(c).project = s.project
  \/ /\ s.tag # None
     /\ Fits(Bound(c).tag, s.tag) /\ Fits(Bound(c).org, s.org) /\ Fits(Bound(c).project, s.project)

\* Members of a project may see its jobs without a tag.
MayAccess(c, s) ==
  /\ Known(c)
  /\ \/ ScopeAllows(c, s)
     \/ /\ c \in Idents /\ s.tag = None /\ s.project # None
        /\ s.org = None \/ Fits(Bound(c).org, s.org)
        /\ member[s.project][c] # None

\* A record's own route.
Readable(c, d) == record[d] # None /\ MayAccess(c, record[d])

\* The project of a credential wins over the one that is asked for.
EffectiveProject(c, want) == IF Bound(c).project = None THEN want.project ELSE Bound(c).project

EffectiveOrg(c, want) ==
  LET asked == IF want.org = None THEN Bound(c).org ELSE want.org
      p     == EffectiveProject(c, want) IN
  IF p # None /\ asked = None THEN OrgOf[p] ELSE asked

\* The scope that a request that creates or lists is given, if it is.
Granted(c, want) ==
  [tag |-> want.tag, org |-> EffectiveOrg(c, want), project |-> EffectiveProject(c, want)]

Admits(c, want) ==
  LET s == Granted(c, want) IN
  /\ Known(c)
  /\ s.project # None => project[s.project] = "live" /\ s.org = OrgOf[s.project]
  /\ ScopeAllows(c, s)

\* What a listing asks for: the native routes pass on the organization and the
\* project; of Mem0's routes search passes on the project, the others neither.
Native(want) == want
Searching(want) == [want EXCEPT !.org = None]
Listing(c, want) ==
  {Native(want), Searching(want), [want EXCEPT !.org = None, !.project = Bound(c).project]}

\* An identity manages a project by its membership, a key by its binding and role.
Role(c, p) ==
  IF c = Admin THEN "OWNER"
  ELSE IF ~Known(c) \/ ~Fits(Bound(c).org, OrgOf[p]) THEN None
  ELSE IF c \in Idents THEN (IF Fits(Bound(c).project, p) THEN member[p][c] ELSE None)
  ELSE IF Bound(c).project = p THEN Bound(c).role ELSE None

Manages(c, p) == Exists(p) /\ Role(c, p) = "OWNER"

MayWrite(c, p) == p # None => Manages(c, p)

\* A job has the scope of its document, as its payload repeats, and is seen as the
\* document is; the purge job of a project has its project and organization, no tag.
JobScope(p) == [tag |-> None, org |-> OrgOf[p], project |-> p]
SeesJob(c, p) == MayAccess(c, JobScope(p))

\* The records that a listing of a scope is filtered to, ...
Listed(s) ==
  {d \in Records : /\ record[d] # None /\ record[d].tag = s.tag
                   /\ Fits(s.org, record[d].org) /\ Fits(s.project, record[d].project)}

\* ... and those that the purge of a tag deletes: a key of a tag alone is given
\* those of no organization and no project.
TagPurged(c, s) ==
  {d \in Listed(s) : c # Admin /\ s.org = None /\ s.project = None =>
                       record[d].org = None /\ record[d].project = None}

-----------------------------------------------------------------------------
(***************************************************************************)
(* Requests that change something: the checks, ...                         *)
(***************************************************************************)
Admitted(c, request) ==
  /\ at[c] = None /\ left > 0
  /\ left' = left - 1
  /\ at' = [at EXCEPT ![c] = request]
  /\ UNCHANGED <<tables, now>>

\* POST of a document, a memory, a fact or a graph.
AskCreate(c) == \E u \in Creds, want \in Wants :
  /\ MayWrite(u, EffectiveProject(u, want)) /\ Admits(u, want)
  /\ Admitted(c, [op |-> "create", scope |-> Granted(u, want)])

\* Deletion of a memory or a fact.
AskErase(c) == \E u \in Creds, d \in Records :
  /\ Readable(u, d) /\ MayWrite(u, record[d].project)
  /\ Admitted(c, [op |-> "erase", record |-> d])

\* The purge of a tag asks for no role.
AskPurge(c) == \E u \in Creds, tag \in Tags :
  LET want == [tag |-> tag, org |-> None, project |-> None] IN
  /\ Admits(u, want)
  /\ Admitted(c, [op |-> "purge", who |-> u, scope |-> Granted(u, want)])

Shareable(u, d) ==
  /\ Readable(u, d)
  /\ Admits(u, record[d]) /\ MayWrite(u, record[d].project)

\* Time goes by in periods: a link is good for the one it is made in.
AskShare(c) == \E u \in Creds, d \in Records :
  /\ Shareable(u, d)
  /\ Admitted(c, [op |-> "share", record |-> d])

AskUnshare(c) == \E u \in Creds, l \in Links :
  /\ link[l] # None /\ Shareable(u, link[l].record)
  /\ Admitted(c, [op |-> "unshare", link |-> l])

AskHook(c) == \E u \in Creds, p \in Projects :
  /\ Manages(u, p)
  /\ Admitted(c, [op |-> "hook", project |-> p])

\* A webhook that is there belongs to who manages its project.
OwnsHook(u, h) == hook[h] # None /\ Manages(u, hook[h].project)

AskUpdateHook(c) == \E u \in Creds, h \in Hooks :
  /\ OwnsHook(u, h)
  /\ Admitted(c, [op |-> "update_hook", project |-> hook[h].project, hook |-> h])

AskRotateHook(c) == \E u \in Creds, h \in Hooks :
  /\ OwnsHook(u, h)
  /\ Admitted(c, [op |-> "rotate_hook", project |-> hook[h].project, hook |-> h])

AskDeleteHook(c) == \E u \in Creds, h \in Hooks :
  /\ OwnsHook(u, h)
  /\ Admitted(c, [op |-> "delete_hook", project |-> hook[h].project, hook |-> h])

\* Only an administrator creates projects.
AskProject(c) == Admitted(c, [op |-> "create_project"])

\* A setting is changed in the row that is read here.
AskSettings(c) == \E u \in Creds, p \in Projects, s \in Switches :
  /\ Manages(u, p)
  /\ Admitted(c, [op |-> "settings", project |-> p,
       values |-> IF s \in settings[p] THEN settings[p] \ {s} ELSE settings[p] \cup {s}])

AskMember(c) == \E u \in Creds, p \in Projects, e \in Idents, role \in {"OWNER", "READER", None} :
  /\ Manages(u, p)
  /\ Admitted(c, [op |-> "member", project |-> p, who |-> e, role |-> role])

AskDelete(c) == \E u \in Creds, p \in Projects :
  /\ Manages(u, p) /\ project[p] = "live"
  /\ Admitted(c, [op |-> "delete_project", project |-> p])

\* The purge job, while it is queued, is cancelled by who sees it and owns the project.
AskCancel(c) == \E u \in Creds, p \in Projects :
  /\ SeesJob(u, p) /\ Manages(u, p) /\ project[p] = "deleting"
  /\ Admitted(c, [op |-> "cancel", project |-> p])

AskIssue(c) == \E g \in Grants :
  /\ Issuable(g)
  /\ Admitted(c, [op |-> "issue", scope |-> Issued(g)])

AskRevoke(c) == \E k \in Keys :
  /\ key[k] # None
  /\ Admitted(c, [op |-> "revoke", key |-> k])

Ask(c) ==
  \/ AskCreate(c) \/ AskErase(c) \/ AskPurge(c) \/ AskShare(c) \/ AskUnshare(c)
  \/ AskHook(c) \/ AskUpdateHook(c) \/ AskRotateHook(c) \/ AskDeleteHook(c)
  \/ AskProject(c) \/ AskSettings(c) \/ AskMember(c) \/ AskDelete(c) \/ AskCancel(c)
  \/ AskIssue(c) \/ AskRevoke(c)

-----------------------------------------------------------------------------
(***************************************************************************)
(* ... and the commit.  Foreign keys hold of share links, webhooks and     *)
(* members: an insert without the row it refers to is an error, and the    *)
(* row takes those that refer to it with it.  Records name their project   *)
(* without one.                                                            *)
(***************************************************************************)
Ends(c, op) == at[c] # None /\ at[c].op = op /\ at' = [at EXCEPT ![c] = None]

\* Under a new identifier: one that no request in hand names.
Insert(table, row) ==
  LET named == UNION {{at[c][f] : f \in DOMAIN at[c] \cap {"record", "link", "hook", "key"}} :
                        c \in {b \in Clients : at[b] # None}}
      free  == {i \in DOMAIN table \ named : table[i] = None} IN
  IF free = {} THEN table ELSE [table EXCEPT ![CHOOSE i \in free : TRUE] = row]

Unlinked(gone) == [l \in Links |-> IF link[l] # None /\ link[l].record \in gone THEN None ELSE link[l]]
Removed(gone) ==
  /\ record' = [d \in Records |-> IF d \in gone THEN None ELSE record[d]]
  /\ link' = Unlinked(gone)

Create(c) ==
  /\ Ends(c, "create")
  /\ record' = Insert(record, at[c].scope)
  /\ UNCHANGED <<project, settings, member, key, revoked, link, hook, left, now>>

Erase(c) ==
  /\ Ends(c, "erase")
  /\ Removed({at[c].record})
  /\ UNCHANGED <<project, settings, member, key, revoked, hook, left, now>>

PurgeTag(c) ==
  /\ Ends(c, "purge")
  /\ Removed(TagPurged(at[c].who, at[c].scope))
  /\ UNCHANGED <<project, settings, member, key, revoked, hook, left, now>>

Share(c) ==
  /\ Ends(c, "share")
  /\ link' = IF record[at[c].record] = None THEN link
             ELSE Insert(link, [record |-> at[c].record, expires |-> now, ended |-> None])
  /\ UNCHANGED <<project, settings, member, key, revoked, record, hook, left, now>>

Unshare(c) ==
  /\ Ends(c, "unshare")
  /\ link' = [link EXCEPT ![at[c].link] = IF @ = None THEN None ELSE [@ EXCEPT !.ended = now]]
  /\ UNCHANGED <<project, settings, member, key, revoked, record, hook, left, now>>

\* Mutant: the foreign keys of the connection are off.
HookWithoutKey(c) ==
  /\ Ends(c, "hook")
  /\ hook' = Insert(hook, [project |-> at[c].project, active |-> TRUE, secret |-> "first"])
  /\ UNCHANGED <<project, settings, member, key, revoked, record, link, left, now>>

Hook(c) ==
  /\ Ends(c, "hook")
  /\ hook' = IF ~Exists(at[c].project) THEN hook
             ELSE Insert(hook, [project |-> at[c].project, active |-> TRUE, secret |-> "first"])
  /\ UNCHANGED <<project, settings, member, key, revoked, record, link, left, now>>

\* Each statement names the webhook and the project: a webhook that is gone is 404.
SetHook(c, new) ==
  /\ hook' = [h \in Hooks |-> IF h = at[c].hook /\ hook[h] # None /\ hook[h].project = at[c].project
                             THEN new[h] ELSE hook[h]]
  /\ UNCHANGED <<project, settings, member, key, revoked, record, link, left, now>>

UpdateHook(c) ==
  /\ Ends(c, "update_hook")
  /\ SetHook(c, [h \in Hooks |-> [hook[h] EXCEPT !.active = ~@]])

RotateHook(c) ==
  /\ Ends(c, "rotate_hook")
  /\ SetHook(c, [h \in Hooks |-> [hook[h] EXCEPT !.secret = "new"]])

DeleteHook(c) ==
  /\ Ends(c, "delete_hook")
  /\ SetHook(c, [h \in Hooks |-> None])

\* Under a new identifier, too, if the bound leaves one.
CreateProject(c) ==
  /\ Ends(c, "create_project")
  /\ LET unborn == {p \in Projects : project[p] = "unborn"} IN
     project' = IF unborn = {} THEN project ELSE [project EXCEPT ![CHOOSE p \in unborn : TRUE] = "live"]
  /\ UNCHANGED <<settings, member, key, revoked, record, link, hook, left, now>>

\* The whole row is written back: a change committed in between is lost.
SetSettings(c) ==
  /\ Ends(c, "settings")
  /\ settings' = IF ~Exists(at[c].project) THEN settings
                 ELSE [settings EXCEPT ![at[c].project] = at[c].values]
  /\ UNCHANGED <<project, member, key, revoked, record, link, hook, left, now>>

Member(c) ==
  /\ Ends(c, "member")
  /\ member' = IF ~Exists(at[c].project) THEN member
               ELSE [member EXCEPT ![at[c].project][at[c].who] = at[c].role]
  /\ UNCHANGED <<project, settings, key, revoked, record, link, hook, left, now>>

\* The flag and the purge job, together; a second deletion finds the flag set.
Delete(c) ==
  /\ Ends(c, "delete_project")
  /\ project' = [project EXCEPT ![at[c].project] = IF @ = "live" THEN "deleting" ELSE @]
  /\ UNCHANGED <<settings, member, key, revoked, record, link, hook, left, now>>

Cancel(c) ==
  /\ Ends(c, "cancel")
  /\ project' = [project EXCEPT ![at[c].project] = IF @ = "deleting" THEN "live" ELSE @]
  /\ UNCHANGED <<settings, member, key, revoked, record, link, hook, left, now>>

Issue(c) ==
  /\ Ends(c, "issue")
  /\ key' = Insert(key, at[c].scope)
  /\ UNCHANGED <<project, settings, member, revoked, record, link, hook, left, now>>

Revoke(c) ==
  /\ Ends(c, "revoke")
  /\ revoked' = [revoked EXCEPT ![at[c].key] = IF @ = None THEN now ELSE @]
  /\ UNCHANGED <<project, settings, member, key, record, link, hook, left, now>>

Commit(c) ==
  \/ Create(c) \/ Erase(c) \/ PurgeTag(c) \/ Share(c) \/ Unshare(c)
  \/ Hook(c) \/ UpdateHook(c) \/ RotateHook(c) \/ DeleteHook(c)
  \/ CreateProject(c) \/ SetSettings(c) \/ Member(c) \/ Delete(c) \/ Cancel(c)
  \/ Issue(c) \/ Revoke(c)

-----------------------------------------------------------------------------
(***************************************************************************)
(* The worker and the clock.                                               *)
(***************************************************************************)
\* Mutant: the keys of the project are deleted, their revocations are not.
PurgeKeys(p) ==
  /\ project[p] = "deleting"
  /\ project' = [project EXCEPT ![p] = "none"]
  /\ settings' = [settings EXCEPT ![p] = {}]
  /\ member' = [member EXCEPT ![p] = [e \in Idents |-> None]]
  /\ hook' = [h \in Hooks |-> IF hook[h] # None /\ hook[h].project = p THEN None ELSE hook[h]]
  /\ key' = [k \in Keys |-> IF key[k] # None /\ key[k].project = p THEN None ELSE key[k]]
  /\ Removed({d \in Records : record[d] # None /\ record[d].project = p})
  /\ UNCHANGED <<revoked, at, left, now>>

\* db.purge_project: the rows that name the project, the webhooks, the members,
\* the revocations of its keys, and the project, in one transaction.
PurgeProject(p) ==
  /\ project[p] = "deleting"
  /\ project' = [project EXCEPT ![p] = "none"]
  /\ settings' = [settings EXCEPT ![p] = {}]
  /\ member' = [member EXCEPT ![p] = [e \in Idents |-> None]]
  /\ hook' = [h \in Hooks |-> IF hook[h] # None /\ hook[h].project = p THEN None ELSE hook[h]]
  /\ revoked' = [k \in Keys |-> IF key[k] # None /\ key[k].project = p THEN None ELSE revoked[k]]
  /\ Removed({d \in Records : record[d] # None /\ record[d].project = p})
  /\ UNCHANGED <<key, at, left, now>>

Past(when) == when # None /\ when < now

\* The sweep takes share links that have ended, and old revocations.
Sweep ==
  /\ link' = [l \in Links |-> IF link[l] # None /\ (link[l].expires < now \/ Past(link[l].ended))
                              THEN None ELSE link[l]]
  /\ revoked' = [k \in Keys |-> IF Past(revoked[k]) THEN None ELSE revoked[k]]
  /\ UNCHANGED <<project, settings, member, key, record, hook, at, left, now>>

Tick ==
  /\ now < MaxTime
  /\ now' = now + 1
  /\ UNCHANGED <<tables, at, left>>

Next ==
  \/ \E c \in Clients : Ask(c) \/ Commit(c)
  \/ \E p \in Projects : PurgeProject(p)
  \/ Sweep \/ Tick

Spec == Init /\ [][Next]_vars
-----------------------------------------------------------------------------
(***************************************************************************)
(* Properties.                                                             *)
(***************************************************************************)
Roles == {None, "OWNER", "READER"}

\* What a request has in hand between its checks and its commit.
Request ==
  [op : {"create"}, scope : Scope] \cup [op : {"purge"}, who : Creds, scope : Scope]
  \cup [op : {"erase", "share"}, record : Records] \cup [op : {"unshare"}, link : Links]
  \cup [op : {"hook", "delete_project", "cancel"}, project : Projects]
  \cup [op : {"update_hook", "rotate_hook", "delete_hook"}, project : Projects, hook : Hooks]
  \cup [op : {"create_project"}]
  \cup [op : {"settings"}, project : Projects, values : SUBSET Switches]
  \cup [op : {"member"}, project : Projects, who : Idents, role : Roles]
  \cup [op : {"issue"}, scope : Binding] \cup [op : {"revoke"}, key : Keys]

\* Every variable has its type (the tables of db.py).
TypeOK ==
  /\ project \in [Projects -> {"unborn", "live", "deleting", "none"}]
  /\ settings \in [Projects -> SUBSET Switches]
  /\ member \in [Projects -> [Idents -> Roles]]
  /\ key \in [Keys -> Binding \cup {None}]
  /\ revoked \in [Keys -> 0..now \cup {None}]
  /\ \A k \in Keys : revoked[k] # None => key[k] # None
  /\ record \in [Records -> Scope \cup {None}]
  /\ link \in [Links -> LinkRow \cup {None}]
  /\ \A l \in Links : link[l] # None =>
       link[l].expires <= now /\ (link[l].ended # None => link[l].ended <= now)
  /\ hook \in [Hooks -> HookRow \cup {None}]
  /\ at \in [Clients -> Request \cup {None}]
  /\ left \in 0..MaxRequests /\ now \in 0..MaxTime

\* The documented confinement of a credential: its tag and, when supplied, its
\* organization and its project.
Confined(c, s) == Fits(Bound(c).tag, s.tag) /\ Fits(Bound(c).org, s.org) /\ Fits(Bound(c).project, s.project)

\* The chain of a list, search, profile or purge route (effective_project,
\* authorize and the filter of its query) and the check of a record's own route
\* (may_access) keep to the same confinement: nothing is listed, found or purged
\* that the credential could not read by its identifier, everything that a
\* request may create can be read and listed by it afterwards, and a key of a tag
\* alone purges no tenant's rows.  Who may delete a project sees the job that purges
\* it, and nobody of another organization does.
ScopeIsKept ==
  /\ \A c \in Creds, p \in Projects :
       /\ Manages(c, p) => SeesJob(c, p)
       /\ SeesJob(c, p) => Fits(Bound(c).org, OrgOf[p])
  /\ \A c \in Creds, want \in Want : Admits(c, want) =>
    LET s == Granted(c, want) IN
    /\ Confined(c, s) /\ MayAccess(c, s)
    /\ \A d \in Listed(s) : Confined(c, record[d]) /\ Readable(c, d)
    /\ \A d \in Records : record[d] = s =>
         \A asked \in Listing(c, want) : Admits(c, asked) => d \in Listed(Granted(c, asked))
    /\ c # Admin /\ Bound(c).org = None /\ Bound(c).project = None /\ want.org = None /\ want.project = None =>
         \A d \in TagPurged(c, s) : record[d].org = None /\ record[d].project = None

\* What refers to a row ends with it, although it may have been asked for before
\* the row went: no webhook and no member without its project, no share link
\* without its record.
NothingOutlivesItsOwner ==
  /\ \A h \in Hooks : hook[h] # None => Exists(hook[h].project)
  /\ \A p \in Projects, e \in Idents : member[p][e] # None => Exists(p)
  /\ \A l \in Links : link[l] # None => record[link[l].record] # None
=============================================================================
