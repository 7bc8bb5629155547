---------------------------- MODULE ConfigServer ----------------------------
(***************************************************************************)
(* The configuration server's handlers for hosts, assignments, groups and  *)
(* configurations, and the SQLite tables they share (internal/api/hosts.go,*)
(* assignments.go, groups.go, configurations.go, internal/db/database.go). *)
(*                                                                         *)
(* Every request runs in a goroutine of its own.  No handler opens a       *)
(* transaction: each statement takes effect by itself, and requests        *)
(* interleave between statements.  A handler that changes a row reads the  *)
(* whole row, changes its copy and writes the columns back.                *)
(*                                                                         *)
(* Foreign keys are a setting of a connection.  NewDatabase sets it on the *)
(* pool's first connection; database/sql opens another one when a          *)
(* statement comes while the first is busy, and that one does not enforce  *)
(* them.                                                                   *)
(*                                                                         *)
(* A row is reduced to its key, its reference and a host's name.  Requests *)
(* that only read, or that are refused by what they read first, change     *)
(* nothing and are left out.  What a handler sends to the host once it has *)
(* written the row is in module Hub.                                       *)
(***************************************************************************)
EXTENDS Naturals

CONSTANTS
    Requests,       \* requests under way at the same time
    Names,          \* hostnames
    HostIds, ConfigIds, GroupIds, DynamicGroupIds,
    Null,           \* no reference: NULL, a nil pointer
    Zero,           \* config_id 0, which no configuration has
    Asked,          \* the request asks for another assignment
    Free,           \* an ID that was not given out yet
    Gone,           \* an ID whose row was deleted
    Idle            \* no request

ASSUME ServerAssumption ==
    /\ Null \notin ConfigIds /\ Zero \notin ConfigIds /\ Null # Zero
    /\ Free # Gone
    /\ GroupIds \cap DynamicGroupIds = {}
    /\ \A unused \in {Free, Gone} : unused \notin [name : Names, config : ConfigIds \cup {Null, Zero}]
    /\ \A unused \in {Free, Gone} : unused \notin [config : ConfigIds \cup {Null, Zero}]

VARIABLES
    hosts,          \* table hosts
    configs,        \* table configurations
    groups,         \* tables host_groups and dynamic_host_groups
    bare,           \* the pool has a connection without foreign keys
    req             \* what every request knows and does next

tables == <<hosts, configs, groups>>
vars == <<tables, bare, req>>

Refs == ConfigIds \cup {Null, Zero}
HostRow == [name : Names, config : Refs]
GroupRow == [config : Refs]
AllGroups == GroupIds \cup DynamicGroupIds

Unused == {Free, Gone}
Live(table, i) == table[i] \notin Unused

HostId(n) == {i \in HostIds : Live(hosts, i) /\ hosts[i].name = n}

Exists(c) == c \in ConfigIds /\ Live(configs, c)

\* What a request carries: the row it writes, the assignment that row had when it was
\* read, if the request asks for no other, and what comes next.
HostRequest ==
    [at : {"create", "save", "remove", "validate", "join"},
     id : HostIds \cup {Null}, row : HostRow, was : Refs \cup {Asked},
     next : {"save"} \cup GroupIds]
GroupWork ==
    [at : {"validate", "insertGroup", "saveGroup", "eraseGroup",
           "insertDynamic", "saveDynamic", "eraseDynamic"},
     id : AllGroups \cup {Null}, row : GroupRow, next : {"insertGroup", "saveGroup", "eraseGroup",
           "insertDynamic", "saveDynamic", "eraseDynamic"}]

----
(* Statements.                                                             *)
\* Whether the connection that runs a statement enforces foreign keys.
Enforced == IF bare THEN BOOLEAN ELSE {TRUE}

Checked(fk, ref) == fk => ref = Null \/ Exists(ref)

\* Variant: a handler that has answered goes on.
AnswerAndStay(r) == req' = [req EXCEPT ![r].at = "answered"]

\* Any statement may fail, and a handler then answers with an error.
Answer(r) == req' = [req EXCEPT ![r] = Idle]
Goes(r, step) == req' = [req EXCEPT ![r].at = step]
At(r, step) == req[r] # Idle /\ req[r].at = step

Fails(r) ==
    /\ req[r] # Idle
    /\ Answer(r)
    /\ UNCHANGED <<tables, bare>>

OpenConnection ==
    /\ ~bare
    /\ \E r \in Requests : req[r] # Idle
    /\ bare' = TRUE
    /\ UNCHANGED <<tables, req>>

\* UPDATE hosts SET ip_address, last_seen_at, status, config_id WHERE id: a row that is
\* gone is not written, and that is no error.
Written(i, row) ==
    IF Live(hosts, i)
    THEN [hosts EXCEPT ![i].config = row.config] ELSE hosts

SaveHost(r) ==
    /\ At(r, "save")
    /\ LET i == req[r].id  row == req[r].row IN
       /\ \E fk \in Enforced : Live(hosts, i) => Checked(fk, row.config)
       /\ hosts' = Written(i, row)
    /\ Answer(r)
    /\ UNCHANGED <<configs, groups, bare>>

\* Variant: the table does without UNIQUE, after all the handler looked the name up.
CreateUnchecked(r) ==
    /\ At(r, "create")
    /\ \E i \in HostIds : hosts[i] = Free /\ hosts' = [hosts EXCEPT ![i] = req[r].row]
    /\ Answer(r)
    /\ UNCHANGED <<configs, groups, bare>>

\* INSERT INTO hosts: the hostname is UNIQUE.
CreateHost(r) ==
    /\ At(r, "create")
    /\ HostId(req[r].row.name) = {}
    /\ \E i \in HostIds :
          /\ hosts[i] = Free
          /\ hosts' = [hosts EXCEPT ![i] = req[r].row]
    /\ Answer(r)
    /\ UNCHANGED <<configs, groups, bare>>

\* DELETE FROM hosts.
RemoveHost(r) ==
    /\ At(r, "remove")
    /\ hosts' = [hosts EXCEPT ![req[r].id] = Gone]
    /\ Answer(r)
    /\ UNCHANGED <<configs, groups, bare>>

\* GetByID of the configuration that the request names.
ValidateConfig(r) ==
    /\ At(r, "validate")
    /\ Exists(req[r].row.config)
    /\ Goes(r, req[r].next)
    /\ UNCHANGED <<tables, bare>>

----
(* Hosts and assignments.                                                  *)
HostWork(step, i, row) ==
    [at |-> step, id |-> i, row |-> row, was |-> row.config, next |-> "save"]

Keeping(i) == HostWork("save", i, hosts[i])
Setting(step, i, c) ==
    [HostWork(step, i, [hosts[i] EXCEPT !.config = c]) EXCEPT !.was = Asked]

Begins(r, request) ==
    /\ req[r] = Idle
    /\ req' = [req EXCEPT ![r] = request]
    /\ UNCHANGED <<tables, bare>>

\* Variant: a host that registers again starts without an assignment.
RegisterAfresh(r) == \E n \in Names :
    IF HostId(n) = {} THEN Begins(r, HostWork("create", Null, [name |-> n, config |-> Null]))
    ELSE \E i \in HostId(n) : Begins(r, [Keeping(i) EXCEPT !.row.config = Null])

\* A host registers, for the first time or again.
RegisterHost(r) == \E n \in Names :
    IF HostId(n) = {} THEN Begins(r, HostWork("create", Null, [name |-> n, config |-> Null]))
                      ELSE \E i \in HostId(n) : Begins(r, Keeping(i))

UpdateHost(r) == \E i \in HostIds :
    /\ Live(hosts, i)
    /\ \/ Begins(r, Keeping(i))
       \/ \E c \in ConfigIds : Begins(r, Setting("validate", i, c))
       \/ Begins(r, Setting("save", i, Zero))

\* Variant: whether the configuration exists is left to the foreign key.
AssignUnchecked(r) == \E i \in HostIds, c \in ConfigIds :
    /\ Live(hosts, i)
    /\ Begins(r, Setting("save", i, c))

AssignHostToConfig(r) == \E i \in HostIds, c \in ConfigIds :
    /\ Live(hosts, i)
    /\ Begins(r, Setting("validate", i, c))

\* The host takes the group's configuration of the moment; a group has no members.
AssignHostToGroup(r) == \E i \in HostIds, g \in GroupIds :
    /\ Live(hosts, i)
    /\ Begins(r, [Setting("join", i, Null) EXCEPT !.next = g])

JoinGroup(r) ==
    /\ At(r, "join")
    /\ Live(groups, req[r].next)
    /\ LET c == groups[req[r].next].config IN
       req' = [req EXCEPT ![r].at = "save", ![r].next = "save", ![r].row.config = c]
    /\ UNCHANGED <<tables, bare>>

DeleteHost(r) == \E i \in HostIds :
    /\ Live(hosts, i)
    /\ Begins(r, Setting("remove", i, Null))

----
(* Groups, static and dynamic.                                             *)
GroupRequest(step, g, c) ==
    [at |-> IF c \in ConfigIds THEN "validate" ELSE step, id |-> g, row |-> [config |-> c],
     next |-> step]

Create(r, step) == \E c \in Refs : Begins(r, GroupRequest(step, Null, c))

Update(r, ids, step) == \E g \in ids :
    /\ Live(groups, g)
    /\ \/ \E c \in Refs \ {Null} : Begins(r, GroupRequest(step, g, c))
       \* Only the name or the pattern changes: the reference is written as it was read.
       \/ Begins(r, [GroupRequest(step, g, groups[g].config) EXCEPT !.at = step])

Insert(r, ids) ==
    /\ \E fk \in Enforced : Checked(fk, req[r].row.config)
    /\ \E g \in ids : groups[g] = Free /\ groups' = [groups EXCEPT ![g] = req[r].row]
    /\ Answer(r)
    /\ UNCHANGED <<hosts, configs, bare>>

Save(r) ==
    /\ LET g == req[r].id  row == req[r].row IN
       /\ \E fk \in Enforced : Live(groups, g) => Checked(fk, row.config)
       /\ groups' = IF Live(groups, g) THEN [groups EXCEPT ![g] = row] ELSE groups
    /\ Answer(r)
    /\ UNCHANGED <<hosts, configs, bare>>

Delete(r, ids, step) == \E g \in ids :
    /\ Live(groups, g)
    /\ Begins(r, [GroupRequest(step, g, Null) EXCEPT !.at = step])

Erase(r) ==
    /\ groups' = [groups EXCEPT ![req[r].id] = Gone]
    /\ Answer(r)
    /\ UNCHANGED <<hosts, configs, bare>>

CreateHostGroup(r) == Create(r, "insertGroup")
UpdateHostGroup(r) == Update(r, GroupIds, "saveGroup")
DeleteHostGroup(r) == Delete(r, GroupIds, "eraseGroup")
InsertHostGroup(r) == At(r, "insertGroup") /\ Insert(r, GroupIds)
SaveHostGroup(r) == At(r, "saveGroup") /\ Save(r)
EraseHostGroup(r) == At(r, "eraseGroup") /\ Erase(r)

CreateDynamicHostGroup(r) == Create(r, "insertDynamic")
UpdateDynamicHostGroup(r) == Update(r, DynamicGroupIds, "saveDynamic")
DeleteDynamicHostGroup(r) == Delete(r, DynamicGroupIds, "eraseDynamic")
InsertDynamicHostGroup(r) == At(r, "insertDynamic") /\ Insert(r, DynamicGroupIds)
SaveDynamicHostGroup(r) == At(r, "saveDynamic") /\ Save(r)
EraseDynamicHostGroup(r) == At(r, "eraseDynamic") /\ Erase(r)

----
(* Configurations.                                                         *)
CreateConfiguration == \E c \in ConfigIds :
    /\ configs[c] = Free
    /\ configs' = [configs EXCEPT ![c] = "live"]
    /\ UNCHANGED <<hosts, groups, bare, req>>

\* ON DELETE SET NULL.
Cleared(table, c) == [i \in DOMAIN table |->
    IF Live(table, i) /\ table[i].config = c THEN [table[i] EXCEPT !.config = Null]
                                             ELSE table[i]]

\* Variant: the groups' reference has no ON DELETE SET NULL and is not checked either.
DeleteKeepingGroups == \E c \in ConfigIds, fk \in Enforced :
    /\ Exists(c)
    /\ configs' = [configs EXCEPT ![c] = Gone]
    /\ hosts' = IF fk THEN Cleared(hosts, c) ELSE hosts
    /\ UNCHANGED <<groups, bare, req>>

DeleteConfiguration == \E c \in ConfigIds, fk \in Enforced :
    /\ Exists(c)
    /\ configs' = [configs EXCEPT ![c] = Gone]
    /\ hosts' = IF fk THEN Cleared(hosts, c) ELSE hosts
    /\ groups' = IF fk THEN Cleared(groups, c) ELSE groups
    /\ UNCHANGED <<bare, req>>

\* The server stops and starts again: the tables stay, the requests are lost.
Restart ==
    /\ req' = [r \in Requests |-> Idle]
    /\ bare' = FALSE
    /\ UNCHANGED tables

----
(* The server starts on a database of an earlier run that holds hosts and  *)
(* configurations, or none, and sound references.                          *)
Init ==
    /\ configs \in [ConfigIds -> {Free, "live"}]
    /\ hosts \in [HostIds -> {Free} \cup HostRow]
    /\ \A i, j \in HostIds : Live(hosts, i) /\ Live(hosts, j) /\ hosts[i].name = hosts[j].name
          => i = j
    /\ \A i \in HostIds : Live(hosts, i) => Checked(TRUE, hosts[i].config)
    /\ groups = [g \in AllGroups |-> Free]
    /\ bare = FALSE
    /\ req = [r \in Requests |-> Idle]

HostHandler(r) ==
    \/ RegisterHost(r) \/ UpdateHost(r) \/ DeleteHost(r)
    \/ AssignHostToConfig(r) \/ AssignHostToGroup(r)
HostStatement(r) ==
    \/ CreateHost(r) \/ SaveHost(r) \/ RemoveHost(r) \/ JoinGroup(r)
    \/ ValidateConfig(r)
GroupHandler(r) ==
    \/ CreateHostGroup(r) \/ UpdateHostGroup(r) \/ DeleteHostGroup(r)
    \/ CreateDynamicHostGroup(r) \/ UpdateDynamicHostGroup(r) \/ DeleteDynamicHostGroup(r)
GroupStatement(r) ==
    \/ InsertHostGroup(r) \/ SaveHostGroup(r) \/ EraseHostGroup(r)
    \/ InsertDynamicHostGroup(r) \/ SaveDynamicHostGroup(r) \/ EraseDynamicHostGroup(r)

Next ==
    \/ \E r \in Requests :
          HostHandler(r) \/ HostStatement(r) \/ GroupHandler(r) \/ GroupStatement(r) \/ Fails(r)
    \/ CreateConfiguration \/ DeleteConfiguration
    \/ OpenConnection \/ Restart

Spec == Init /\ [][Next]_vars

----
References(table) == {table[i].config : i \in {j \in DOMAIN table : Live(table, j)}}
Pending == {req[r].row.config : r \in {q \in Requests : req[q] # Idle /\ req[q].at # "validate"}}

Dangling == {i \in HostIds : Live(hosts, i) /\ ~Checked(TRUE, hosts[i].config)}
            \cup {g \in AllGroups : Live(groups, g) /\ ~Checked(TRUE, groups[g].config)}

TypeOK ==
    /\ hosts \in [HostIds -> Unused \cup HostRow]
    /\ configs \in [ConfigIds -> Unused \cup {"live"}]
    /\ groups \in [AllGroups -> Unused \cup GroupRow]
    /\ bare \in BOOLEAN
    /\ req \in [Requests -> {Idle} \cup HostRequest \cup GroupWork]

(* A reference never names a configuration before there is one: not in a   *)
(* table, and not in a row that a request is about to write, however long  *)
(* ago it was read and whether or not foreign keys are enforced.  IDs are  *)
(* not given out twice, so a reference whose configuration was deleted     *)
(* stays dead: it never turns into an assignment of a configuration that   *)
(* is created later.                                                       *)
NoForwardReference == \A c \in References(hosts) \cup References(groups) \cup Pending :
    c \in ConfigIds => configs[c] # Free

(* As long as the pool has only its first connection no statement leaves a *)
(* reference without its configuration behind, though configurations are   *)
(* deleted between a request's check and its write.                        *)
SoundOnFirstConnection == [][~bare => Dangling' \subseteq Dangling]_vars

(* The assignment of a host changes only when a request that was made for  *)
(* it is written or its configuration is deleted, or when a request writes *)
(* back an assignment that was changed after it read the row: the update   *)
(* of a host that registers again, or of its status, takes an assignment   *)
(* back that was made in between (database.go:487 writes every column).    *)
AssignmentChanges(i) ==
    Live(hosts, i) /\ Live(hosts', i) /\ hosts'[i].config # hosts[i].config
Writer(r, i) == At(r, "save") /\ req[r].id = i /\ req'[r] # req[r]

AssignmentChangesForAReason == [][\A i \in HostIds : AssignmentChanges(i) =>
    \/ hosts'[i].config = Null /\ configs' # configs
    \/ \E r \in Requests : Writer(r, i) /\ req[r].was \in {Asked} \cup (Refs \ {hosts[i].config})]_vars

(* The hosts table is a directory, see module Directory, whatever requests *)
(* for the same name or the same ID interleave: two hosts that register at *)
(* once do not both get a row, and a row that was read before it was       *)
(* deleted does not come back when it is written.                          *)
HostEntries == {<<i, hosts[i].name>> : i \in {j \in HostIds : Live(hosts, j)}}

Hostnames == INSTANCE Directory WITH
    Ids <- HostIds, entries <- HostEntries, spent <- {i \in HostIds : hosts[i] # Free}

HostsAreADirectory == Hostnames!Spec

=============================================================================
