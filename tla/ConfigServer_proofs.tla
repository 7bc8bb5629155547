------------------------ MODULE ConfigServer_proofs ------------------------
(***************************************************************************)
(* Theorems about ConfigServer, for any number of requests, hosts, names,  *)
(* configurations and groups.                                              *)
(***************************************************************************)
EXTENDS ConfigServer, TLAPS

USE ServerAssumption DEF Refs, Unused

(* A reference that a row or a request holds was given out before.         *)
Known(c) == c \in ConfigIds => configs[c] # Free

TablesKnown ==
    /\ \A i \in HostIds : Live(hosts, i) => Known(hosts[i].config)
    /\ \A g \in AllGroups : Live(groups, g) => Known(groups[g].config)

UniqueNames == \A i, j \in HostIds :
    Live(hosts, i) /\ Live(hosts, j) /\ hosts[i].name = hosts[j].name => i = j

(* What a request for a host, and one for a group, has got hold of.  The   *)
(* ID of a host that was read once was given out.                          *)
HostWorkOK(q) ==
    /\ q \in HostRequest
    /\ q.at = "create" => q.row.config = Null
    /\ q.at # "create" => q.id \in HostIds /\ hosts[q.id] # Free
    /\ q.at # "join" => q.next = "save"
    /\ q.at = "join" => q.next \in GroupIds /\ q.was = Asked
    /\ q.was = Asked \/ q.was = q.row.config

GroupWorkOK(q) ==
    /\ q \in GroupWork
    /\ q.at = "validate" => q.next \in {"insertGroup", "insertDynamic"} \/ q.id \in AllGroups
    /\ q.at \in {"saveGroup", "eraseGroup", "saveDynamic", "eraseDynamic"} => q.id \in AllGroups

WorkOK(q) ==
    /\ HostWorkOK(q) \/ GroupWorkOK(q)
    /\ q.at # "validate" => Known(q.row.config)

RequestsOK == \A r \in Requests : req[r] # Idle => WorkOK(req[r])

ServerInv ==
    /\ TypeOK
    /\ TablesKnown
    /\ UniqueNames
    /\ RequestsOK

(* The database holds sound references when the server starts.             *)
LEMMA ServerInit == Init => ServerInv
<1> SUFFICES ASSUME Init PROVE ServerInv
  OBVIOUS
<1> USE DEF Init
<1>1. TypeOK
  BY DEF TypeOK
<1>2. TablesKnown
  BY DEF TablesKnown, Known, Live, Checked, Exists
<1>3. UniqueNames /\ RequestsOK
  BY DEF UniqueNames, RequestsOK
<1> QED
  BY <1>1, <1>2, <1>3 DEF ServerInv

(* IDs that were given out stay so, and with them what requests hold.      *)
LEMMA RequestsKept ==
  ASSUME RequestsOK,
         \A i \in HostIds : hosts[i] # Free => hosts'[i] # Free,
         \A c \in ConfigIds : configs[c] # Free => configs'[c] # Free,
         \A r \in Requests : req'[r] = req[r] \/ req'[r] = Idle \/ WorkOK(req[r])'
  PROVE  RequestsOK'
<1> SUFFICES ASSUME NEW r \in Requests, req'[r] = req[r], req[r] # Idle
             PROVE  WorkOK(req[r])'
  BY DEF RequestsOK
<1>1. WorkOK(req[r])
  BY DEF RequestsOK
<1>2. HostWorkOK(req[r]) => HostWorkOK(req[r])'
  BY DEF HostWorkOK
<1>3. GroupWorkOK(req[r]) => GroupWorkOK(req[r])'
  BY DEF GroupWorkOK
<1>4. Known(req[r].row.config) => Known(req[r].row.config)'
  BY DEF Known
<1> QED
  BY <1>1, <1>2, <1>3, <1>4 DEF WorkOK

(* A request begins or goes on, and leaves the tables alone.               *)
LEMMA GoesOn ==
  ASSUME ServerInv, NEW r \in Requests, NEW q, WorkOK(q),
         req' = [req EXCEPT ![r] = q], UNCHANGED <<tables, bare>>
  PROVE  ServerInv'
<1> USE DEF ServerInv
<1>1. req' = [req EXCEPT ![r] = q] /\ UNCHANGED <<hosts, configs, groups, bare>>
  BY DEF tables
<1>2. q \in HostRequest \cup GroupWork
  BY DEF WorkOK, HostWorkOK, GroupWorkOK
<1>3. TypeOK'
  BY <1>1, <1>2 DEF TypeOK
<1>4. TablesKnown' /\ UniqueNames'
  BY <1>1 DEF TablesKnown, UniqueNames, Known, Live
<1>5. WorkOK(q)'
  BY <1>1 DEF WorkOK, HostWorkOK, GroupWorkOK, Known
<1>6. \A s \in Requests : req'[s] = req[s] \/ req'[s] = q
  BY <1>1 DEF TypeOK
<1>7. RequestsOK'
  BY <1>1, <1>5, <1>6 DEF RequestsOK, WorkOK, HostWorkOK, GroupWorkOK, Known
<1> QED
  BY <1>3, <1>4, <1>7

LEMMA BeginsStep ==
  ASSUME ServerInv, NEW r \in Requests, NEW q, WorkOK(q), Begins(r, q)
  PROVE  ServerInv'
BY GoesOn DEF Begins

(* Requests only end and the tables stay: an error, a restart.             *)
LEMMA EndsStep ==
  ASSUME ServerInv, UNCHANGED tables, bare' \in BOOLEAN, req' \in [Requests -> {Idle} \cup HostRequest \cup GroupWork],
         \A r \in Requests : req'[r] = req[r] \/ req'[r] = Idle
  PROVE  ServerInv'
<1> USE DEF ServerInv
<1>1. UNCHANGED <<hosts, configs, groups>>
  BY DEF tables
<1>2. TypeOK'
  BY <1>1 DEF TypeOK
<1>3. TablesKnown' /\ UniqueNames'
  BY <1>1 DEF TablesKnown, UniqueNames, Known, Live
<1>4. RequestsOK'
  BY <1>1, RequestsKept
<1> QED
  BY <1>2, <1>3, <1>4

----
(* What the handlers have read when their first statement is done.         *)
LEMMA HostWorkBegins ==
  ASSUME TypeOK, TablesKnown, NEW i \in HostIds, Live(hosts, i)
  PROVE  /\ WorkOK(Keeping(i))
         /\ \A c \in ConfigIds : WorkOK(Setting("validate", i, c))
         /\ WorkOK(Setting("save", i, Zero))
         /\ WorkOK(Setting("remove", i, Null))
         /\ \A g \in GroupIds : WorkOK([Setting("join", i, Null) EXCEPT !.next = g])
<1>1. hosts[i] \in HostRow /\ hosts[i] # Free /\ Known(hosts[i].config)
  BY DEF TypeOK, Live, TablesKnown
<1>2. WorkOK(Keeping(i))
  BY <1>1 DEF WorkOK, HostWorkOK, HostRequest, HostRow, Keeping, HostWork
<1>3. ASSUME NEW c \in Refs, NEW step \in {"validate", "save", "remove", "join"}
      PROVE  /\ Setting(step, i, c) \in HostRequest
             /\ Setting(step, i, c).at = step /\ Setting(step, i, c).id = i
             /\ Setting(step, i, c).row.config = c
             /\ Setting(step, i, c).was = Asked /\ Setting(step, i, c).next = "save"
  BY <1>1, <1>3 DEF Setting, HostWork, HostRequest, HostRow
<1>4. \A c \in ConfigIds : WorkOK(Setting("validate", i, c))
  BY <1>1, <1>3 DEF WorkOK, HostWorkOK
<1>5. WorkOK(Setting("save", i, Zero)) /\ WorkOK(Setting("remove", i, Null))
  BY <1>1, <1>3 DEF WorkOK, HostWorkOK, Known
<1>6. ASSUME NEW g \in GroupIds PROVE WorkOK([Setting("join", i, Null) EXCEPT !.next = g])
  <2> DEFINE q == [Setting("join", i, Null) EXCEPT !.next = g]
  <2>1. /\ q \in HostRequest /\ q.at = "join" /\ q.id = i /\ q.row.config = Null
        /\ q.was = Asked /\ q.next = g
    BY <1>3 DEF HostRequest
  <2> HIDE DEF q
  <2>2. WorkOK(q)
    BY <1>1, <2>1 DEF WorkOK, HostWorkOK, Known
  <2> QED
    BY <2>2 DEF q
<1> QED
  BY <1>2, <1>4, <1>5, <1>6

LEMMA HostHandlerStep ==
  ASSUME ServerInv, NEW r \in Requests, HostHandler(r) PROVE ServerInv'
<1> USE DEF ServerInv
<1>1. ASSUME RegisterHost(r) PROVE ServerInv'
  <2>1. PICK n \in Names :
          \/ Begins(r, HostWork("create", Null, [name |-> n, config |-> Null]))
          \/ \E i \in HostId(n) : Begins(r, Keeping(i))
    BY <1>1 DEF RegisterHost
  <2>2. WorkOK(HostWork("create", Null, [name |-> n, config |-> Null]))
    BY DEF WorkOK, HostWorkOK, HostWork, HostRequest, HostRow, Known
  <2>3. \A i \in HostId(n) : WorkOK(Keeping(i))
    BY HostWorkBegins DEF HostId
  <2> QED
    BY <2>1, <2>2, <2>3, BeginsStep
<1>2. ASSUME UpdateHost(r) PROVE ServerInv'
  BY <1>2, HostWorkBegins, BeginsStep DEF UpdateHost
<1>3. ASSUME DeleteHost(r) PROVE ServerInv'
  BY <1>3, HostWorkBegins, BeginsStep DEF DeleteHost
<1>4. ASSUME AssignHostToConfig(r) PROVE ServerInv'
  BY <1>4, HostWorkBegins, BeginsStep DEF AssignHostToConfig
<1>5. ASSUME AssignHostToGroup(r) PROVE ServerInv'
  BY <1>5, HostWorkBegins, BeginsStep DEF AssignHostToGroup
<1> QED
  BY <1>1, <1>2, <1>3, <1>4, <1>5 DEF HostHandler

GroupSteps == {"insertGroup", "saveGroup", "eraseGroup",
               "insertDynamic", "saveDynamic", "eraseDynamic"}

LEMMA GroupWorkBegins ==
  ASSUME NEW step \in GroupSteps, NEW g \in AllGroups \cup {Null}, NEW c \in Refs,
         g \in AllGroups \/ step \in {"insertGroup", "insertDynamic"}
  PROVE  /\ WorkOK(GroupRequest(step, g, c))
         /\ Known(c) => WorkOK([GroupRequest(step, g, c) EXCEPT !.at = step])
<1>1. /\ GroupRequest(step, g, c) \in GroupWork
      /\ GroupRequest(step, g, c).id = g
      /\ GroupRequest(step, g, c).next = step
      /\ GroupRequest(step, g, c).row.config = c
      /\ GroupRequest(step, g, c).at = IF c \in ConfigIds THEN "validate" ELSE step
  BY DEF GroupRequest, GroupWork, GroupRow, GroupSteps
<1>2. GroupWorkOK(GroupRequest(step, g, c))
  BY <1>1 DEF GroupWorkOK, GroupSteps
<1>3. WorkOK(GroupRequest(step, g, c))
  BY <1>1, <1>2 DEF WorkOK, Known
<1> DEFINE q == [GroupRequest(step, g, c) EXCEPT !.at = step]
<1>4. q \in GroupWork /\ q.at = step /\ q.id = g /\ q.row.config = c
  BY <1>1 DEF GroupWork, GroupSteps
<1> HIDE DEF q
<1>5. Known(c) => WorkOK(q)
  BY <1>4 DEF WorkOK, GroupWorkOK, GroupSteps
<1> QED
  BY <1>3, <1>5 DEF q

LEMMA GroupHandlerStep ==
  ASSUME ServerInv, NEW r \in Requests, GroupHandler(r) PROVE ServerInv'
<1> USE DEF ServerInv
<1>1. ASSUME NEW step \in {"insertGroup", "insertDynamic"}, Create(r, step) PROVE ServerInv'
  <2>1. PICK c \in Refs : Begins(r, GroupRequest(step, Null, c))
    BY <1>1 DEF Create
  <2>2. WorkOK(GroupRequest(step, Null, c))
    BY GroupWorkBegins DEF GroupSteps
  <2> QED
    BY <2>1, <2>2, BeginsStep
<1>2. ASSUME NEW g \in AllGroups, Live(groups, g)
      PROVE  groups[g].config \in Refs /\ Known(groups[g].config)
  BY <1>2 DEF TypeOK, TablesKnown, Live, GroupRow
<1>3. ASSUME NEW ids \in SUBSET AllGroups, NEW step \in {"saveGroup", "saveDynamic"},
             Update(r, ids, step)
      PROVE  ServerInv'
  <2>1. PICK g \in ids :
          /\ Live(groups, g)
          /\ \/ \E c \in Refs \ {Null} : Begins(r, GroupRequest(step, g, c))
             \/ Begins(r, [GroupRequest(step, g, groups[g].config) EXCEPT !.at = step])
    BY <1>3 DEF Update
  <2>2. \A c \in Refs : WorkOK(GroupRequest(step, g, c))
    BY GroupWorkBegins DEF GroupSteps
  <2>3. WorkOK([GroupRequest(step, g, groups[g].config) EXCEPT !.at = step])
    BY <1>2, <2>1, GroupWorkBegins DEF GroupSteps
  <2> QED
    BY <2>1, <2>2, <2>3, BeginsStep
<1>4. ASSUME NEW ids \in SUBSET AllGroups, NEW step \in {"eraseGroup", "eraseDynamic"},
             Delete(r, ids, step)
      PROVE  ServerInv'
  <2>1. PICK g \in ids : Begins(r, [GroupRequest(step, g, Null) EXCEPT !.at = step])
    BY <1>4 DEF Delete
  <2>2. WorkOK([GroupRequest(step, g, Null) EXCEPT !.at = step])
    BY GroupWorkBegins DEF GroupSteps, Known
  <2> QED
    BY <2>1, <2>2, BeginsStep
<1>5. GroupIds \in SUBSET AllGroups /\ DynamicGroupIds \in SUBSET AllGroups
  BY DEF AllGroups
<1> QED
  BY <1>1, <1>3, <1>4, <1>5
     DEF GroupHandler, CreateHostGroup, UpdateHostGroup, DeleteHostGroup,
         CreateDynamicHostGroup, UpdateDynamicHostGroup, DeleteDynamicHostGroup

----
(* The statements.                                                         *)
(* A request that answers, and one that goes on.                           *)
LEMMA Answered ==
  ASSUME TypeOK, NEW r \in Requests, Answer(r)
  PROVE  /\ req' \in [Requests -> {Idle} \cup HostRequest \cup GroupWork]
         /\ \A s \in Requests : req'[s] = req[s] \/ req'[s] = Idle
BY DEF Answer, TypeOK

(* What a request that is at a step of a host's handler knows.             *)
LEMMA AtHost ==
  ASSUME RequestsOK, NEW r \in Requests, NEW step \in {"create", "save", "remove", "join"},
         At(r, step)
  PROVE  HostWorkOK(req[r]) /\ Known(req[r].row.config)
<1>1. WorkOK(req[r]) /\ req[r].at = step
  BY DEF RequestsOK, At
<1>2. ~GroupWorkOK(req[r])
  BY <1>1 DEF GroupWorkOK, GroupWork
<1> QED
  BY <1>1, <1>2 DEF WorkOK

LEMMA AtGroup ==
  ASSUME RequestsOK, NEW r \in Requests, NEW step \in GroupSteps, At(r, step)
  PROVE  GroupWorkOK(req[r]) /\ Known(req[r].row.config)
<1>1. WorkOK(req[r]) /\ req[r].at = step
  BY DEF RequestsOK, At
<1>2. ~HostWorkOK(req[r])
  BY <1>1 DEF HostWorkOK, HostRequest, GroupSteps
<1> QED
  BY <1>1, <1>2 DEF WorkOK, GroupSteps

(* What may become of the hosts table: IDs stay given out, references are  *)
(* known and names remain unique.                                          *)
LEMMA HostsWritten ==
  ASSUME ServerInv, NEW r \in Requests, Answer(r), UNCHANGED <<configs, groups, bare>>,
         hosts' \in [HostIds -> Unused \cup HostRow],
         \A i \in HostIds : hosts[i] # Free => hosts'[i] # Free,
         \A i \in HostIds : Live(hosts', i) => Known(hosts'[i].config),
         \A i, j \in HostIds :
            Live(hosts', i) /\ Live(hosts', j) /\ hosts'[i].name = hosts'[j].name => i = j
  PROVE  ServerInv'
<1> USE DEF ServerInv
<1>1. TypeOK'
  BY Answered DEF TypeOK
<1>2. TablesKnown'
  BY DEF TablesKnown, Known, Live
<1>3. UniqueNames'
  BY DEF UniqueNames, Live
<1>4. RequestsOK'
  BY Answered, RequestsKept
<1> QED
  BY <1>1, <1>2, <1>3, <1>4

LEMMA GroupsWritten ==
  ASSUME ServerInv, NEW r \in Requests, Answer(r), UNCHANGED <<configs, hosts, bare>>,
         groups' \in [AllGroups -> Unused \cup GroupRow],
         \A g \in AllGroups : Live(groups', g) => Known(groups'[g].config)
  PROVE  ServerInv'
<1> USE DEF ServerInv
<1>1. TypeOK'
  BY Answered DEF TypeOK
<1>2. TablesKnown' /\ UniqueNames'
  BY DEF TablesKnown, UniqueNames, Known, Live
<1>3. RequestsOK'
  BY Answered, RequestsKept
<1> QED
  BY <1>1, <1>2, <1>3

(* Update writes the row of one host, and never its name.                  *)
LEMMA SavedHost ==
  ASSUME ServerInv, NEW r \in Requests, SaveHost(r)
  PROVE  /\ req[r].id \in HostIds /\ hosts[req[r].id] # Free
         /\ req[r].row \in HostRow /\ Known(req[r].row.config)
         /\ req[r].was = Asked \/ req[r].was = req[r].row.config
         /\ hosts' \in [HostIds -> Unused \cup HostRow]
         /\ \A i \in HostIds : i # req[r].id => hosts'[i] = hosts[i]
         /\ \A i \in HostIds : (Live(hosts', i) <=> Live(hosts, i)) /\ (hosts'[i] = Free <=> hosts[i] = Free)
         /\ \A i \in HostIds : Live(hosts, i) =>
               /\ hosts'[i].name = hosts[i].name
               /\ i = req[r].id => hosts'[i].config = req[r].row.config
<1> DEFINE i == req[r].id
           row == req[r].row
<1>1. HostWorkOK(req[r]) /\ Known(row.config) /\ req[r].at = "save"
  BY AtHost DEF ServerInv, SaveHost, At
<1>2. /\ i \in HostIds /\ hosts[i] # Free /\ row \in HostRow
      /\ req[r].was = Asked \/ req[r].was = row.config
  BY <1>1 DEF HostWorkOK, HostRequest
<1>3. hosts \in [HostIds -> Unused \cup HostRow]
  BY DEF ServerInv, TypeOK
<1>4. hosts' = IF Live(hosts, i) THEN [hosts EXCEPT ![i].config = row.config] ELSE hosts
  BY DEF SaveHost, Written
<1> HIDE DEF i, row
<1>5. CASE ~Live(hosts, i)
  BY <1>1, <1>2, <1>3, <1>4, <1>5 DEF i, row
<1>6. CASE Live(hosts, i)
  <2>1. hosts[i] \in HostRow
    BY <1>2, <1>3, <1>6 DEF Live
  <2>2. /\ \A j \in HostIds : j # i => hosts'[j] = hosts[j]
        /\ hosts'[i] = [name |-> hosts[i].name, config |-> row.config]
        /\ hosts'[i] \in HostRow
    BY <1>2, <1>3, <1>4, <1>6, <2>1 DEF HostRow
  <2>3. hosts' \in [HostIds -> Unused \cup HostRow]
    BY <1>2, <1>3, <1>4, <1>6, <2>1 DEF HostRow
  <2> QED
    BY <1>1, <1>2, <1>6, <2>1, <2>2, <2>3 DEF i, row, Live, HostRow
<1> QED
  BY <1>5, <1>6

(* INSERT finds no host of the name, and an ID that was never given out.   *)
LEMMA CreatedHost ==
  ASSUME ServerInv, NEW r \in Requests, CreateHost(r)
  PROVE  \E i \in HostIds :
            /\ hosts[i] = Free
            /\ \A j \in HostIds : Live(hosts, j) => hosts[j].name # req[r].row.name
            /\ req[r].row \in HostRow /\ req[r].row.config = Null
            /\ hosts' \in [HostIds -> Unused \cup HostRow]
            /\ hosts'[i] = req[r].row
            /\ \A j \in HostIds : j # i => hosts'[j] = hosts[j]
<1>1. req[r].row \in HostRow /\ req[r].row.config = Null
  BY AtHost DEF ServerInv, CreateHost, At, HostWorkOK, HostRequest
<1>2. hosts \in [HostIds -> Unused \cup HostRow]
  BY DEF ServerInv, TypeOK
<1>3. PICK i \in HostIds : hosts[i] = Free /\ hosts' = [hosts EXCEPT ![i] = req[r].row]
  BY DEF CreateHost
<1>4. \A j \in HostIds : Live(hosts, j) => hosts[j].name # req[r].row.name
  BY DEF CreateHost, HostId
<1>5. /\ hosts' \in [HostIds -> Unused \cup HostRow]
      /\ hosts'[i] = req[r].row
      /\ \A j \in HostIds : j # i => hosts'[j] = hosts[j]
  BY <1>1, <1>2, <1>3
<1> QED
  BY <1>1, <1>3, <1>4, <1>5

LEMMA RemovedHost ==
  ASSUME ServerInv, NEW r \in Requests, RemoveHost(r)
  PROVE  /\ req[r].id \in HostIds /\ hosts[req[r].id] # Free
         /\ hosts' \in [HostIds -> Unused \cup HostRow]
         /\ hosts'[req[r].id] = Gone
         /\ \A j \in HostIds : j # req[r].id => hosts'[j] = hosts[j]
<1>1. req[r].id \in HostIds /\ hosts[req[r].id] # Free
  BY AtHost DEF ServerInv, RemoveHost, At, HostWorkOK
<1> QED
  BY <1>1 DEF ServerInv, TypeOK, RemoveHost

LEMMA HostStatementStep ==
  ASSUME ServerInv, NEW r \in Requests, HostStatement(r) PROVE ServerInv'
<1> USE DEF ServerInv
<1>1. ASSUME CreateHost(r) PROVE ServerInv'
  <2>1. PICK i \in HostIds :
            /\ hosts[i] = Free
            /\ \A j \in HostIds : Live(hosts, j) => hosts[j].name # req[r].row.name
            /\ req[r].row \in HostRow /\ req[r].row.config = Null
            /\ hosts' \in [HostIds -> Unused \cup HostRow]
            /\ hosts'[i] = req[r].row
            /\ \A j \in HostIds : j # i => hosts'[j] = hosts[j]
    BY <1>1, CreatedHost
  <2>2. \A j \in HostIds : hosts[j] # Free => hosts'[j] # Free
    BY <2>1
  <2>3. \A j \in HostIds : Live(hosts', j) => Known(hosts'[j].config)
    BY <2>1 DEF Live, TablesKnown, Known
  <2>4. \A j, k \in HostIds :
          Live(hosts', j) /\ Live(hosts', k) /\ hosts'[j].name = hosts'[k].name => j = k
    BY <2>1 DEF Live, UniqueNames
  <2> QED
    BY <1>1, <2>1, <2>2, <2>3, <2>4, HostsWritten DEF CreateHost
<1>2. ASSUME SaveHost(r) PROVE ServerInv'
  <2>1. \A j \in HostIds : Live(hosts', j) => Known(hosts'[j].config)
    BY <1>2, SavedHost DEF TablesKnown
  <2>2. \A j, k \in HostIds :
          Live(hosts', j) /\ Live(hosts', k) /\ hosts'[j].name = hosts'[k].name => j = k
    BY <1>2, SavedHost DEF UniqueNames
  <2>3. /\ hosts' \in [HostIds -> Unused \cup HostRow]
        /\ \A j \in HostIds : hosts[j] # Free => hosts'[j] # Free
    BY <1>2, SavedHost
  <2> QED
    BY <1>2, <2>1, <2>2, <2>3, HostsWritten DEF SaveHost
<1>3. ASSUME RemoveHost(r) PROVE ServerInv'
  <2>1. /\ \A j \in HostIds : hosts[j] # Free => hosts'[j] # Free
        /\ \A j \in HostIds : Live(hosts', j) => Live(hosts, j) /\ hosts'[j] = hosts[j]
    BY <1>3, RemovedHost DEF Live
  <2>2. \A j \in HostIds : Live(hosts', j) => Known(hosts'[j].config)
    BY <2>1 DEF TablesKnown
  <2>3. \A j, k \in HostIds :
          Live(hosts', j) /\ Live(hosts', k) /\ hosts'[j].name = hosts'[k].name => j = k
    BY <2>1 DEF UniqueNames
  <2> QED
    BY <1>3, <2>1, <2>2, <2>3, RemovedHost, HostsWritten DEF RemoveHost
<1>4. ASSUME JoinGroup(r) PROVE ServerInv'
  <2>1. HostWorkOK(req[r]) /\ req[r].at = "join" /\ req[r].next \in GroupIds
    BY <1>4, AtHost DEF JoinGroup, At, HostWorkOK
  <2> DEFINE c == groups[req[r].next].config
             q == [req[r] EXCEPT !.at = "save", !.next = "save", !.row.config = c]
  <2>2. c \in Refs /\ Known(c)
    BY <1>4, <2>1 DEF JoinGroup, TypeOK, TablesKnown, Live, AllGroups, GroupRow
  <2>a. req' = [req EXCEPT ![r].at = "save", ![r].next = "save", ![r].row.config = c]
    BY ONLY <1>4 DEF JoinGroup
  <2>b. DOMAIN req = Requests
    BY DEF TypeOK
  <2>3. req' = [req EXCEPT ![r] = q]
    BY ONLY <2>a, <2>b, r \in Requests
  <2>4. HostWorkOK(q)
    BY <2>1, <2>2 DEF HostWorkOK, HostRequest, HostRow
  <2>5. q.row.config = c
    BY <2>1 DEF HostWorkOK, HostRequest, HostRow
  <2> HIDE DEF q, c
  <2>6. WorkOK(q)
    BY <2>2, <2>4, <2>5 DEF WorkOK
  <2> QED
    BY <1>4, <2>3, <2>6, GoesOn DEF JoinGroup
<1>5. ASSUME ValidateConfig(r) PROVE ServerInv'
  <2> DEFINE q == [req[r] EXCEPT !.at = req[r].next]
  <2>1. req[r].at = "validate" /\ Known(req[r].row.config) /\ WorkOK(req[r])
    BY <1>5 DEF ValidateConfig, At, Known, Exists, Live, RequestsOK
  <2>2. req' = [req EXCEPT ![r] = q]
    BY <1>5 DEF ValidateConfig, Goes
  <2>3. ASSUME HostWorkOK(req[r]) PROVE WorkOK(q)
    <3>1. HostWorkOK(q) /\ q.row = req[r].row
      BY <2>1, <2>3 DEF HostWorkOK, HostRequest
    <3> QED
      BY <2>1, <3>1 DEF WorkOK
  <2>4. ASSUME GroupWorkOK(req[r]) PROVE WorkOK(q)
    <3>1. GroupWorkOK(q) /\ q.row = req[r].row
      BY <2>1, <2>4 DEF GroupWorkOK, GroupWork
    <3> QED
      BY <2>1, <3>1 DEF WorkOK
  <2>5. WorkOK(q)
    BY <2>1, <2>3, <2>4 DEF WorkOK
  <2> HIDE DEF q
  <2> QED
    BY <1>5, <2>2, <2>5, GoesOn DEF ValidateConfig
<1> QED
  BY <1>1, <1>2, <1>3, <1>4, <1>5 DEF HostStatement

(* A statement on the groups writes one row, deletes one, or finds none.   *)
LEMMA WrittenGroup ==
  ASSUME ServerInv, NEW r \in Requests, GroupStatement(r)
  PROVE  /\ Answer(r) /\ UNCHANGED <<hosts, configs, bare>>
         /\ groups' \in [AllGroups -> Unused \cup GroupRow]
         /\ \A g \in AllGroups :
               \/ groups'[g] = groups[g]
               \/ groups'[g] = Gone
               \/ /\ groups'[g] \in GroupRow
                  /\ Known(groups'[g].config)
                  /\ ~bare => Checked(TRUE, groups'[g].config)
<1>1. groups \in [AllGroups -> Unused \cup GroupRow]
  BY DEF ServerInv, TypeOK
<1> DEFINE row == req[r].row
<1>2. ASSUME NEW step \in GroupSteps, At(r, step)
      PROVE  /\ row \in GroupRow /\ Known(row.config)
             /\ step \in {"saveGroup", "eraseGroup", "saveDynamic", "eraseDynamic"}
                  => req[r].id \in AllGroups
  BY <1>2, AtGroup DEF ServerInv, At, GroupWorkOK, GroupWork
<1>3. ASSUME NEW fk \in Enforced, Checked(fk, row.config) PROVE ~bare => Checked(TRUE, row.config)
  BY <1>3 DEF Enforced, Checked
<1> HIDE DEF row
<1>4. ASSUME NEW step \in {"insertGroup", "insertDynamic"}, NEW ids \in SUBSET AllGroups,
             At(r, step), Insert(r, ids)
      PROVE  \E g \in AllGroups : groups' = [groups EXCEPT ![g] = row]
                                  /\ (~bare => Checked(TRUE, row.config))
  BY <1>3, <1>4 DEF Insert, row
<1>5. ASSUME NEW step \in {"saveGroup", "saveDynamic"}, At(r, step), Save(r)
      PROVE  \/ groups' = groups
             \/ \E g \in AllGroups : groups' = [groups EXCEPT ![g] = row]
                                     /\ (~bare => Checked(TRUE, row.config))
  BY <1>2, <1>3, <1>5 DEF Save, row, GroupSteps
<1>6. ASSUME NEW step \in {"eraseGroup", "eraseDynamic"}, At(r, step), Erase(r)
      PROVE  \E g \in AllGroups : groups' = [groups EXCEPT ![g] = Gone]
  BY <1>2, <1>6 DEF Erase, GroupSteps
<1>7. GroupIds \in SUBSET AllGroups /\ DynamicGroupIds \in SUBSET AllGroups
  BY DEF AllGroups
<1>8. \/ groups' = groups
      \/ \E g \in AllGroups : groups' = [groups EXCEPT ![g] = Gone]
      \/ /\ row \in GroupRow /\ Known(row.config)
         /\ \E g \in AllGroups : groups' = [groups EXCEPT ![g] = row]
         /\ ~bare => Checked(TRUE, row.config)
  BY <1>2, <1>4, <1>5, <1>6, <1>7
     DEF GroupStatement, InsertHostGroup, SaveHostGroup, EraseHostGroup,
         InsertDynamicHostGroup, SaveDynamicHostGroup, EraseDynamicHostGroup, GroupSteps
<1>9. Answer(r) /\ UNCHANGED <<hosts, configs, bare>>
  BY DEF GroupStatement, InsertHostGroup, SaveHostGroup, EraseHostGroup,
         InsertDynamicHostGroup, SaveDynamicHostGroup, EraseDynamicHostGroup,
         Insert, Save, Erase
<1> QED
  BY <1>1, <1>8, <1>9

LEMMA GroupStatementStep ==
  ASSUME ServerInv, NEW r \in Requests, GroupStatement(r) PROVE ServerInv'
<1>1. \A g \in AllGroups : Live(groups', g) => Known(groups'[g].config)
  BY WrittenGroup DEF ServerInv, TablesKnown, Live
<1> QED
  BY <1>1, WrittenGroup, GroupsWritten

(* ON DELETE SET NULL keeps rows, and every reference but the one.         *)
LEMMA ClearedRows ==
  ASSUME NEW c \in ConfigIds, TypeOK
  PROVE  /\ Cleared(hosts, c) \in [HostIds -> Unused \cup HostRow]
         /\ \A i \in HostIds :
               IF Live(hosts, i) THEN /\ Cleared(hosts, c)[i] \in HostRow
                                      /\ Cleared(hosts, c)[i].name = hosts[i].name
                                      /\ Cleared(hosts, c)[i].config =
                                           IF hosts[i].config = c THEN Null ELSE hosts[i].config
                                 ELSE Cleared(hosts, c)[i] = hosts[i]
         /\ Cleared(groups, c) \in [AllGroups -> Unused \cup GroupRow]
         /\ \A g \in AllGroups :
               IF Live(groups, g) THEN /\ Cleared(groups, c)[g] \in GroupRow
                                       /\ Cleared(groups, c)[g].config =
                                            IF groups[g].config = c THEN Null ELSE groups[g].config
                                  ELSE Cleared(groups, c)[g] = groups[g]
<1>1. hosts \in [HostIds -> Unused \cup HostRow] /\ groups \in [AllGroups -> Unused \cup GroupRow]
  BY DEF TypeOK
<1>2. \A i \in HostIds :
         IF Live(hosts, i) THEN /\ Cleared(hosts, c)[i] \in HostRow
                                /\ Cleared(hosts, c)[i].name = hosts[i].name
                                /\ Cleared(hosts, c)[i].config =
                                     IF hosts[i].config = c THEN Null ELSE hosts[i].config
                           ELSE Cleared(hosts, c)[i] = hosts[i]
  BY <1>1 DEF Cleared, Live, HostRow
<1>3. \A g \in AllGroups :
         IF Live(groups, g) THEN /\ Cleared(groups, c)[g] \in GroupRow
                                 /\ Cleared(groups, c)[g].config =
                                      IF groups[g].config = c THEN Null ELSE groups[g].config
                            ELSE Cleared(groups, c)[g] = groups[g]
  BY <1>1 DEF Cleared, Live, GroupRow
<1>4. Cleared(hosts, c) \in [HostIds -> Unused \cup HostRow]
  <2>1. Cleared(hosts, c) = [i \in HostIds |-> Cleared(hosts, c)[i]]
    BY <1>1 DEF Cleared
  <2>2. \A i \in HostIds : Cleared(hosts, c)[i] \in Unused \cup HostRow
    BY <1>1, <1>2
  <2> QED
    BY ONLY <2>1, <2>2
<1>5. Cleared(groups, c) \in [AllGroups -> Unused \cup GroupRow]
  <2>1. Cleared(groups, c) = [g \in AllGroups |-> Cleared(groups, c)[g]]
    BY <1>1 DEF Cleared
  <2>2. \A g \in AllGroups : Cleared(groups, c)[g] \in Unused \cup GroupRow
    BY <1>1, <1>3
  <2> QED
    BY ONLY <2>1, <2>2
<1> QED
  BY <1>2, <1>3, <1>4, <1>5

(* A configuration is deleted: rows stay, a reference stays or goes, and   *)
(* while foreign keys are enforced none to the configuration stays.        *)
LEMMA DeletedConfiguration ==
  ASSUME ServerInv, DeleteConfiguration
  PROVE  /\ UNCHANGED <<bare, req>>
         /\ hosts' \in [HostIds -> Unused \cup HostRow]
         /\ groups' \in [AllGroups -> Unused \cup GroupRow]
         /\ \A i \in HostIds :
               /\ Live(hosts', i) <=> Live(hosts, i)
               /\ hosts'[i] = Free <=> hosts[i] = Free
               /\ Live(hosts, i) => /\ hosts'[i].name = hosts[i].name
                                    /\ hosts'[i].config \in {hosts[i].config, Null}
         /\ \A g \in AllGroups :
               /\ Live(groups', g) <=> Live(groups, g)
               /\ Live(groups, g) => groups'[g].config \in {groups[g].config, Null}
         /\ \E c \in ConfigIds :
               /\ Exists(c)
               /\ configs' = [configs EXCEPT ![c] = Gone]
               /\ ~bare => /\ \A i \in HostIds : Live(hosts, i) => hosts'[i].config # c
                           /\ \A g \in AllGroups : Live(groups, g) => groups'[g].config # c
<1>1. PICK c \in ConfigIds, fk \in Enforced :
         /\ Exists(c)
         /\ configs' = [configs EXCEPT ![c] = Gone]
         /\ hosts' = IF fk THEN Cleared(hosts, c) ELSE hosts
         /\ groups' = IF fk THEN Cleared(groups, c) ELSE groups
         /\ UNCHANGED <<bare, req>>
  BY DEF DeleteConfiguration
<1>2. TypeOK /\ (~bare => fk)
  BY DEF ServerInv, Enforced
<1>3. CASE fk
  <2>1. hosts' = Cleared(hosts, c) /\ groups' = Cleared(groups, c)
    BY <1>1, <1>3
  <2>2. \A i \in HostIds :
               /\ Live(hosts', i) <=> Live(hosts, i)
               /\ hosts'[i] = Free <=> hosts[i] = Free
               /\ Live(hosts, i) => /\ hosts'[i].name = hosts[i].name
                                    /\ hosts'[i].config \in {hosts[i].config, Null}
                                    /\ hosts'[i].config # c
    BY <1>2, <2>1, ClearedRows DEF Live, HostRow
  <2>3. \A g \in AllGroups :
               /\ Live(groups', g) <=> Live(groups, g)
               /\ Live(groups, g) => /\ groups'[g].config \in {groups[g].config, Null}
                                     /\ groups'[g].config # c
    BY <1>2, <2>1, ClearedRows DEF Live, GroupRow
  <2>4. /\ hosts' \in [HostIds -> Unused \cup HostRow]
        /\ groups' \in [AllGroups -> Unused \cup GroupRow]
    BY <1>2, <2>1, ClearedRows
  <2> QED
    BY <1>1, <2>2, <2>3, <2>4
<1>4. CASE ~fk
  BY <1>1, <1>2, <1>4 DEF TypeOK, Live
<1> QED
  BY <1>3, <1>4

LEMMA ConfigurationStep ==
  ASSUME ServerInv, CreateConfiguration \/ DeleteConfiguration PROVE ServerInv'
<1> USE DEF ServerInv
<1>1. ASSUME CreateConfiguration PROVE ServerInv'
  <2>1. PICK c \in ConfigIds : configs[c] = Free /\ configs' = [configs EXCEPT ![c] = "live"]
    BY <1>1 DEF CreateConfiguration
  <2>2. UNCHANGED <<hosts, groups, bare, req>>
    BY <1>1 DEF CreateConfiguration
  <2>3. TypeOK'
    BY <2>1, <2>2 DEF TypeOK
  <2>4. \A d \in ConfigIds : configs[d] # Free => configs'[d] # Free
    BY <2>1 DEF TypeOK
  <2>5. TablesKnown' /\ UniqueNames'
    BY <2>2, <2>4 DEF TablesKnown, UniqueNames, Known, Live
  <2>6. RequestsOK'
    BY <2>2, <2>4, RequestsKept
  <2> QED
    BY <2>3, <2>5, <2>6
<1>2. ASSUME DeleteConfiguration PROVE ServerInv'
  <2>1. PICK c \in ConfigIds : configs' = [configs EXCEPT ![c] = Gone]
    BY <1>2, DeletedConfiguration
  <2>2. TypeOK'
    BY <1>2, <2>1, DeletedConfiguration DEF TypeOK
  <2>3. \A d \in ConfigIds : configs[d] # Free => configs'[d] # Free
    BY <2>1 DEF TypeOK
  <2>4. TablesKnown'
    BY <1>2, <2>3, DeletedConfiguration DEF TablesKnown, Known
  <2>5. UniqueNames'
    BY <1>2, DeletedConfiguration DEF UniqueNames
  <2>6. RequestsOK'
    BY <1>2, <2>3, DeletedConfiguration, RequestsKept
  <2> QED
    BY <2>2, <2>4, <2>5, <2>6
<1> QED
  BY <1>1, <1>2

LEMMA ServerStep == ServerInv /\ [Next]_vars => ServerInv'
<1> SUFFICES ASSUME ServerInv, [Next]_vars PROVE ServerInv'
  OBVIOUS
<1>1. ASSUME NEW r \in Requests, Fails(r) PROVE ServerInv'
  BY <1>1, Answered, EndsStep DEF Fails, ServerInv, TypeOK
<1>2. CASE OpenConnection \/ Restart \/ UNCHANGED vars
  <2>1. req' \in [Requests -> {Idle} \cup HostRequest \cup GroupWork]
    BY <1>2 DEF OpenConnection, Restart, ServerInv, TypeOK, vars
  <2>2. UNCHANGED tables /\ bare' \in BOOLEAN
    BY <1>2 DEF OpenConnection, Restart, ServerInv, TypeOK, vars
  <2>3. \A r \in Requests : req'[r] = req[r] \/ req'[r] = Idle
    BY <1>2 DEF OpenConnection, Restart, vars
  <2> QED
    BY <2>1, <2>2, <2>3, EndsStep
<1> QED
  BY <1>1, <1>2, HostHandlerStep, HostStatementStep, GroupHandlerStep, GroupStatementStep,
     ConfigurationStep DEF Next

(* The strengthening that the theorems rest on, for every handler.         *)
THEOREM ServerInvariant == Spec => []ServerInv
BY ServerInit, ServerStep, PTL DEF Spec

----
(* Tables and requests are well-formed, whatever handlers interleave.      *)
THEOREM ServerTyped == Spec => []TypeOK
<1>1. ServerInv => TypeOK
  BY DEF ServerInv
<1> QED
  BY <1>1, ServerInvariant, PTL

(* A write of a row that was read before its configuration was deleted     *)
(* never names a configuration that does not exist yet.                    *)
THEOREM ReferencesKnown == Spec => []NoForwardReference
<1>1. ServerInv => NoForwardReference
  <2> SUFFICES ASSUME ServerInv, NEW c \in References(hosts) \cup References(groups) \cup Pending
               PROVE  Known(c)
    BY DEF NoForwardReference, Known
  <2>1. DOMAIN hosts = HostIds /\ DOMAIN groups = AllGroups
    BY DEF ServerInv, TypeOK
  <2>2. ASSUME c \in References(hosts) PROVE Known(c)
    BY <2>1, <2>2 DEF References, ServerInv, TablesKnown
  <2>3. ASSUME c \in References(groups) PROVE Known(c)
    BY <2>1, <2>3 DEF References, ServerInv, TablesKnown
  <2>4. ASSUME c \in Pending PROVE Known(c)
    BY <2>4 DEF Pending, ServerInv, RequestsOK, WorkOK
  <2> QED
    BY <2>2, <2>3, <2>4
<1> QED
  BY <1>1, ServerInvariant, PTL

(* Which steps change a table: what the action properties range over.      *)
LEMMA TableSteps ==
  ASSUME ServerInv, [Next]_vars
  PROVE  \/ UNCHANGED tables
         \/ \E r \in Requests : CreateHost(r) \/ SaveHost(r) \/ RemoveHost(r)
         \/ \E r \in Requests : GroupStatement(r)
         \/ CreateConfiguration
         \/ DeleteConfiguration
<1>1. ASSUME NEW r \in Requests, HostHandler(r) PROVE UNCHANGED tables
  BY <1>1 DEF HostHandler, RegisterHost, UpdateHost, DeleteHost, AssignHostToConfig,
              AssignHostToGroup, Begins
<1>2. ASSUME NEW r \in Requests, GroupHandler(r) PROVE UNCHANGED tables
  BY <1>2 DEF GroupHandler, CreateHostGroup, UpdateHostGroup, DeleteHostGroup,
              CreateDynamicHostGroup, UpdateDynamicHostGroup, DeleteDynamicHostGroup,
              Create, Update, Delete, Begins
<1>3. ASSUME NEW r \in Requests, HostStatement(r)
      PROVE  UNCHANGED tables \/ CreateHost(r) \/ SaveHost(r) \/ RemoveHost(r)
  BY <1>3 DEF HostStatement, JoinGroup, ValidateConfig
<1>4. ASSUME (\E r \in Requests : Fails(r)) \/ OpenConnection \/ Restart \/ UNCHANGED vars
      PROVE  UNCHANGED tables
  BY <1>4 DEF Fails, OpenConnection, Restart, vars
<1> QED
  BY <1>1, <1>2, <1>3, <1>4 DEF Next

----
(* The hosts table as a directory.                                         *)
GivenOut == {i \in HostIds : hosts[i] # Free}

LEMMA SameDirectory ==
  ASSUME \A i \in HostIds : /\ Live(hosts', i) <=> Live(hosts, i)
                            /\ hosts'[i] = Free <=> hosts[i] = Free
                            /\ Live(hosts, i) => hosts'[i].name = hosts[i].name
  PROVE  HostEntries' = HostEntries /\ GivenOut' = GivenOut
<1>1. HostEntries' = HostEntries
  BY DEF HostEntries, Live
<1>2. GivenOut' = GivenOut
  BY DEF GivenOut
<1> QED
  BY <1>1, <1>2

LEMMA DirectoryInit == Init => Hostnames!Init
<1> SUFFICES ASSUME Init PROVE Hostnames!Init
  OBVIOUS
<1>1. ServerInv
  BY ServerInit
<1>2. GivenOut \subseteq HostIds
  BY DEF GivenOut
<1>3. HostEntries \subseteq GivenOut \X Names
  <2> SUFFICES ASSUME NEW i \in HostIds, Live(hosts, i)
               PROVE  hosts[i].name \in Names /\ i \in GivenOut
    BY DEF HostEntries
  <2> QED
    BY <1>1 DEF ServerInv, TypeOK, Live, HostRow, GivenOut
<1>4. \A e, f \in HostEntries : e[1] = f[1] \/ e[2] = f[2] => e = f
  BY <1>1 DEF HostEntries, ServerInv, UniqueNames
<1> QED
  BY <1>2, <1>3, <1>4 DEF Hostnames!Init, GivenOut

LEMMA DirectoryStep ==
  ServerInv /\ [Next]_vars => [Hostnames!Next]_<<HostEntries, GivenOut>>
<1> SUFFICES ASSUME ServerInv, [Next]_vars
             PROVE  Hostnames!Next \/ UNCHANGED <<HostEntries, GivenOut>>
  OBVIOUS
<1>1. ASSUME NEW r \in Requests, CreateHost(r) PROVE Hostnames!Next
  <2>1. PICK i \in HostIds :
            /\ hosts[i] = Free
            /\ \A j \in HostIds : Live(hosts, j) => hosts[j].name # req[r].row.name
            /\ req[r].row \in HostRow
            /\ hosts'[i] = req[r].row
            /\ \A j \in HostIds : j # i => hosts'[j] = hosts[j]
    BY <1>1, CreatedHost
  <2>0. PICK n : n = req[r].row.name
    OBVIOUS
  <2>2. n \in Names /\ req[r].row \notin Unused
    BY <2>0, <2>1 DEF HostRow
  <2>3. \A j \in HostIds : Live(hosts', j) <=> Live(hosts, j) \/ j = i
    BY <2>1, <2>2 DEF Live
  <2>4. HostEntries' = HostEntries \cup {<<i, n>>}
    BY <2>0, <2>1, <2>3 DEF HostEntries, Live
  <2>5. GivenOut' = GivenOut \cup {i} /\ i \notin GivenOut
    BY <2>1, <2>2 DEF GivenOut
  <2>6. ~Hostnames!Listed(n)
    BY <2>0, <2>1 DEF Hostnames!Listed, HostEntries
  <2>7. Hostnames!Add(i, n)
    BY <2>4, <2>5, <2>6 DEF Hostnames!Add, GivenOut
  <2> QED
    BY <2>2, <2>7 DEF Hostnames!Next
<1>2. ASSUME NEW r \in Requests, SaveHost(r) PROVE UNCHANGED <<HostEntries, GivenOut>>
  BY <1>2, SavedHost, SameDirectory
<1>3. ASSUME NEW r \in Requests, RemoveHost(r)
      PROVE  Hostnames!Next \/ UNCHANGED <<HostEntries, GivenOut>>
  <2> DEFINE i == req[r].id
             n == hosts[i].name
  <2>1. /\ i \in HostIds /\ hosts[i] # Free /\ hosts'[i] = Gone
        /\ \A j \in HostIds : j # i => hosts'[j] = hosts[j]
    BY <1>3, RemovedHost
  <2> HIDE DEF i
  <2>2. GivenOut' = GivenOut
    BY <2>1 DEF GivenOut
  <2>3. CASE Live(hosts, i)
    <3>1. n \in Names
      BY <2>1, <2>3 DEF ServerInv, TypeOK, Live, HostRow
    <3>2. <<i, n>> \in HostEntries /\ HostEntries' = HostEntries \ {<<i, n>>}
      BY <2>1, <2>3 DEF HostEntries, Live
    <3>3. Hostnames!Remove(i, n)
      BY <2>2, <3>2 DEF Hostnames!Remove, GivenOut
    <3> QED
      BY <2>1, <3>1, <3>3 DEF Hostnames!Next
  <2>4. CASE ~Live(hosts, i)
    <3>1. HostEntries' = HostEntries
      BY <2>1, <2>4 DEF HostEntries, Live
    <3> QED
      BY <2>2, <3>1
  <2> QED
    BY <2>3, <2>4
<1>4. ASSUME UNCHANGED hosts PROVE UNCHANGED <<HostEntries, GivenOut>>
  BY <1>4 DEF HostEntries, GivenOut, Live
<1>5. ASSUME DeleteConfiguration PROVE UNCHANGED <<HostEntries, GivenOut>>
  BY <1>5, DeletedConfiguration, SameDirectory
<1> QED
  BY <1>1, <1>2, <1>3, <1>4, <1>5, TableSteps, WrittenGroup DEF tables, CreateConfiguration

(* The handlers for hosts keep the directory that module Directory         *)
(* describes: every statement is one of its steps or leaves it alone.      *)
THEOREM DirectoryImplemented == Spec => HostsAreADirectory
<1>1. ServerInv /\ [Next]_vars => [Hostnames!Next]_Hostnames!vars
  BY DirectoryStep DEF Hostnames!vars, GivenOut
<1> QED
  BY <1>1, DirectoryInit, ServerInvariant, PTL DEF Spec, HostsAreADirectory, Hostnames!Spec

----
(* Enforced foreign keys.                                                  *)
LEMMA SoundStep ==
  ASSUME ServerInv, [Next]_vars, ~bare PROVE Dangling' \subseteq Dangling
<1> DEFINE Lost(i) == Live(hosts, i) /\ ~Checked(TRUE, hosts[i].config)
           LostGroup(g) == Live(groups, g) /\ ~Checked(TRUE, groups[g].config)
<1> SUFFICES /\ \A i \in HostIds : Lost(i)' => Lost(i)
             /\ \A g \in AllGroups : LostGroup(g)' => LostGroup(g)
  BY DEF Dangling
<1>1. ASSUME UNCHANGED <<hosts, configs>>, NEW i \in HostIds PROVE Lost(i)' => Lost(i)
  BY <1>1 DEF Live, Checked, Exists
<1>2. ASSUME UNCHANGED <<groups, configs>>, NEW g \in AllGroups
      PROVE  LostGroup(g)' => LostGroup(g)
  BY <1>2 DEF Live, Checked, Exists
<1>3. ASSUME UNCHANGED configs, NEW c PROVE Checked(TRUE, c)' <=> Checked(TRUE, c)
  BY <1>3 DEF Checked, Exists, Live
<1>4. ASSUME NEW r \in Requests, CreateHost(r), NEW i \in HostIds PROVE Lost(i)' => Lost(i)
  <2>1. \/ hosts'[i] = hosts[i]
        \/ hosts'[i].config = Null
    BY <1>4, CreatedHost
  <2>2. UNCHANGED configs
    BY <1>4 DEF CreateHost
  <2> QED
    BY <2>1, <2>2, <1>3 DEF Live, Checked
<1>5. ASSUME NEW r \in Requests, SaveHost(r), NEW i \in HostIds PROVE Lost(i)' => Lost(i)
  <2>1. UNCHANGED configs /\ (Live(hosts, req[r].id) => Checked(TRUE, req[r].row.config))
    BY <1>5 DEF SaveHost, Enforced
  <2>2. Live(hosts', i) => Live(hosts, i)
    BY <1>5, SavedHost
  <2>3. CASE i = req[r].id
    BY <1>5, <2>1, <2>2, <2>3, <1>3, SavedHost DEF Live
  <2>4. CASE i # req[r].id
    <3>1. hosts'[i] = hosts[i]
      BY <1>5, <2>4, SavedHost
    <3> QED
      BY <2>1, <3>1, <1>3 DEF Live
  <2> QED
    BY <2>3, <2>4
<1>6. ASSUME NEW r \in Requests, RemoveHost(r), NEW i \in HostIds PROVE Lost(i)' => Lost(i)
  <2>1. UNCHANGED configs /\ (hosts'[i] = hosts[i] \/ hosts'[i] = Gone)
    BY <1>6, RemovedHost DEF RemoveHost
  <2> QED
    BY <2>1, <1>3 DEF Live
<1>7. ASSUME NEW r \in Requests, GroupStatement(r), NEW g \in AllGroups
      PROVE  LostGroup(g)' => LostGroup(g)
  <2>1. UNCHANGED configs
    BY <1>7, WrittenGroup
  <2>2. \/ groups'[g] = groups[g]
        \/ groups'[g] = Gone
        \/ Checked(TRUE, groups'[g].config)
    BY <1>7, WrittenGroup
  <2> QED
    BY <2>1, <2>2, <1>3 DEF Live
<1>8. ASSUME CreateConfiguration
      PROVE  /\ \A i \in HostIds : Lost(i)' => Lost(i)
             /\ \A g \in AllGroups : LostGroup(g)' => LostGroup(g)
  <2>1. UNCHANGED <<hosts, groups>>
    BY <1>8 DEF CreateConfiguration
  <2>2. ASSUME NEW c, Checked(TRUE, c) PROVE Checked(TRUE, c)'
    BY <1>8, <2>2 DEF CreateConfiguration, Checked, Exists, Live, ServerInv, TypeOK
  <2> QED
    BY <2>1, <2>2 DEF Live
<1>9. ASSUME DeleteConfiguration
      PROVE  /\ \A i \in HostIds : Lost(i)' => Lost(i)
             /\ \A g \in AllGroups : LostGroup(g)' => LostGroup(g)
  <2>1. PICK c \in ConfigIds :
               /\ configs' = [configs EXCEPT ![c] = Gone]
               /\ \A i \in HostIds : Live(hosts, i) => hosts'[i].config # c
               /\ \A g \in AllGroups : Live(groups, g) => groups'[g].config # c
    BY <1>9, DeletedConfiguration
  <2>2. ASSUME NEW d, d # c, Checked(TRUE, d) PROVE Checked(TRUE, d)'
    BY <2>1, <2>2 DEF Checked, Exists, Live, ServerInv, TypeOK
  <2>3. Checked(TRUE, Null)'
    BY DEF Checked
  <2>4. /\ \A i \in HostIds :
               /\ Live(hosts', i) => Live(hosts, i)
               /\ Live(hosts, i) => hosts'[i].config \in {hosts[i].config, Null}
        /\ \A g \in AllGroups :
               /\ Live(groups', g) => Live(groups, g)
               /\ Live(groups, g) => groups'[g].config \in {groups[g].config, Null}
    BY <1>9, DeletedConfiguration
  <2>5. ASSUME NEW i \in HostIds, Lost(i)' PROVE Lost(i)
    <3>1. PICK d : d = hosts'[i].config
      OBVIOUS
    <3>2. Live(hosts, i) /\ ~Checked(TRUE, d)' /\ d # c /\ d \in {hosts[i].config, Null}
      BY <2>1, <2>4, <2>5, <3>1 DEF Live, Checked, Exists
    <3> QED
      BY <2>2, <2>3, <3>2
  <2>6. ASSUME NEW g \in AllGroups, LostGroup(g)' PROVE LostGroup(g)
    <3>1. PICK d : d = groups'[g].config
      OBVIOUS
    <3>2. Live(groups, g) /\ ~Checked(TRUE, d)' /\ d # c /\ d \in {groups[g].config, Null}
      BY <2>1, <2>4, <2>6, <3>1 DEF Live, Checked, Exists
    <3> QED
      BY <2>2, <2>3, <3>2
  <2> QED
    BY <2>5, <2>6
<1> HIDE DEF Lost, LostGroup
<1> QED
  BY <1>1, <1>2, <1>4, <1>5, <1>6, <1>7, <1>8, <1>9, TableSteps, WrittenGroup
     DEF tables, CreateHost, SaveHost, RemoveHost

(* A configuration that is deleted between a request's check and its write *)
(* leaves no dangling reference while foreign keys are enforced.           *)
THEOREM FirstConnectionSound == Spec => SoundOnFirstConnection
<1>1. ServerInv /\ [Next]_vars => [~bare => Dangling' \subseteq Dangling]_vars
  BY SoundStep
<1> QED
  BY <1>1, ServerInvariant, PTL DEF Spec, SoundOnFirstConnection

----
LEMMA ReasonStep ==
  ASSUME ServerInv, [Next]_vars, NEW i \in HostIds, AssignmentChanges(i)
  PROVE  \/ hosts'[i].config = Null /\ configs' # configs
         \/ \E r \in Requests :
               Writer(r, i) /\ req[r].was \in {Asked} \cup (Refs \ {hosts[i].config})
<1> USE DEF AssignmentChanges
<1>1. ASSUME NEW r \in Requests, CreateHost(r) PROVE FALSE
  BY <1>1, CreatedHost DEF Live
<1>2. ASSUME NEW r \in Requests, RemoveHost(r) PROVE FALSE
  BY <1>2, RemovedHost DEF Live
<1>3. ASSUME NEW r \in Requests, SaveHost(r)
      PROVE  Writer(r, i) /\ req[r].was \in {Asked} \cup (Refs \ {hosts[i].config})
  <2>1. i = req[r].id /\ hosts'[i].config = req[r].row.config
    BY <1>3, SavedHost
  <2>2. req[r].was \in {Asked} \cup (Refs \ {hosts[i].config})
    BY <1>3, <2>1, SavedHost DEF HostRow
  <2>3. req'[r] = Idle /\ At(r, "save") /\ req[r] # Idle
    BY <1>3 DEF SaveHost, Answer, At, ServerInv, TypeOK
  <2> QED
    BY <2>1, <2>2, <2>3 DEF Writer
<1>4. ASSUME DeleteConfiguration PROVE hosts'[i].config = Null /\ configs' # configs
  <2>1. hosts'[i].config \in {hosts[i].config, Null}
    BY <1>4, DeletedConfiguration
  <2>2. configs' # configs
    BY <1>4, DeletedConfiguration DEF Exists, Live, ServerInv, TypeOK
  <2> QED
    BY <2>1, <2>2
<1>5. ~UNCHANGED hosts
  OBVIOUS
<1> QED
  BY <1>1, <1>2, <1>3, <1>4, <1>5, TableSteps, WrittenGroup DEF tables, CreateConfiguration

(* An assignment changes when it was asked for, when its configuration is  *)
(* deleted, or when a row that was read before a change is written back.   *)
THEOREM ChangesHaveReasons == Spec => AssignmentChangesForAReason
<1>1. ServerInv /\ [Next]_vars =>
         [\A i \in HostIds : AssignmentChanges(i) =>
            \/ hosts'[i].config = Null /\ configs' # configs
            \/ \E r \in Requests :
                  Writer(r, i) /\ req[r].was \in {Asked} \cup (Refs \ {hosts[i].config})]_vars
  BY ReasonStep
<1> QED
  BY <1>1, ServerInvariant, PTL DEF Spec, AssignmentChangesForAReason

=============================================================================
