----------------------------- MODULE EditorStore -----------------------------
(***************************************************************************)
(* ms-editor: requests that edit the configuration, side by side.          *)
(*                                                                         *)
(* A request is decoded by its handler, checked by its use case (some read *)
(* the entity first), and runs its SQL statements one by one, in a         *)
(* transaction where the code opens one.  A statement reads what is        *)
(* committed when it runs and what its own transaction wrote (PostgreSQL's *)
(* READ COMMITTED); it waits while another transaction holds a row it      *)
(* would change.  After the commit the use case reads the entity again and *)
(* publishes it.                                                           *)
(*                                                                         *)
(* A key of the database is a table and the id of the entity it is about:  *)
(* its own row, its parameters (settings, address, figure_params), and the *)
(* setpoints and the scaling of a tag.  What a device's settings or a      *)
(* tag's address say is reduced to the device type they are valid for; the *)
(* version of a row counts its changes.                                    *)
(***************************************************************************)
EXTENDS Naturals, Sequences, FiniteSets

CONSTANTS
    Objects, Devices, Tags, Diagrams, Figures,
    HomeOf,         \* the parent an entity has when it is there from the start
    Initial,        \* the entities there are at the start
    Types,          \* device types
    Requests,       \* requests the server handles at a time
    MaxRequests,    \* bound: requests accepted and crashes of ms-editor, together
    FigureParamsDeletedAt,  \* public.figure_params has the column deleted_at that
                            \* the statements name (no migration adds it)
    StatementsFail,         \* statements fail now and then
    None

Ids == Objects \cup Devices \cup Tags \cup Diagrams \cup Figures
Extras == {"setpoints", "scaling"}
Keys == ({"row"} \X Ids) \cup ({"params"} \X (Devices \cup Tags \cup Figures)) \cup (Extras \X Tags)

\* The database's references: what is there has a parent that is there.
Inside == Devices \cup Tags \cup Diagrams \cup Figures
MayHold(i) == IF i \in Tags THEN Devices ELSE IF i \in Figures THEN Diagrams ELSE Objects

\* What an event carries of a device or a tag: versions of the rows joined.
Payload ==
    [device : Nat, object : Objects \cup {None}, params : Nat \cup {None}] \cup
    [tag : Nat, params : Nat \cup {None}, setpoints : Nat \cup {None}, scaling : Nat \cup {None}]

ASSUME RequestsAssumption == MaxRequests \in Nat
ASSUME SchemaAssumption == FigureParamsDeletedAt \in BOOLEAN /\ StatementsFail \in BOOLEAN
ASSUME InitialAssumption ==
    /\ Initial \subseteq Ids
    /\ DOMAIN HomeOf = Inside
    /\ \A i \in Inside : HomeOf[i] \in MayHold(i)
    /\ \A i \in Inside \cap Initial : HomeOf[i] \in Initial
ASSUME NamesAssumption ==
    /\ Objects \cap Inside = {} /\ Diagrams \cap Figures = {}
    /\ Devices \cap (Tags \cup Diagrams \cup Figures) = {} /\ Tags \cap (Diagrams \cup Figures) = {}
    /\ None \notin Ids \cup Types \cup Payload
    /\ Types # {}

VARIABLES
    db,         \* what is committed
    tx,         \* the keys a request's transaction has written, with their values
    locked,     \* the rows its statements have locked, one after the other
    req,        \* the requests
    issued,     \* requests and crashes so far
    events,     \* published on config.changed
    unsent,     \* history: entities of which an event was lost
    late,       \* history: entities put under a parent whose deletion had begun
    retyped,    \* history: devices whose type was changed
    moved,      \* history: devices assigned to another object, or to none
    meanwhile   \* history: figures other requests committed since a request began

history == <<unsent, late, retyped, moved, meanwhile>>
store == <<db, tx, req, issued, events, history>>
vars == <<store, locked>>

Row == [state : {"absent", "live", "deleted"},
        parent : Ids \cup {None}, type : Types \cup {None}, version : Nat]
Absent == [state |-> "absent", parent |-> None, type |-> None, version |-> 0]
Idle == [op |-> "none", phase |-> "idle", id |-> None, parent |-> None, type |-> None,
         config |-> None, keep |-> {}, new |-> {}, todo |-> <<>>, rereads |-> FALSE, found |-> {},
         began |-> FALSE, touched |-> {}, payload |-> None]

TheType == CHOOSE ty \in Types : TRUE
Nothing == <<>>    \* no key is written

Init ==
    /\ db = [k \in Keys |->
               IF k[2] \notin Initial \/ k[1] \in Extras THEN Absent
               ELSE [state |-> "live", version |-> 0,
                     parent |-> IF k[1] = "row" /\ k[2] \notin Objects THEN HomeOf[k[2]] ELSE None,
                     type |-> IF k[2] \in Devices \/ (k[2] \in Tags /\ k[1] = "params")
                              THEN TheType ELSE None]]
    /\ tx = [r \in Requests |-> Nothing]
    /\ locked = [r \in Requests |-> {}]
    /\ req = [r \in Requests |-> Idle]
    /\ issued = 0 /\ events = {}
    /\ unsent = {} /\ late = {} /\ retyped = {} /\ moved = {} /\ meanwhile = [r \in Requests |-> {}]

-----------------------------------------------------------------------------
(* Rows, as a statement of a request sees them. *)

View(r) == [k \in Keys |-> IF k \in DOMAIN tx[r] THEN tx[r][k] ELSE db[k]]

Live(v, id) == v[<<"row", id>>].state = "live"
Parent(v, id) == v[<<"row", id>>].parent
LiveUnder(v, p, ids) == {i \in ids : Live(v, i) /\ Parent(v, i) = p}

\* A row a LEFT JOIN finds, or nothing.
Joined(v, table, id) == IF v[<<table, id>>].state = "live" THEN v[<<table, id>>].version ELSE None

DeviceWithParams(v, d) ==
    [device |-> v[<<"row", d>>].version, object |-> Parent(v, d), params |-> Joined(v, "params", d)]

TagFull(v, t) ==
    [tag |-> v[<<"row", t>>].version, params |-> Joined(v, "params", t),
     setpoints |-> Joined(v, "setpoints", t), scaling |-> Joined(v, "scaling", t)]

GetDevice(v, d) == IF Live(v, d) THEN DeviceWithParams(v, d) ELSE None
GetTag(v, t) == IF Live(v, t) THEN TagFull(v, t) ELSE None
Entity(v, id) == IF id \in Devices THEN GetDevice(v, id) ELSE GetTag(v, id)

SoftDelete(v, ids) ==
    [k \in {"row"} \X ids |-> [v[k] EXCEPT !.state = "deleted"]]
Write(v, k, row) == [j \in {k} |-> [row EXCEPT !.version = v[k].version + 1]]
-----------------------------------------------------------------------------
(* The statements of PostgresRepository: the rows each would change. *)

InsertDevice(v, q) ==
    Write(v, <<"row", q.id>>,
          [Absent EXCEPT !.state = "live", !.parent = q.parent, !.type = q.type])

\* INSERT ... SELECT: no row unless the device is there.
InsertTag(v, q) ==
    IF Live(v, q.parent)
    THEN Write(v, <<"row", q.id>>, [Absent EXCEPT !.state = "live", !.parent = q.parent])
    ELSE Nothing

\* Nothing asks whether the diagram is still there.
InsertFigures(v, q) ==
    [k \in {"row", "params"} \X q.new |->
        [Absent EXCEPT !.state = "live", !.version = 1,
                       !.parent = IF k[1] = "row" THEN q.id ELSE None]]

UpdateDeviceRow(v, q) ==
    LET k == <<"row", q.id>>
    IN  IF Live(v, q.id)
        THEN Write(v, k, [v[k] EXCEPT !.type = IF q.type = None THEN v[k].type ELSE q.type])
        ELSE Nothing

AssignDeviceRow(v, q) ==
    LET k == <<"row", q.id>>
    IN  IF Live(v, q.id) THEN Write(v, k, [v[k] EXCEPT !.parent = q.parent]) ELSE Nothing

\* mutant: the update does not ask whether the tag is deleted
UpdateAnyTagRow(v, q) == Write(v, <<"row", q.id>>, v[<<"row", q.id>>])
UpdateTagRow(v, q) ==
    LET k == <<"row", q.id>>
    IN  IF Live(v, q.id) THEN Write(v, k, v[k]) ELSE Nothing

\* The parameters' row is another than the entity's: nothing holds the entity
\* between this statement's look at it and the commit.
UpsertDeviceParams(v, q) ==
    LET k == <<"params", q.id>>
    IN  IF Live(v, q.id) THEN Write(v, k, [v[k] EXCEPT !.state = "live", !.type = q.config])
        ELSE Nothing

UpsertTagParams(v, q) ==
    LET k == <<"params", q.id>>
    IN  IF Live(v, q.id) THEN Write(v, k, [v[k] EXCEPT !.state = "live", !.type = q.config])
        ELSE Nothing

\* A tag's setpoints and scaling hang on its parameters.
UpsertExtra(v, q, table) ==
    LET k == <<table, q.id>>
    IN  IF Live(v, q.id) /\ v[<<"params", q.id>>].state = "live"
        THEN Write(v, k, [v[k] EXCEPT !.state = "live"]) ELSE Nothing

\* DELETE asks for the row only, not for the tag.
DeleteExtra(v, q, table) ==
    LET k == <<table, q.id>>
    IN  IF v[k].state = "live" THEN Write(v, k, [v[k] EXCEPT !.state = "absent"]) ELSE Nothing

UpsertTagSetpoints(v, q) == UpsertExtra(v, q, "setpoints")
UpsertTagScaling(v, q) == UpsertExtra(v, q, "scaling")
DeleteTagSetpointsRow(v, q) == DeleteExtra(v, q, "setpoints")
DeleteTagScalingRow(v, q) == DeleteExtra(v, q, "scaling")

DeleteSelf(v, q) == SoftDelete(v, {q.id} \cap {i \in Ids : Live(v, i)})

SoftDeleteTagsByDeviceID(v, q) == SoftDelete(v, LiveUnder(v, q.id, Tags))
SoftDeleteDevicesByObjectID(v, q) == SoftDelete(v, LiveUnder(v, q.id, Devices))
SoftDeleteDiagramsByObjectID(v, q) == SoftDelete(v, LiveUnder(v, q.id, Diagrams))
SoftDeleteFiguresByDiagramID(v, q) == SoftDelete(v, LiveUnder(v, q.id, Figures))

SoftDeleteTagsByObjectID(v, q) ==
    SoftDelete(v, UNION {LiveUnder(v, d, Tags) : d \in {d \in Devices : Parent(v, d) = q.id}})

SoftDeleteFiguresByObjectID(v, q) ==
    SoftDelete(v, UNION {LiveUnder(v, g, Figures) : g \in {g \in Diagrams : Parent(v, g) = q.id}})

\* SELECT ... FOR UPDATE keeps the rows its snapshot found, once they are free.
LockFigures(v, q) == [k \in {"row"} \X {f \in q.found : Live(v, f)} |-> v[k]]

UpdateKeptFigures(v, q) ==
    [k \in {"row", "params"} \X (q.keep \cap q.found) |->
        [v[k] EXCEPT !.state = "live", !.version = v[k].version + 1]]

SoftDeleteFiguresByIDs(v, q) == SoftDelete(v, q.found \ q.keep)

SoftDeleteFigureParams(v, q) ==
    [k \in {"params"} \X (q.found \ q.keep) |-> [v[k] EXCEPT !.state = "deleted"]]

Changes(s, v, q) ==
    CASE s = "insert_device"       -> InsertDevice(v, q)
      [] s = "insert_tag"          -> InsertTag(v, q)
      [] s = "insert_figures"      -> InsertFigures(v, q)
      [] s = "update_device"       -> UpdateDeviceRow(v, q)
      [] s = "assign_device"       -> AssignDeviceRow(v, q)
      [] s = "update_tag"          -> UpdateTagRow(v, q)
      [] s = "device_params"       -> UpsertDeviceParams(v, q)
      [] s = "tag_params"          -> UpsertTagParams(v, q)
      [] s = "upsert_setpoints"    -> UpsertTagSetpoints(v, q)
      [] s = "upsert_scaling"      -> UpsertTagScaling(v, q)
      [] s = "delete_setpoints"    -> DeleteTagSetpointsRow(v, q)
      [] s = "delete_scaling"      -> DeleteTagScalingRow(v, q)
      [] s = "self"                -> DeleteSelf(v, q)
      [] s = "tags_of_device"      -> SoftDeleteTagsByDeviceID(v, q)
      [] s = "tags_of_object"      -> SoftDeleteTagsByObjectID(v, q)
      [] s = "devices_of_object"   -> SoftDeleteDevicesByObjectID(v, q)
      [] s = "figures_of_object"   -> SoftDeleteFiguresByObjectID(v, q)
      [] s = "diagrams_of_object"  -> SoftDeleteDiagramsByObjectID(v, q)
      [] s = "figures_of_diagram"  -> SoftDeleteFiguresByDiagramID(v, q)
      [] s = "lock_figures"        -> LockFigures(v, q)
      [] s = "update_kept"         -> UpdateKeptFigures(v, q)
      [] s = "delete_rest"         -> SoftDeleteFiguresByIDs(v, q)
      [] s = "delete_rest_params"  -> SoftDeleteFigureParams(v, q)
      [] OTHER                     -> Nothing

\* A statement ends its request: the answer is "not found" because it changes nothing, or
\* because a bulk save was given an id that is not among the locked figures of its diagram;
\* or it names a column of figure_params that is not there.
Required == {"insert_device", "insert_tag", "update_device", "assign_device", "update_tag",
             "device_params", "tag_params", "upsert_setpoints", "upsert_scaling", "delete_setpoints",
             "delete_scaling", "self"}
NamesDeletedAt == {"update_kept", "delete_rest_params"}
Refused(q, s, changes) ==
    \/ s \in Required /\ DOMAIN changes = {}
    \/ s = "update_kept" /\ ~(q.keep \subseteq q.found)
    \/ s \in NamesDeletedAt /\ DOMAIN changes # {} /\ ~FigureParamsDeletedAt

\* A use case: whether it reads before it writes, the statements between that and
\* the commit, and whether it reads the entity again to announce it.
UseCase(checks, steps, rereads) ==
    [Idle EXCEPT !.phase = IF checks THEN "check" ELSE "run", !.todo = steps, !.rereads = rereads]

DeleteObjectPlan == <<"tags_of_object", "devices_of_object", "figures_of_object",
                      "diagrams_of_object", "self">>
\* mutant: the tags are forgotten
DeviceOnly == <<"self">>
DeleteDevicePlan == <<"tags_of_device", "self">>
DeleteDiagramPlan == <<"figures_of_diagram", "self">>
CreateTagPlan(cfg, extras) ==
    IF cfg = None THEN <<"insert_tag">>
    ELSE IF extras THEN <<"insert_tag", "tag_params", "upsert_setpoints", "upsert_scaling">>
    ELSE <<"insert_tag", "tag_params">>
\* mutant: the figures that are not in the request stay
BulkKeepsRest == <<"snapshot_figures", "lock_figures", "insert_figures", "update_kept">>
BulkPlan == <<"snapshot_figures", "lock_figures", "insert_figures", "update_kept",
              "delete_rest", "delete_rest_params">>

\* The settings are validated against the type before anything is written.
CreateDeviceUseCase == UseCase(FALSE, <<"insert_device", "device_params">>, FALSE)
\* The type may change; the settings and the tags' addresses are left as they are.
UpdateDeviceUseCase == UseCase(FALSE, <<"update_device">>, TRUE)
AssignDeviceUseCase == UseCase(FALSE, <<"assign_device">>, TRUE)
UpdateDeviceParamsUseCase == UseCase(TRUE, <<"device_params">>, TRUE)
DeleteDeviceUseCase == UseCase(TRUE, DeleteDevicePlan, FALSE)
CreateTagUseCase(cfg, extras) == UseCase(TRUE, CreateTagPlan(cfg, extras), FALSE)
UpdateTagUseCase == UseCase(FALSE, <<"update_tag">>, TRUE)
UpdateTagParamsUseCase == UseCase(TRUE, <<"tag_params">>, TRUE)
\* mutant: the setpoints are stored and not announced
SilentSetpoints == UseCase(TRUE, <<"upsert_setpoints">>, FALSE)
UpdateTagSetpointsUseCase == UseCase(TRUE, <<"upsert_setpoints">>, TRUE)
DeleteTagSetpointsUseCase == UseCase(TRUE, <<"delete_setpoints">>, TRUE)
UpdateTagScalingUseCase == UseCase(TRUE, <<"upsert_scaling">>, TRUE)
DeleteTagScalingUseCase == UseCase(TRUE, <<"delete_scaling">>, TRUE)
DeleteTagUseCase == UseCase(TRUE, <<"self">>, FALSE)
DeleteObjectUseCase == UseCase(FALSE, DeleteObjectPlan, FALSE)
DeleteDiagramUseCase == UseCase(FALSE, DeleteDiagramPlan, FALSE)
CreateFiguresUseCase == UseCase(FALSE, <<"insert_figures">>, FALSE)
BulkUpsertUseCase == UseCase(FALSE, BulkPlan, FALSE)
DeleteFigureUseCase == UseCase(FALSE, <<"self">>, FALSE)

-----------------------------------------------------------------------------
(* The handlers: a decoded request is given to its use case. *)

\* A new row's id is new: gen_random_uuid().
Fresh(id) ==
    /\ db[<<"row", id>>].state = "absent"
    /\ \A r \in Requests : req[r].id # id /\ id \notin req[r].new

\* A reference the database accepts: the row is there, deleted or not.
Exists(id) == db[<<"row", id>>].state # "absent"

Accept(r, q) ==
    /\ issued < MaxRequests
    /\ req[r].phase = "idle"
    /\ issued' = issued + 1
    /\ req' = [req EXCEPT ![r] = q]
    /\ meanwhile' = [meanwhile EXCEPT ![r] = {}]
    /\ UNCHANGED <<db, tx, locked, events, unsent, late, retyped, moved>>

ObjectOrNone == {None} \cup {o \in Objects : Exists(o)}

CreateDevice(r, d, o, ty) ==
    /\ Fresh(d) /\ o \in ObjectOrNone
    /\ Accept(r, [CreateDeviceUseCase EXCEPT !.op = "create_device", !.id = d, !.parent = o,
                                            !.type = ty, !.config = ty])

UpdateDevice(r, d, ty) ==
    /\ Exists(d)
    /\ Accept(r, [UpdateDeviceUseCase EXCEPT !.op = "update_device", !.id = d, !.type = ty])

AssignDeviceToObject(r, d, o) ==
    /\ Exists(d) /\ o \in ObjectOrNone
    /\ Accept(r, [AssignDeviceUseCase EXCEPT !.op = "assign_device", !.id = d, !.parent = o])

UpdateDeviceParams(r, d, cfg) ==
    /\ Exists(d)
    /\ Accept(r, [UpdateDeviceParamsUseCase EXCEPT !.op = "update_device_params", !.id = d,
                                                  !.config = cfg])

DeleteDevice(r, d) ==
    Exists(d) /\ Accept(r, [DeleteDeviceUseCase EXCEPT !.op = "delete_device", !.id = d])

\* Setpoints and scaling need parameters to hang on.
CreateTag(r, t, d, cfg, extras) ==
    /\ Fresh(t) /\ Exists(d)
    /\ extras => cfg # None
    /\ Accept(r, [CreateTagUseCase(cfg, extras) EXCEPT !.op = "create_tag", !.id = t, !.parent = d,
                                                      !.config = cfg])

UpdateTag(r, t) ==
    Exists(t) /\ Accept(r, [UpdateTagUseCase EXCEPT !.op = "update_tag", !.id = t])

UpdateTagParams(r, t, cfg) ==
    /\ Exists(t)
    /\ Accept(r, [UpdateTagParamsUseCase EXCEPT !.op = "update_tag_params", !.id = t, !.config = cfg])

UpdateTagSetpoints(r, t) ==
    Exists(t) /\ Accept(r, [UpdateTagSetpointsUseCase EXCEPT !.op = "tag_extras", !.id = t])

DeleteTagSetpoints(r, t) ==
    Exists(t) /\ Accept(r, [DeleteTagSetpointsUseCase EXCEPT !.op = "tag_extras", !.id = t])

UpdateTagScaling(r, t) ==
    Exists(t) /\ Accept(r, [UpdateTagScalingUseCase EXCEPT !.op = "tag_extras", !.id = t])

DeleteTagScaling(r, t) ==
    Exists(t) /\ Accept(r, [DeleteTagScalingUseCase EXCEPT !.op = "tag_extras", !.id = t])

DeleteTag(r, t) ==
    Exists(t) /\ Accept(r, [DeleteTagUseCase EXCEPT !.op = "delete_tag", !.id = t])

DeleteMonitoringObject(r, o) ==
    Exists(o) /\ Accept(r, [DeleteObjectUseCase EXCEPT !.op = "delete_object", !.id = o])

DeleteDiagram(r, g) ==
    Exists(g) /\ Accept(r, [DeleteDiagramUseCase EXCEPT !.op = "delete_diagram", !.id = g])

CreateFigures(r, g, new) ==
    /\ Exists(g)
    /\ new # {} /\ \A f \in new : Fresh(f)
    /\ Accept(r, [CreateFiguresUseCase EXCEPT !.op = "create_figures", !.id = g, !.new = new])

\* Items with an id are kept, items without one are new.
BulkUpsertFigures(r, g, keep, new) ==
    /\ Exists(g)
    /\ \A f \in new : Fresh(f)
    /\ \A f \in keep : Exists(f)
    /\ Accept(r, [BulkUpsertUseCase EXCEPT !.op = "bulk", !.id = g, !.keep = keep, !.new = new])

\* The figure's parameters stay.
DeleteFigure(r, f) ==
    Exists(f) /\ Accept(r, [DeleteFigureUseCase EXCEPT !.op = "delete_figure", !.id = f])

-----------------------------------------------------------------------------
(* The use cases: checks, statements, commit, re-read, event. *)

Reply(r) == req' = [req EXCEPT ![r] = Idle]

DeviceTypeOf(t) == db[<<"row", Parent(db, t)>>].type

\* mutant: the settings are not validated against the device's type
DeviceParamsUnchecked(q) == Live(db, q.id)

\* What a use case reads before it writes.
DeviceParamsAllowed(q) == Live(db, q.id) /\ q.config = db[<<"row", q.id>>].type
TagAllowed(q) ==
    /\ Live(db, q.parent)
    /\ q.config \in {None, db[<<"row", q.parent>>].type}
TagParamsAllowed(q) ==
    /\ Live(db, q.id)
    /\ Live(db, Parent(db, q.id))
    /\ q.config = DeviceTypeOf(q.id)
TagExtrasAllowed(q) == Live(db, q.id) /\ db[<<"params", q.id>>].state = "live"
DeleteAllowed(q) == Live(db, q.id)

Allowed(q) ==
    CASE q.op = "update_device_params" -> DeviceParamsAllowed(q)
      [] q.op = "create_tag"           -> TagAllowed(q)
      [] q.op = "update_tag_params"    -> TagParamsAllowed(q)
      [] q.op = "tag_extras"           -> TagExtrasAllowed(q)
      [] OTHER                         -> DeleteAllowed(q)

Check(r) ==
    /\ req[r].phase = "check"
    /\ IF Allowed(req[r]) THEN req' = [req EXCEPT ![r] = [req[r] EXCEPT !.phase = "run"]]
       ELSE Reply(r)
    /\ UNCHANGED <<db, tx, locked, issued, events, history>>

\* What a committed statement of a bulk save or a deletion will announce.
Touched(s, q, ids) ==
    CASE s = "insert_figures" /\ q.op = "bulk" -> {[id |-> i, op |-> "created"] : i \in q.new}
      [] s = "update_kept"                     -> {[id |-> i, op |-> "updated"] : i \in q.keep}
      [] s \in {"delete_rest", "self"}         -> {[id |-> i, op |-> "deleted"] : i \in ids}
      [] OTHER                                 -> {}

\* What a request knows after a statement; "began" is whether the parent was there
\* when the statement ran.
Attaches == {"insert_device", "insert_tag", "insert_figures", "assign_device"}
Knows(q, s, v, changes) ==
    LET parent == IF s = "insert_figures" THEN q.id ELSE q.parent
    IN  [q EXCEPT !.todo = Tail(q.todo),
                  !.found = IF s = "snapshot_figures" THEN LiveUnder(v, q.id, Figures)
                            ELSE IF s = "lock_figures" THEN {f \in q.found : Live(v, f)}
                            ELSE q.found,
                  !.began = IF s \in Attaches /\ parent # None THEN Live(db, parent) ELSE q.began,
                  !.touched = q.touched \cup Touched(s, q, {k[2] : k \in DOMAIN changes})]

\* No other transaction holds a row of these.
Free(r, keys) == \A o \in Requests \ {r} : keys \cap (DOMAIN tx[o] \cup locked[o]) = {}

\* A statement that changes several rows takes them one by one and holds them to the
\* end of the transaction.  PostgreSQL ends one of two statements that wait for each
\* other's rows with an error, which is Fail.  (A lock matters once another runs.)
LockRow(r) ==
    LET q == req[r]
        rows == DOMAIN Changes(Head(q.todo), View(r), q)
    IN  /\ q.phase = "run" /\ q.todo # <<>>
        /\ \E k \in rows \ (DOMAIN tx[r] \cup locked[r]) :
             /\ rows # {k} /\ db[k].state # "absent"
             /\ Free(r, {k})
             /\ locked' = [locked EXCEPT ![r] = @ \cup {k}]
        /\ \E o \in Requests \ {r} : req[o].phase = "run"
        /\ UNCHANGED store

Unlock(r) == locked' = [locked EXCEPT ![r] = {}]

Execute(r) ==
    LET q == req[r]
        s == Head(q.todo)
        v == View(r)
        changes == Changes(s, v, q)
    IN  /\ q.phase = "run" /\ q.todo # <<>>
        /\ Free(r, DOMAIN changes)
        /\ IF Refused(q, s, changes)
           THEN tx' = [tx EXCEPT ![r] = Nothing] /\ Reply(r) /\ Unlock(r)
           ELSE /\ tx' = [tx EXCEPT ![r] =
                            [k \in DOMAIN changes \cup DOMAIN tx[r] |->
                               IF k \in DOMAIN changes THEN changes[k] ELSE tx[r][k]]]
                /\ req' = [req EXCEPT ![r] = Knows(q, s, v, changes)]
                /\ UNCHANGED locked
        /\ UNCHANGED <<db, issued, events, history>>

Ancestors(id) ==
    LET p == IF id \in Objects THEN None ELSE Parent(db, id)
    IN  IF p = None THEN {} ELSE IF p \in Objects THEN {p} ELSE {p} \cup ({Parent(db, p)} \ {None})

\* An entity is put under a parent that is being deleted, or is deleted already;
\* a tag's INSERT looks at the device, so the device has gone since then.
TooLate(q, p) ==
    \/ ~Live(db, p) /\ (p \in Devices => q.began)
    \/ \E s \in Requests :
         /\ req[s].op \in {"delete_object", "delete_device", "delete_diagram"}
         /\ req[s].phase = "run" /\ req[s].id \in {p} \cup Ancestors(p)

Attached(r) ==
    CASE req[r].op \in {"create_device", "create_tag", "assign_device"} -> {req[r].id}
      [] req[r].op \in {"create_figures", "bulk"}                       -> req[r].new
      [] OTHER                                                          -> {}

Commit(r) ==
    LET q == req[r]
        p == IF q.op \in {"create_figures", "bulk"} THEN q.id ELSE q.parent
    IN  /\ q.phase = "run" /\ q.todo = <<>>
        /\ db' = View(r)
        /\ tx' = [tx EXCEPT ![r] = Nothing]
        /\ req' = [req EXCEPT ![r] =
             [q EXCEPT !.phase = IF q.rereads THEN "reread" ELSE "publish",
                       !.payload = IF q.op \in {"create_device", "create_tag"}
                                   THEN Entity(View(r), q.id) ELSE None]]
        /\ late' = IF Attached(r) # {} /\ p # None /\ TooLate(q, p) THEN late \cup Attached(r) ELSE late
        /\ retyped' = IF q.op = "update_device" /\ q.type # None THEN retyped \cup {q.id} ELSE retyped
        /\ moved' = IF q.op = "assign_device" THEN moved \cup {q.id} ELSE moved
        /\ meanwhile' = [s \in Requests |->
             IF s = r THEN meanwhile[s]
             ELSE meanwhile[s] \cup {k[2] : k \in DOMAIN tx[r] \cap ({"row"} \X Figures)}]
        /\ Unlock(r)
        /\ UNCHANGED <<issued, events, unsent>>

\* An answer of "not found", or an error, ends the request: nothing is announced.
Reread(r, works) ==
    LET q == req[r]
    IN  /\ q.phase = "reread"
        /\ IF works /\ Live(db, q.id)
           THEN req' = [req EXCEPT ![r] =
                         [q EXCEPT !.phase = "publish", !.payload = Entity(db, q.id)]]
           ELSE Reply(r)
        /\ unsent' = IF works THEN unsent ELSE unsent \cup {q.id}
        /\ UNCHANGED <<db, tx, locked, issued, events, late, retyped, moved, meanwhile>>

\* One event for the entity, or for each figure a bulk save touched.
Announcements(q) ==
    CASE q.payload # None -> {[id |-> q.id, op |-> IF q.rereads THEN "updated" ELSE "created",
                               payload |-> q.payload]}
      [] OTHER -> {[id |-> e.id, op |-> e.op, payload |-> None] : e \in q.touched}

\* A failure to send is logged and does not undo the edit.
Publish(r, sent) ==
    LET todo == Announcements(req[r])
    IN  /\ req[r].phase = "publish"
        /\ sent \subseteq todo
        /\ events' = events \cup sent
        /\ unsent' = unsent \cup {e.id : e \in todo \ sent}
        /\ Reply(r)
        /\ UNCHANGED <<db, tx, locked, issued, late, retyped, moved, meanwhile>>

\* A statement fails (a name already in use, a lost connection): rollback.
Fail(r) ==
    /\ StatementsFail
    /\ req[r].phase \in {"check", "run"}
    /\ tx' = [tx EXCEPT ![r] = Nothing]
    /\ Reply(r) /\ Unlock(r)
    /\ UNCHANGED <<db, issued, events, history>>

\* ms-editor stops: transactions are rolled back, committed edits stay unannounced.
Crash ==
    /\ issued < MaxRequests
    /\ issued' = issued + 1
    /\ tx' = [r \in Requests |-> Nothing]
    /\ locked' = [r \in Requests |-> {}]
    /\ req' = [r \in Requests |-> Idle]
    /\ unsent' = unsent \cup
         UNION {IF req[r].phase = "reread" THEN {req[r].id}
                ELSE IF req[r].phase = "publish" THEN {e.id : e \in Announcements(req[r])}
                ELSE {} : r \in Requests}
    /\ UNCHANGED <<db, events, late, retyped, moved, meanwhile>>

\* The bound on requests is reached and all are answered.
Rest ==
    /\ issued = MaxRequests
    /\ \A r \in Requests : req[r].phase = "idle"
    /\ UNCHANGED vars

InventoryRequest(r) ==
    \/ \E d \in Devices, o \in Objects \cup {None}, ty \in Types : CreateDevice(r, d, o, ty)
    \/ \E d \in Devices, ty \in Types \cup {None} : UpdateDevice(r, d, ty)
    \/ \E d \in Devices, o \in Objects \cup {None} : AssignDeviceToObject(r, d, o)
    \/ \E d \in Devices, cfg \in Types : UpdateDeviceParams(r, d, cfg)
    \/ \E d \in Devices : DeleteDevice(r, d)
    \/ \E t \in Tags, d \in Devices, cfg \in Types \cup {None}, extras \in BOOLEAN :
         CreateTag(r, t, d, cfg, extras)
    \/ \E t \in Tags :
         \/ UpdateTag(r, t) \/ DeleteTag(r, t)
         \/ UpdateTagSetpoints(r, t) \/ DeleteTagSetpoints(r, t)
         \/ UpdateTagScaling(r, t) \/ DeleteTagScaling(r, t)
    \/ \E t \in Tags, cfg \in Types : UpdateTagParams(r, t, cfg)

MimicRequest(r) ==
    \/ \E g \in Diagrams : DeleteDiagram(r, g)
    \/ \E g \in Diagrams, new \in SUBSET Figures : CreateFigures(r, g, new)
    \/ \E g \in Diagrams, keep \in SUBSET Figures, new \in SUBSET Figures :
         BulkUpsertFigures(r, g, keep, new)
    \/ \E f \in Figures : DeleteFigure(r, f)

Next ==
    \/ \E r \in Requests :
         \/ InventoryRequest(r) \/ MimicRequest(r)
         \/ \E o \in Objects : DeleteMonitoringObject(r, o)
         \/ Check(r) \/ LockRow(r) \/ Execute(r) \/ Commit(r) \/ Fail(r)
         \/ \E works \in BOOLEAN : Reread(r, works)
         \/ \E sent \in SUBSET Announcements(req[r]) : Publish(r, sent)
    \/ Crash
    \/ Rest

Spec == Init /\ [][Next]_vars

-----------------------------------------------------------------------------
(* What the lists show: the filters of their queries, without the pages. *)

ListMonitoringObjects == {o \in Objects : Live(db, o)}
ListDevices(object) == {d \in Devices : Live(db, d) /\ object \in {None, Parent(db, d)}}
ListDiagrams(object) == {g \in Diagrams : Live(db, g) /\ object \in {None, Parent(db, g)}}
ListFigures(diagram) == LiveUnder(db, diagram, Figures)

\* The device's row is joined whether it is deleted or not; only a filter on the
\* object asks that it is not.
ListTags(device, object) ==
    {t \in Tags :
       LET d == Parent(db, t)
       IN  /\ Live(db, t) /\ device \in {None, d}
           /\ object = None \/ (Live(db, d) /\ Parent(db, d) = object)}

-----------------------------------------------------------------------------
(* Properties. *)

TypeOK ==
    /\ db \in [Keys -> Row]
    /\ \A r \in Requests : DOMAIN tx[r] \subseteq Keys /\ \A k \in DOMAIN tx[r] : tx[r][k] \in Row
    /\ \A r \in Requests : req[r].phase \in {"idle", "check", "run", "reread", "publish"}
    /\ locked \in [Requests -> SUBSET Keys] /\ issued \in 0..MaxRequests
    /\ unsent \subseteq Ids /\ late \subseteq Ids /\ retyped \cup moved \subseteq Devices
    /\ meanwhile \in [Requests -> SUBSET Figures]

\* A deletion takes everything below with it: what the lists still show under a
\* deleted parent was put there while the deletion ran or after it, or was moved.
CascadeComplete ==
    /\ \A o \in Objects \ ListMonitoringObjects :
         /\ ListDevices(o) \cup ListDiagrams(o) \subseteq late
         /\ \A t \in ListTags(None, o) : Parent(db, t) \in late
    /\ \A d \in Devices \ ListDevices(None) : d \notin late => ListTags(d, None) \subseteq late
    /\ \A g \in Diagrams \ ListDiagrams(None) : g \notin late => ListFigures(g) \subseteq late

\* A row that is deleted stays as it is: every update asks for deleted_at IS NULL
\* once it has the row, also when it waited for the deletion to commit.
DeletedFrozen ==
    [][\A i \in Ids : db[<<"row", i>>].state = "deleted" => db'[<<"row", i>>] = db[<<"row", i>>]]_vars

\* The settings of a device and the address of a tag are valid for the type of
\* the device, unless the type was changed after they were written.
ConfigFitsType ==
    \A d \in Devices \ retyped :
        /\ Live(db, d) => db[<<"params", d>>].type = db[<<"row", d>>].type
        /\ \A t \in Tags : Live(db, t) /\ Parent(db, t) = d /\ db[<<"params", t>>].state = "live"
              => db[<<"params", t>>].type = db[<<"row", d>>].type

\* When nothing is going on, config.changed has the last state of every device and tag
\* that was edited, and tells of every entity that was deleted: of itself, or, when a
\* cascade took it, of its parent.  Exempt are an entity of which sending, reading again or
\* a crash lost an event, and a tag whose device was moved or put under an object while a
\* deletion ran: the object's deletion may have taken the tag and missed the device.
DeletionTold(i) ==
    \/ \E e \in events : e.id = i /\ e.op = "deleted"
    \/ Parent(db, i) # None /\ db[<<"row", Parent(db, i)>>].state = "deleted"
AnnouncedWhenQuiet ==
    (\A r \in Requests : req[r].phase = "idle") =>
        /\ \A i \in (Devices \cup Tags) \ unsent :
             Live(db, i) /\ (\E k \in Keys : k[2] = i /\ db[k].version > 0)
                 => \E e \in events : e.id = i /\ e.payload = Entity(db, i)
        /\ \A i \in Ids \ unsent :
             db[<<"row", i>>].state = "deleted" /\ ~(i \in Tags /\ Parent(db, i) \in moved \cup late)
                 => DeletionTold(i)

\* A bulk save leaves the figures it was given, and those that others committed
\* while it ran.
BulkReplaces ==
    [][\A r \in Requests :
         req[r].op = "bulk" /\ req[r].phase = "run" /\ req'[r].phase = "publish" =>
             (LiveUnder(db', req[r].id, Figures) \ meanwhile[r])
                = (req[r].keep \cup req[r].new) \ meanwhile[r]]_vars

\* What specs/0025 asks of a bulk save: a request whose figures are all there is carried
\* out, and the figures it leaves out are deleted.
BulkSucceeds ==
    [][\A r \in Requests :
         req[r].op = "bulk" /\ req[r].phase = "run" /\ req'[r] = Idle /\ issued' = issued
             => ~(req[r].keep \subseteq req[r].found)]_vars
==============================================================================
