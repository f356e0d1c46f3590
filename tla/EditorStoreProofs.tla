------------------------- MODULE EditorStoreProofs -------------------------
(***************************************************************************)
(* Proofs about EditorStore, for any inventory, any number of requests at  *)
(* a time and any number of them.                                          *)
(*                                                                         *)
(* What every proof rests on (Base): a request has a known plan and what   *)
(* its transaction has written is what its statements write; no two        *)
(* transactions hold a row together, and what is there has a parent that   *)
(* is there.  A commit of one request therefore changes nothing of what    *)
(* another has written.                                                    *)
(***************************************************************************)
EXTENDS EditorStore, SequenceTheorems, TLAPS

-----------------------------------------------------------------------------
(* Requests: their plans, and what may be left of them. *)

DeviceOps == {"create_device", "update_device", "assign_device", "update_device_params",
              "delete_device"}
TagOps == {"create_tag", "update_tag", "update_tag_params", "tag_extras", "delete_tag"}
DiagramOps == {"delete_diagram", "create_figures", "bulk"}
FigureOps == {"delete_figure"}
ObjectOps == {"delete_object"}
Announcing == {"update_device", "assign_device", "update_device_params", "update_tag",
               "update_tag_params", "tag_extras"}
Creating == {"create_device", "create_tag"}
Drawing == {"create_figures", "bulk"}

Kinds(q) ==
    /\ q.op \in DeviceOps \cup TagOps \cup DiagramOps \cup FigureOps \cup ObjectOps
    /\ q.op \in DeviceOps => q.id \in Devices
    /\ q.op \in TagOps => q.id \in Tags
    /\ q.op \in DiagramOps => q.id \in Diagrams
    /\ q.op \in FigureOps => q.id \in Figures
    /\ q.op \in ObjectOps => q.id \in Objects
    /\ q.op = "create_tag" => q.parent \in Devices
    /\ q.op \in {"create_device", "assign_device"} => q.parent \in Objects \cup {None}
    /\ q.rereads <=> q.op \in Announcing

\* The extras of a tag, each with its statement.
ExtraSteps == {"upsert_setpoints", "upsert_scaling", "delete_setpoints", "delete_scaling"}

\* What is left of each plan that takes several statements, the longest first.
One(s) == <<s>>
NextOf(todo) == Head(todo)
RestOf(todo) == Tail(todo)
Device2 == <<"insert_device", "device_params">>
Tag4 == <<"insert_tag", "tag_params", "upsert_setpoints", "upsert_scaling">>
TagWithParams == <<"insert_tag", "tag_params">>
Tag3 == <<"tag_params", "upsert_setpoints", "upsert_scaling">>
Tag2 == <<"upsert_setpoints", "upsert_scaling">>
Object4 == <<"devices_of_object", "figures_of_object", "diagrams_of_object", "self">>
Object3 == <<"figures_of_object", "diagrams_of_object", "self">>
Object2 == <<"diagrams_of_object", "self">>
Bulk5 == <<"lock_figures", "insert_figures", "update_kept", "delete_rest", "delete_rest_params">>
Bulk4 == <<"insert_figures", "update_kept", "delete_rest", "delete_rest_params">>
Bulk3 == <<"update_kept", "delete_rest", "delete_rest_params">>
Bulk2 == <<"delete_rest", "delete_rest_params">>

\* What may be left of a request's statements, and all of them.
Left(q, todo) ==
    /\ q.op = "create_device" => todo \in {Device2, One("device_params"), <<>>}
    /\ q.op = "update_device" => todo \in {One("update_device"), <<>>}
    /\ q.op = "assign_device" => todo \in {One("assign_device"), <<>>}
    /\ q.op = "update_device_params" => todo \in {One("device_params"), <<>>}
    /\ q.op = "delete_device" => todo \in {DeleteDevicePlan, One("self"), <<>>}
    /\ q.op = "create_tag" =>
         todo \in {One("insert_tag"), TagWithParams, One("tag_params"),
                   Tag4, Tag3, Tag2, One("upsert_scaling"), <<>>}
    /\ q.op = "create_tag" /\ q.config = None => todo \in {One("insert_tag"), <<>>}
    /\ q.op = "update_tag" => todo \in {One("update_tag"), <<>>}
    /\ q.op = "update_tag_params" => todo \in {One("tag_params"), <<>>}
    /\ q.op = "tag_extras" =>
         todo \in {One("upsert_setpoints"), One("upsert_scaling"), One("delete_setpoints"),
                   One("delete_scaling"), <<>>}
    /\ q.op = "delete_object" =>
         todo \in {DeleteObjectPlan, Object4, Object3, Object2, One("self"), <<>>}
    /\ q.op = "delete_diagram" => todo \in {DeleteDiagramPlan, One("self"), <<>>}
    /\ q.op = "create_figures" => todo \in {One("insert_figures"), <<>>}
    /\ q.op = "bulk" => todo \in {BulkPlan, Bulk5, Bulk4, Bulk3, Bulk2, One("delete_rest_params"), <<>>}
    /\ q.op \in {"delete_tag", "delete_figure"} => todo \in {One("self"), <<>>}

Whole(q) ==
    /\ Left(q, q.todo) /\ q.todo # <<>>
    /\ q.op = "create_device" => q.todo = Device2
    /\ q.op = "delete_device" => q.todo = DeleteDevicePlan
    /\ q.op = "create_tag" => q.todo \in {One("insert_tag"), TagWithParams, Tag4}
    /\ q.op = "delete_object" => q.todo = DeleteObjectPlan
    /\ q.op = "delete_diagram" => q.todo = DeleteDiagramPlan
    /\ q.op = "bulk" => q.todo = BulkPlan

Statements ==
    {"insert_device", "insert_tag", "insert_figures", "update_device", "assign_device",
     "update_tag", "device_params", "tag_params", "self", "tags_of_device", "tags_of_object",
     "devices_of_object", "figures_of_object", "diagrams_of_object", "figures_of_diagram",
     "snapshot_figures", "lock_figures", "update_kept", "delete_rest", "delete_rest_params"}
        \cup ExtraSteps

\* Whose statement it is.
Belongs(q, s) ==
    /\ s = "insert_device" => q.op = "create_device"
    /\ s = "insert_tag" => q.op = "create_tag"
    /\ s = "insert_figures" => q.op \in Drawing
    /\ s \in {"update_device", "assign_device", "update_tag"} => q.op = s
    /\ s = "device_params" => q.op \in {"create_device", "update_device_params"}
    /\ s = "tag_params" =>
         q.op = "update_tag_params" \/ (q.op = "create_tag" /\ q.config # None)
    /\ s \in ExtraSteps => q.op \in {"create_tag", "tag_extras"}
    /\ s = "tags_of_device" => q.op = "delete_device"
    /\ s \in {"tags_of_object", "devices_of_object", "figures_of_object", "diagrams_of_object"} =>
         q.op = "delete_object"
    /\ s = "figures_of_diagram" => q.op = "delete_diagram"
    /\ s = "self" => q.op \in {"delete_device", "delete_object", "delete_diagram", "delete_tag",
                               "delete_figure"}
    /\ s \in {"snapshot_figures", "lock_figures", "update_kept", "delete_rest",
              "delete_rest_params"} => q.op = "bulk"
    /\ s \in Statements

\* The statements of each plan, one after the other.
Plans ==
    /\ NextOf(Device2) = "insert_device" /\ RestOf(Device2) = One("device_params")
    /\ NextOf(DeleteDevicePlan) = "tags_of_device" /\ RestOf(DeleteDevicePlan) = One("self")
    /\ NextOf(DeleteDiagramPlan) = "figures_of_diagram" /\ RestOf(DeleteDiagramPlan) = One("self")
    /\ NextOf(Tag4) = "insert_tag" /\ RestOf(Tag4) = Tag3
    /\ NextOf(Tag3) = "tag_params" /\ RestOf(Tag3) = Tag2
    /\ NextOf(Tag2) = "upsert_setpoints" /\ RestOf(Tag2) = One("upsert_scaling")
    /\ NextOf(TagWithParams) = "insert_tag" /\ RestOf(TagWithParams) = One("tag_params")
    /\ NextOf(DeleteObjectPlan) = "tags_of_object" /\ RestOf(DeleteObjectPlan) = Object4
    /\ NextOf(Object4) = "devices_of_object" /\ RestOf(Object4) = Object3
    /\ NextOf(Object3) = "figures_of_object" /\ RestOf(Object3) = Object2
    /\ NextOf(Object2) = "diagrams_of_object" /\ RestOf(Object2) = One("self")
    /\ NextOf(BulkPlan) = "snapshot_figures" /\ RestOf(BulkPlan) = Bulk5
    /\ NextOf(Bulk5) = "lock_figures" /\ RestOf(Bulk5) = Bulk4
    /\ NextOf(Bulk4) = "insert_figures" /\ RestOf(Bulk4) = Bulk3
    /\ NextOf(Bulk3) = "update_kept" /\ RestOf(Bulk3) = Bulk2
    /\ NextOf(Bulk2) = "delete_rest" /\ RestOf(Bulk2) = One("delete_rest_params")
    /\ \A s : NextOf(One(s)) = s /\ RestOf(One(s)) = <<>> /\ One(s) # <<>>
    /\ \A plan \in {Device2, DeleteDevicePlan, DeleteDiagramPlan, Tag4, Tag3, Tag2, TagWithParams,
                    DeleteObjectPlan, Object4, Object3, Object2, BulkPlan, Bulk5, Bulk4, Bulk3,
                    Bulk2} : plan # <<>>
    \* Those that begin with the same statement.
    /\ Device2 # Tag4 /\ Tag3 # One("tag_params") /\ Tag2 # One("upsert_setpoints")
    /\ Tag4 # TagWithParams /\ Tag4 # One("insert_tag") /\ TagWithParams # One("insert_tag")

\* Each plan begins with its first statement and leaves the rest.
LEMMA PlanSteps == Plans
<1> USE DEF NextOf, RestOf, One, Device2, DeleteDevicePlan, DeleteDiagramPlan, Tag4, Tag3, Tag2, TagWithParams,
            DeleteObjectPlan, Object4, Object3, Object2, BulkPlan, Bulk5, Bulk4, Bulk3, Bulk2
<1>1. /\ NextOf(Device2) = "insert_device" /\ RestOf(Device2) = One("device_params")
      /\ NextOf(DeleteDevicePlan) = "tags_of_device" /\ RestOf(DeleteDevicePlan) = One("self")
      /\ NextOf(DeleteDiagramPlan) = "figures_of_diagram" /\ RestOf(DeleteDiagramPlan) = One("self")
  OBVIOUS
<1>2. /\ NextOf(Tag4) = "insert_tag" /\ RestOf(Tag4) = Tag3
      /\ NextOf(Tag3) = "tag_params" /\ RestOf(Tag3) = Tag2
      /\ NextOf(Tag2) = "upsert_setpoints" /\ RestOf(Tag2) = One("upsert_scaling")
      /\ NextOf(TagWithParams) = "insert_tag" /\ RestOf(TagWithParams) = One("tag_params")
  OBVIOUS
<1>3. /\ NextOf(DeleteObjectPlan) = "tags_of_object" /\ RestOf(DeleteObjectPlan) = Object4
      /\ NextOf(Object4) = "devices_of_object" /\ RestOf(Object4) = Object3
      /\ NextOf(Object3) = "figures_of_object" /\ RestOf(Object3) = Object2
      /\ NextOf(Object2) = "diagrams_of_object" /\ RestOf(Object2) = One("self")
  OBVIOUS
<1>4. /\ NextOf(BulkPlan) = "snapshot_figures" /\ RestOf(BulkPlan) = Bulk5
      /\ NextOf(Bulk5) = "lock_figures" /\ RestOf(Bulk5) = Bulk4
      /\ NextOf(Bulk4) = "insert_figures" /\ RestOf(Bulk4) = Bulk3
      /\ NextOf(Bulk3) = "update_kept" /\ RestOf(Bulk3) = Bulk2
      /\ NextOf(Bulk2) = "delete_rest" /\ RestOf(Bulk2) = One("delete_rest_params")
  OBVIOUS
<1>5. \A s : NextOf(One(s)) = s /\ RestOf(One(s)) = <<>> /\ One(s) # <<>>
  OBVIOUS
<1>6. \A plan \in {Device2, DeleteDevicePlan, DeleteDiagramPlan, Tag4, Tag3, Tag2, TagWithParams,
                    DeleteObjectPlan, Object4, Object3, Object2, BulkPlan, Bulk5, Bulk4, Bulk3,
                    Bulk2} : plan # <<>>
  OBVIOUS
<1>7. /\ Device2 # Tag4 /\ Tag3 # One("tag_params") /\ Tag2 # One("upsert_setpoints")
      /\ Tag4 # TagWithParams /\ Tag4 # One("insert_tag") /\ TagWithParams # One("insert_tag")
  OBVIOUS
<1> HIDE DEF NextOf, RestOf, One, Device2, DeleteDevicePlan, DeleteDiagramPlan, Tag4, Tag3, Tag2, TagWithParams,
            DeleteObjectPlan, Object4, Object3, Object2, BulkPlan, Bulk5, Bulk4, Bulk3, Bulk2
<1> QED BY <1>1, <1>2, <1>3, <1>4, <1>5, <1>6, <1>7 DEF Plans

\* A statement belongs to its operation, and leaves the rest of the plan.
LEMMA NextStatement ==
    ASSUME NEW q, Kinds(q), Left(q, q.todo), q.todo # <<>>
    PROVE  Belongs(q, NextOf(q.todo)) /\ Left(q, RestOf(q.todo))
<1> DEFINE s == NextOf(q.todo)
           rest == RestOf(q.todo)
<1>1. CASE q.op = "create_device"
  <2>1. \/ s = "insert_device" /\ rest = One("device_params")
        \/ s = "device_params" /\ rest = <<>>
    BY <1>1, PlanSteps DEF Left, Plans
  <2> HIDE DEF s, rest
  <2>2. Belongs(q, s)
    BY <1>1, <2>1 DEF Belongs, Statements, ExtraSteps, Drawing
  <2>3. Left(q, rest)
    BY <1>1, <2>1 DEF Left
  <2> QED BY <2>2, <2>3 DEF s, rest
<1>2. CASE q.op = "update_device"
  <2>1. s = "update_device" /\ rest = <<>>
    BY <1>2, PlanSteps DEF Left, Plans
  <2> HIDE DEF s, rest
  <2>2. Belongs(q, s)
    BY <1>2, <2>1 DEF Belongs, Statements, ExtraSteps, Drawing
  <2>3. Left(q, rest)
    BY <1>2, <2>1 DEF Left
  <2> QED BY <2>2, <2>3 DEF s, rest
<1>3. CASE q.op = "assign_device"
  <2>1. s = "assign_device" /\ rest = <<>>
    BY <1>3, PlanSteps DEF Left, Plans
  <2> HIDE DEF s, rest
  <2>2. Belongs(q, s)
    BY <1>3, <2>1 DEF Belongs, Statements, ExtraSteps, Drawing
  <2>3. Left(q, rest)
    BY <1>3, <2>1 DEF Left
  <2> QED BY <2>2, <2>3 DEF s, rest
<1>4. CASE q.op = "update_device_params"
  <2>1. s = "device_params" /\ rest = <<>>
    BY <1>4, PlanSteps DEF Left, Plans
  <2> HIDE DEF s, rest
  <2>2. Belongs(q, s)
    BY <1>4, <2>1 DEF Belongs, Statements, ExtraSteps, Drawing
  <2>3. Left(q, rest)
    BY <1>4, <2>1 DEF Left
  <2> QED BY <2>2, <2>3 DEF s, rest
<1>5. CASE q.op = "delete_device"
  <2>1. \/ s = "tags_of_device" /\ rest = One("self")
        \/ s = "self" /\ rest = <<>>
    BY <1>5, PlanSteps DEF Left, Plans
  <2> HIDE DEF s, rest
  <2>2. Belongs(q, s)
    BY <1>5, <2>1 DEF Belongs, Statements, ExtraSteps, Drawing
  <2>3. Left(q, rest)
    BY <1>5, <2>1 DEF Left
  <2> QED BY <2>2, <2>3 DEF s, rest
<1>6. CASE q.op = "create_tag"
  <2>1. \/ s = "insert_tag" /\ rest = <<>>
        \/ s = "insert_tag" /\ rest = One("tag_params") /\ q.config # None
        \/ s = "tag_params" /\ rest = <<>> /\ q.config # None
        \/ s = "insert_tag" /\ rest = Tag3 /\ q.config # None
        \/ s = "tag_params" /\ rest = Tag2 /\ q.config # None
        \/ s = "upsert_setpoints" /\ rest = One("upsert_scaling") /\ q.config # None
        \/ s = "upsert_scaling" /\ rest = <<>> /\ q.config # None
    BY <1>6, PlanSteps DEF Left, Plans
  <2> HIDE DEF s, rest
  <2>2. Belongs(q, s)
    BY <1>6, <2>1 DEF Belongs, Statements, ExtraSteps, Drawing
  <2>3. Left(q, rest)
    BY <1>6, <2>1 DEF Left
  <2> QED BY <2>2, <2>3 DEF s, rest
<1>7. CASE q.op = "update_tag"
  <2>1. s = "update_tag" /\ rest = <<>>
    BY <1>7, PlanSteps DEF Left, Plans
  <2> HIDE DEF s, rest
  <2>2. Belongs(q, s)
    BY <1>7, <2>1 DEF Belongs, Statements, ExtraSteps, Drawing
  <2>3. Left(q, rest)
    BY <1>7, <2>1 DEF Left
  <2> QED BY <2>2, <2>3 DEF s, rest
<1>8. CASE q.op = "update_tag_params"
  <2>1. s = "tag_params" /\ rest = <<>>
    BY <1>8, PlanSteps DEF Left, Plans
  <2> HIDE DEF s, rest
  <2>2. Belongs(q, s)
    BY <1>8, <2>1 DEF Belongs, Statements, ExtraSteps, Drawing
  <2>3. Left(q, rest)
    BY <1>8, <2>1 DEF Left
  <2> QED BY <2>2, <2>3 DEF s, rest
<1>9. CASE q.op = "tag_extras"
  <2>1. \/ s = "upsert_setpoints" /\ rest = <<>>
        \/ s = "upsert_scaling" /\ rest = <<>>
        \/ s = "delete_setpoints" /\ rest = <<>>
        \/ s = "delete_scaling" /\ rest = <<>>
    BY <1>9, PlanSteps DEF Left, Plans
  <2> HIDE DEF s, rest
  <2>2. Belongs(q, s)
    BY <1>9, <2>1 DEF Belongs, Statements, ExtraSteps, Drawing
  <2>3. Left(q, rest)
    BY <1>9, <2>1 DEF Left
  <2> QED BY <2>2, <2>3 DEF s, rest
<1>10. CASE q.op = "delete_object"
  <2>1. \/ s = "tags_of_object" /\ rest = Object4
        \/ s = "devices_of_object" /\ rest = Object3
        \/ s = "figures_of_object" /\ rest = Object2
        \/ s = "diagrams_of_object" /\ rest = One("self")
        \/ s = "self" /\ rest = <<>>
    BY <1>10, PlanSteps DEF Left, Plans
  <2> HIDE DEF s, rest
  <2>2. Belongs(q, s)
    BY <1>10, <2>1 DEF Belongs, Statements, ExtraSteps, Drawing
  <2>3. Left(q, rest)
    BY <1>10, <2>1 DEF Left
  <2> QED BY <2>2, <2>3 DEF s, rest
<1>11. CASE q.op = "delete_diagram"
  <2>1. \/ s = "figures_of_diagram" /\ rest = One("self")
        \/ s = "self" /\ rest = <<>>
    BY <1>11, PlanSteps DEF Left, Plans
  <2> HIDE DEF s, rest
  <2>2. Belongs(q, s)
    BY <1>11, <2>1 DEF Belongs, Statements, ExtraSteps, Drawing
  <2>3. Left(q, rest)
    BY <1>11, <2>1 DEF Left
  <2> QED BY <2>2, <2>3 DEF s, rest
<1>12. CASE q.op = "create_figures"
  <2>1. s = "insert_figures" /\ rest = <<>>
    BY <1>12, PlanSteps DEF Left, Plans
  <2> HIDE DEF s, rest
  <2>2. Belongs(q, s)
    BY <1>12, <2>1 DEF Belongs, Statements, ExtraSteps, Drawing
  <2>3. Left(q, rest)
    BY <1>12, <2>1 DEF Left
  <2> QED BY <2>2, <2>3 DEF s, rest
<1>13. CASE q.op = "bulk"
  <2>1. \/ s = "snapshot_figures" /\ rest = Bulk5
        \/ s = "lock_figures" /\ rest = Bulk4
        \/ s = "insert_figures" /\ rest = Bulk3
        \/ s = "update_kept" /\ rest = Bulk2
        \/ s = "delete_rest" /\ rest = One("delete_rest_params")
        \/ s = "delete_rest_params" /\ rest = <<>>
    BY <1>13, PlanSteps DEF Left, Plans
  <2> HIDE DEF s, rest
  <2>2. Belongs(q, s)
    BY <1>13, <2>1 DEF Belongs, Statements, ExtraSteps, Drawing
  <2>3. Left(q, rest)
    BY <1>13, <2>1 DEF Left
  <2> QED BY <2>2, <2>3 DEF s, rest
<1>14. CASE q.op = "delete_tag"
  <2>1. s = "self" /\ rest = <<>>
    BY <1>14, PlanSteps DEF Left, Plans
  <2> HIDE DEF s, rest
  <2>2. Belongs(q, s)
    BY <1>14, <2>1 DEF Belongs, Statements, ExtraSteps, Drawing
  <2>3. Left(q, rest)
    BY <1>14, <2>1 DEF Left
  <2> QED BY <2>2, <2>3 DEF s, rest
<1>15. CASE q.op = "delete_figure"
  <2>1. s = "self" /\ rest = <<>>
    BY <1>15, PlanSteps DEF Left, Plans
  <2> HIDE DEF s, rest
  <2>2. Belongs(q, s)
    BY <1>15, <2>1 DEF Belongs, Statements, ExtraSteps, Drawing
  <2>3. Left(q, rest)
    BY <1>15, <2>1 DEF Left
  <2> QED BY <2>2, <2>3 DEF s, rest
<1> QED BY <1>1, <1>2, <1>3, <1>4, <1>5, <1>6, <1>7, <1>8, <1>9, <1>10, <1>11, <1>12, <1>13, <1>14, <1>15
      DEF Kinds, DeviceOps, TagOps, DiagramOps, FigureOps, ObjectOps

Inserting == {"insert_device", "insert_tag", "insert_figures"}
Updating == {"update_device", "assign_device", "update_tag"}
Cascading == {"tags_of_device", "tags_of_object", "devices_of_object", "figures_of_object",
              "diagrams_of_object", "figures_of_diagram"}
Deleting == {"self", "delete_rest"} \cup Cascading

\* The entity a request creates, or those it creates.
Creates(q) ==
    IF q.op \in Creating THEN {q.id} ELSE IF q.op \in Drawing THEN q.new ELSE {}

Phases == {"idle", "check", "run", "reread", "publish"}
Touch == [id : Ids, op : {"created", "updated", "deleted"}]
Todos == {<<>>} \cup {One(s) : s \in Statements} \cup
         {Device2, DeleteDevicePlan, DeleteDiagramPlan, Tag4, Tag3, Tag2, TagWithParams,
          DeleteObjectPlan, Object4, Object3, Object2, BulkPlan, Bulk5, Bulk4, Bulk3, Bulk2}
Ops == {"none"} \cup DeviceOps \cup TagOps \cup DiagramOps \cup FigureOps \cup ObjectOps
Request ==
    [op : Ops, phase : Phases, id : Ids \cup {None}, parent : Ids \cup {None},
     type : Types \cup {None}, config : Types \cup {None}, keep : SUBSET Figures,
     new : SUBSET Figures, todo : Todos, rereads : BOOLEAN, found : SUBSET Figures,
     began : BOOLEAN, touched : SUBSET Touch, payload : Payload \cup {None}]

\* The entities a statement deletes.
Dooms(s, v, q, i) ==
    /\ i \in Ids
    /\ s # "delete_rest" => Live(v, i)
    /\ s = "self" => i = q.id
    /\ s = "delete_rest" => i \in q.found \ q.keep
    /\ s = "tags_of_device" => i \in Tags /\ Parent(v, i) = q.id
    /\ s = "devices_of_object" => i \in Devices /\ Parent(v, i) = q.id
    /\ s = "diagrams_of_object" => i \in Diagrams /\ Parent(v, i) = q.id
    /\ s = "figures_of_diagram" => i \in Figures /\ Parent(v, i) = q.id
    /\ s = "tags_of_object" =>
         i \in Tags /\ Parent(v, i) \in Devices /\ Parent(v, Parent(v, i)) = q.id
    /\ s = "figures_of_object" =>
         i \in Figures /\ Parent(v, i) \in Diagrams /\ Parent(v, Parent(v, i)) = q.id

Buried(row) == [row EXCEPT !.state = "deleted"]

\* c is what a statement that deletes changes.
Burial(s, v, q, c) ==
    /\ \A i : <<"row", i>> \in DOMAIN c <=> Dooms(s, v, q, i)
    /\ \A k \in DOMAIN c : k = <<"row", k[2]>>
    /\ \A i : <<"row", i>> \in DOMAIN c => c[<<"row", i>>] = Buried(v[<<"row", i>>])

\* The keys, and whose they are.
LEMMA KeyFacts ==
    /\ \A k \in Keys : /\ k = <<k[1], k[2]>> /\ k[2] \in Ids
                       /\ k[1] \in {"row", "params", "setpoints", "scaling"}
                       /\ k[1] = "params" => k[2] \in Devices \cup Tags \cup Figures
                       /\ k[1] \in Extras => k[2] \in Tags
    /\ \A i \in Ids : <<"row", i>> \in Keys
    /\ \A i \in Devices \cup Tags \cup Figures : <<"params", i>> \in Keys
    /\ \A i \in Tags : <<"setpoints", i>> \in Keys /\ <<"scaling", i>> \in Keys
    /\ Devices \subseteq Ids /\ Tags \subseteq Ids /\ Diagrams \subseteq Ids
    /\ Figures \subseteq Ids /\ Objects \subseteq Ids
BY DEF Keys, Ids, Extras

\* A soft delete changes the rows of its entities, and buries them.
LEMMA SoftDeleteFacts ==
    ASSUME NEW v, NEW ids, NEW c, c = SoftDelete(v, ids)
    PROVE  /\ \A i : <<"row", i>> \in DOMAIN c <=> i \in ids
           /\ \A k \in DOMAIN c : k = <<"row", k[2]>>
           /\ \A i : <<"row", i>> \in DOMAIN c => c[<<"row", i>>] = Buried(v[<<"row", i>>])
BY DEF SoftDelete, Buried

\* A statement that deletes buries the rows it dooms.
LEMMA DeletingFacts ==
    ASSUME NEW v \in [Keys -> Row], NEW q \in Request, NEW s \in Deleting,
           NEW c, c = Changes(s, v, q)
    PROVE  Burial(s, v, q, c)
<1>1. ASSUME NEW ids, \A i : i \in ids <=> Dooms(s, v, q, i), c = SoftDelete(v, ids)
      PROVE  Burial(s, v, q, c)
  BY <1>1, SoftDeleteFacts DEF Burial
<1>2. CASE s = "self"
  <2>1. c = SoftDelete(v, {q.id} \cap {i \in Ids : Live(v, i)})
    BY <1>2 DEF Changes, DeleteSelf
  <2>2. \A i : i \in {q.id} \cap {x \in Ids : Live(v, x)} <=> Dooms(s, v, q, i)
    BY <1>2, KeyFacts DEF Dooms
  <2> QED BY <2>1, <2>2, <1>1
<1>3. CASE s = "delete_rest"
  <2>1. c = SoftDelete(v, q.found \ q.keep)
    BY <1>3 DEF Changes, SoftDeleteFiguresByIDs
  <2>2. \A i : i \in q.found \ q.keep <=> Dooms(s, v, q, i)
    BY <1>3, KeyFacts DEF Dooms, Request
  <2> QED BY <2>1, <2>2, <1>1
<1>4. CASE s = "tags_of_device"
  <2>1. c = SoftDelete(v, LiveUnder(v, q.id, Tags))
    BY <1>4 DEF Changes, SoftDeleteTagsByDeviceID
  <2>2. \A i : i \in LiveUnder(v, q.id, Tags) <=> Dooms(s, v, q, i)
    BY <1>4, KeyFacts DEF Dooms, LiveUnder
  <2> QED BY <2>1, <2>2, <1>1
<1>5. CASE s = "devices_of_object"
  <2>1. c = SoftDelete(v, LiveUnder(v, q.id, Devices))
    BY <1>5 DEF Changes, SoftDeleteDevicesByObjectID
  <2>2. \A i : i \in LiveUnder(v, q.id, Devices) <=> Dooms(s, v, q, i)
    BY <1>5, KeyFacts DEF Dooms, LiveUnder
  <2> QED BY <2>1, <2>2, <1>1
<1>6. CASE s = "diagrams_of_object"
  <2>1. c = SoftDelete(v, LiveUnder(v, q.id, Diagrams))
    BY <1>6 DEF Changes, SoftDeleteDiagramsByObjectID
  <2>2. \A i : i \in LiveUnder(v, q.id, Diagrams) <=> Dooms(s, v, q, i)
    BY <1>6, KeyFacts DEF Dooms, LiveUnder
  <2> QED BY <2>1, <2>2, <1>1
<1>7. CASE s = "figures_of_diagram"
  <2>1. c = SoftDelete(v, LiveUnder(v, q.id, Figures))
    BY <1>7 DEF Changes, SoftDeleteFiguresByDiagramID
  <2>2. \A i : i \in LiveUnder(v, q.id, Figures) <=> Dooms(s, v, q, i)
    BY <1>7, KeyFacts DEF Dooms, LiveUnder
  <2> QED BY <2>1, <2>2, <1>1
<1>8. CASE s = "tags_of_object"
  <2> DEFINE ids == UNION {LiveUnder(v, d, Tags) : d \in {d \in Devices : Parent(v, d) = q.id}}
  <2>1. c = SoftDelete(v, ids)
    BY <1>8 DEF Changes, SoftDeleteTagsByObjectID
  <2>2. \A i : i \in ids <=> \E d \in Devices : Parent(v, d) = q.id /\ i \in LiveUnder(v, d, Tags)
    OBVIOUS
  <2>3. \A i : i \in ids <=> Dooms(s, v, q, i)
    BY <2>2, <1>8, KeyFacts DEF Dooms, LiveUnder
  <2> QED BY <2>1, <2>3, <1>1
<1>9. CASE s = "figures_of_object"
  <2> DEFINE ids == UNION {LiveUnder(v, g, Figures) : g \in {g \in Diagrams : Parent(v, g) = q.id}}
  <2>1. c = SoftDelete(v, ids)
    BY <1>9 DEF Changes, SoftDeleteFiguresByObjectID
  <2>2. \A i : i \in ids <=> \E g \in Diagrams : Parent(v, g) = q.id /\ i \in LiveUnder(v, g, Figures)
    OBVIOUS
  <2>3. \A i : i \in ids <=> Dooms(s, v, q, i)
    BY <2>2, <1>9, KeyFacts DEF Dooms, LiveUnder
  <2> QED BY <2>1, <2>3, <1>1
<1> QED BY <1>2, <1>3, <1>4, <1>5, <1>6, <1>7, <1>8, <1>9 DEF Deleting, Cascading

\* What a statement other than a deletion makes of a row.
Insertion(s, q, i, new) ==
    /\ s \in Inserting /\ i \in Creates(q)
    /\ new.state = "live"
    /\ new.parent = IF s = "insert_figures" THEN q.id ELSE q.parent
    /\ new.type = IF s = "insert_device" THEN q.type ELSE None

Update(s, v, q, i, new) ==
    /\ s \in Updating \cup {"lock_figures", "update_kept"}
    /\ (s \in Updating => i = q.id /\ Live(v, i))
    /\ (s = "lock_figures" => i \in q.found /\ Live(v, i))
    /\ (s = "update_kept" => i \in q.keep \cap q.found)
    /\ new.state = "live"
    /\ new.parent = IF s = "assign_device" THEN q.parent ELSE Parent(v, i)
    /\ new.type = IF s = "update_device" /\ q.type # None THEN q.type ELSE v[<<"row", i>>].type

Settings(s, v, q, i, new) ==
    \/ s = "insert_figures" /\ i \in q.new
    \/ /\ s \in {"device_params", "tag_params"} /\ i = q.id /\ Live(v, i)
       /\ new.state = "live" /\ new.type = q.config
    \/ s = "update_kept" /\ i \in q.keep \cap q.found
    \/ s = "delete_rest_params" /\ i \in q.found \ q.keep

Deletion(s, v, q, i, new) ==
    s \in Deleting /\ Dooms(s, v, q, i) /\ new = Buried(v[<<"row", i>>])

Change(s, v, q, k, new) ==
    /\ k \in Keys /\ new \in Row
    /\ (k[1] = "row" => \/ Insertion(s, q, k[2], new) \/ Update(s, v, q, k[2], new)
                        \/ Deletion(s, v, q, k[2], new))
    /\ (k[1] = "params" => Settings(s, v, q, k[2], new))
    /\ (k[1] \in Extras => s \in ExtraSteps /\ k[2] = q.id)

Effect(s, v, q, c) == \A k \in DOMAIN c : Change(s, v, q, k, c[k])

\* A row written with a new version.
Version(new, row) ==
    new \in Row /\ new.state = row.state /\ new.parent = row.parent /\ new.type = row.type

\* A write changes one key and gives it a new version.
LEMMA WriteFacts ==
    ASSUME NEW v \in [Keys -> Row], NEW k \in Keys, NEW row \in Row, NEW c, c = Write(v, k, row)
    PROVE  DOMAIN c = {k} /\ Version(c[k], row)
BY DEF Write, Row, Version

\* Burying a row changes its state only.
LEMMA BuriedFacts ==
    ASSUME NEW row \in Row
    PROVE  /\ Buried(row) \in Row /\ Buried(row).state = "deleted"
           /\ Buried(row).parent = row.parent /\ Buried(row).type = row.type
BY DEF Buried, Row

\* Nothing has no keys.
LEMMA NothingFacts == DOMAIN Nothing = {}
BY DEF Nothing

\* What a statement that deletes may change.
LEMMA EffectOfDeleting ==
    ASSUME NEW v \in [Keys -> Row], NEW q \in Request, NEW s \in Deleting,
           NEW c, c = Changes(s, v, q)
    PROVE  Effect(s, v, q, c)
<1>1. Burial(s, v, q, c)
  BY DeletingFacts
<1> SUFFICES ASSUME NEW k \in DOMAIN c
             PROVE  Change(s, v, q, k, c[k])
  BY DEF Effect
<1>2. PICK i : k = <<"row", i>>
  BY <1>1 DEF Burial
<1>3. k[1] = "row" /\ k[2] = i
  BY <1>2
<1>4. Dooms(s, v, q, i) /\ c[k] = Buried(v[<<"row", i>>])
  BY <1>1, <1>2 DEF Burial
<1>5. i \in Ids /\ k \in Keys
  BY <1>2, <1>4, KeyFacts DEF Dooms
<1>6. c[k] \in Row
  BY <1>2, <1>4, <1>5, BuriedFacts
<1>7. Deletion(s, v, q, k[2], c[k])
  BY <1>3, <1>4 DEF Deletion
<1> QED BY <1>3, <1>5, <1>6, <1>7 DEF Change, Extras

\* What a request creates, by its operation.
LEMMA CreatesFacts ==
    ASSUME NEW q
    PROVE  /\ q.op \in {"create_device", "create_tag"} => q.id \in Creates(q)
           /\ q.op \in Creating => Creates(q) = {q.id}
           /\ q.op \in Drawing => Creates(q) = q.new
           /\ q.op \notin Creating \cup Drawing => Creates(q) = {}
BY DEF Creates, Creating, Drawing

\* What a statement that inserts may change.
LEMMA EffectOfInserting ==
    ASSUME NEW v \in [Keys -> Row], NEW q \in Request, Kinds(q), NEW s \in Inserting, Belongs(q, s),
           NEW c, c = Changes(s, v, q)
    PROVE  Effect(s, v, q, c)
<1>1. CASE s = "insert_device"
  <2>1. PICK row : row = [Absent EXCEPT !.state = "live", !.parent = q.parent, !.type = q.type]
    OBVIOUS
  <2>2. row \in Row /\ row.state = "live" /\ row.parent = q.parent /\ row.type = q.type
    BY <2>1 DEF Row, Absent, Request
  <2> PICK k : k = <<"row", q.id>>
    OBVIOUS
  <2>9. c = Write(v, k, row)
    BY <1>1, <2>1 DEF Changes, InsertDevice
  <2>3. q.op = "create_device" /\ q.id \in Ids
    BY <1>1, KeyFacts DEF Belongs, Kinds, DeviceOps
  <2>4. k \in Keys /\ k[1] = "row" /\ k[2] = q.id /\ v[k] \in Row
    BY <2>3, KeyFacts
  <2>2a. row \in Row
    BY <2>2
  <2>4a. k \in Keys
    BY <2>4
  <2>5. DOMAIN c = {k} /\ Version(c[k], row)
    BY <2>9, <2>2a, <2>4a, WriteFacts
  <2>6. Insertion(s, q, q.id, c[k])
    BY <1>1, <2>2, <2>3, <2>5, CreatesFacts DEF Insertion, Inserting, Version
  <2>7. Change(s, v, q, k, c[k])
    BY <2>4, <2>5, <2>6 DEF Change, Extras, Version
  <2> QED BY <2>5, <2>7 DEF Effect
<1>2. CASE s = "insert_tag"
  <2>9. PICK row : row = [Absent EXCEPT !.state = "live", !.parent = q.parent]
    OBVIOUS
  <2>2. row \in Row /\ row.state = "live" /\ row.parent = q.parent /\ row.type = None
    BY <2>9 DEF Row, Absent, Request
  <2> PICK k : k = <<"row", q.id>>
    OBVIOUS
  <2>1. c = Write(v, k, row) \/ c = Nothing
    BY <1>2, <2>9 DEF Changes, InsertTag
  <2>3. q.op = "create_tag" /\ q.id \in Ids
    BY <1>2, KeyFacts DEF Belongs, Kinds, TagOps
  <2>4. k \in Keys /\ k[1] = "row" /\ k[2] = q.id /\ v[k] \in Row
    BY <2>3, KeyFacts
  <2>5. CASE c = Nothing
    BY <2>5, NothingFacts DEF Effect
  <2>6. CASE c = Write(v, k, row)
    <3>2. row \in Row
      BY <2>2
    <3>4. k \in Keys
      BY <2>4
    <3>5. DOMAIN c = {k} /\ Version(c[k], row)
      BY <2>6, <3>2, <3>4, WriteFacts
    <3>6. Insertion(s, q, q.id, c[k])
      BY <1>2, <2>2, <2>3, <3>5, CreatesFacts DEF Insertion, Inserting, Version
    <3>7. Change(s, v, q, k, c[k])
      BY <2>4, <3>5, <3>6 DEF Change, Extras, Version
    <3> QED BY <3>5, <3>7 DEF Effect
  <2> QED BY <2>1, <2>5, <2>6
<1>3. CASE s = "insert_figures"
  <2> DEFINE row(k) == [Absent EXCEPT !.state = "live", !.version = 1,
                                      !.parent = IF k[1] = "row" THEN q.id ELSE None]
  <2>1. c = [k \in {"row", "params"} \X q.new |-> row(k)]
    BY <1>3 DEF Changes, InsertFigures
  <2>2. q.op \in Drawing /\ q.id \in Ids /\ q.new \subseteq Figures
    BY <1>3, KeyFacts DEF Belongs, Kinds, DiagramOps, Drawing, Request
  <2> SUFFICES ASSUME NEW k \in DOMAIN c
               PROVE  Change(s, v, q, k, c[k])
    BY DEF Effect
  <2>1a. DOMAIN c = {"row", "params"} \X q.new
    BY <2>1
  <2>8. c[k] = row(k)
    BY <2>1
  <2>3. k[1] \in {"row", "params"} /\ k[2] \in q.new /\ k = <<k[1], k[2]>>
    BY <2>1a
  <2>4. k \in Keys
    BY <2>2, <2>3, KeyFacts
  <2>5. /\ row(k) \in Row /\ row(k).state = "live" /\ row(k).type = None
        /\ (k[1] = "row" => row(k).parent = q.id)
    BY <2>2 DEF Row, Absent
  <2>6. k[1] = "row" => Insertion(s, q, k[2], c[k])
    BY <1>3, <2>2, <2>3, <2>8, <2>5, CreatesFacts DEF Insertion, Inserting, Version
  <2>7. k[1] = "params" => Settings(s, v, q, k[2], c[k])
    BY <1>3, <2>3 DEF Settings
  <2> QED BY <2>3, <2>4, <2>5, <2>8, <2>6, <2>7 DEF Change, Extras
<1> QED BY <1>1, <1>2, <1>3 DEF Inserting

\* A change of one row, or none.
LEMMA OneChange ==
    ASSUME NEW v \in [Keys -> Row], NEW q, NEW s, NEW k \in Keys, NEW row \in Row,
           NEW c, c \in {Write(v, k, row), Nothing},
           \A new : c # Nothing /\ Version(new, row) => Change(s, v, q, k, new)
    PROVE  Effect(s, v, q, c)
<1>1. CASE c = Nothing
  BY <1>1, NothingFacts DEF Effect
<1>2. CASE c # Nothing
  <2>1. DOMAIN c = {k} /\ Version(c[k], row)
    BY <1>2, WriteFacts
  <2> QED BY <1>2, <2>1 DEF Effect
<1> QED BY <1>1, <1>2

\* What a statement that updates an entity may change.
LEMMA EffectOfUpdating ==
    ASSUME NEW v \in [Keys -> Row], NEW q \in Request, Kinds(q), NEW s \in Updating, Belongs(q, s),
           NEW c, c = Changes(s, v, q)
    PROVE  Effect(s, v, q, c)
<1>1. q.op = s /\ q.id \in Ids
  BY KeyFacts DEF Belongs, Updating, Kinds, DeviceOps, TagOps
<1>2. PICK k : k = <<"row", q.id>>
  OBVIOUS
<1>3. k \in Keys
  BY <1>1, <1>2, KeyFacts
<1>4. k[1] = "row" /\ k[2] = q.id
  BY <1>2
<1>5. v[k] \in Row
  BY <1>3
<1>6. PICK row \in Row : /\ c \in {Write(v, k, row), Nothing}
                         /\ c # Nothing => Live(v, q.id)
                         /\ row.parent = IF s = "assign_device" THEN q.parent ELSE v[k].parent
                         /\ row.type = IF s = "update_device" /\ q.type # None THEN q.type ELSE v[k].type
                         /\ row.state = v[k].state
  <2>1. CASE s = "update_device"
    <3>1. PICK row : row = [v[k] EXCEPT !.type = IF q.type = None THEN v[k].type ELSE q.type]
      OBVIOUS
    <3>2. /\ row \in Row /\ row.parent = v[k].parent /\ row.state = v[k].state
          /\ row.type = IF q.type # None THEN q.type ELSE v[k].type
      BY <3>1, <1>5 DEF Row, Request
    <3>3. c = IF Live(v, q.id) THEN Write(v, k, row) ELSE Nothing
      BY <2>1, <3>1, <1>2 DEF Changes, UpdateDeviceRow
    <3> QED BY <2>1, <3>2, <3>3
  <2>2. CASE s = "assign_device"
    <3>1. PICK row : row = [v[k] EXCEPT !.parent = q.parent]
      OBVIOUS
    <3>2. /\ row \in Row /\ row.parent = q.parent /\ row.state = v[k].state
          /\ row.type = v[k].type
      BY <3>1, <1>5 DEF Row, Request
    <3>3. c = IF Live(v, q.id) THEN Write(v, k, row) ELSE Nothing
      BY <2>2, <3>1, <1>2 DEF Changes, AssignDeviceRow
    <3> QED BY <2>2, <3>2, <3>3
  <2>3. CASE s = "update_tag"
    <3>3. c = IF Live(v, q.id) THEN Write(v, k, v[k]) ELSE Nothing
      BY <2>3, <1>2 DEF Changes, UpdateTagRow
    <3> QED BY <2>3, <3>3, <1>5
  <2> QED BY <2>1, <2>2, <2>3 DEF Updating
<1>7. ASSUME NEW new, c # Nothing, Version(new, row)
      PROVE  Change(s, v, q, k, new)
  <2>1. Live(v, q.id)
    BY <1>6, <1>7
  <2>2. v[k].state = "live" /\ v[k].parent = Parent(v, q.id) /\ v[k] = v[<<"row", q.id>>]
    BY <2>1, <1>2 DEF Live, Parent
  <2>3. Update(s, v, q, q.id, new)
    BY <1>6, <1>7, <2>1, <2>2 DEF Update, Version, Updating
  <2> QED BY <2>3, <1>3, <1>4, <1>7 DEF Change, Extras, Version
<1> QED BY <1>3, <1>6, <1>7, OneChange

\* What the upsert of settings or an address may change.
LEMMA EffectOfParams ==
    ASSUME NEW v \in [Keys -> Row], NEW q \in Request, Kinds(q),
           NEW s \in {"device_params", "tag_params"}, Belongs(q, s),
           NEW c, c = Changes(s, v, q)
    PROVE  Effect(s, v, q, c)
<1>1. q.id \in Devices \cup Tags
  BY DEF Belongs, Kinds, DeviceOps, TagOps
<1>2. PICK k : k = <<"params", q.id>>
  OBVIOUS
<1>3. k \in Keys
  BY <1>1, <1>2, KeyFacts
<1>4. k[1] = "params" /\ k[2] = q.id
  BY <1>2
<1>5. v[k] \in Row
  BY <1>3
<1>6. PICK row : row = [v[k] EXCEPT !.state = "live", !.type = q.config]
  OBVIOUS
<1>7. row \in Row
  BY <1>5, <1>6 DEF Row, Request
<1>8. row.state = "live" /\ row.type = q.config
  BY <1>5, <1>6 DEF Row
<1>9. c = IF Live(v, q.id) THEN Write(v, k, row) ELSE Nothing
  BY <1>2, <1>6 DEF Changes, UpsertDeviceParams, UpsertTagParams
<1>10. ASSUME NEW new, c # Nothing, Version(new, row)
       PROVE  Change(s, v, q, k, new)
  <2>1. Settings(s, v, q, q.id, new)
    BY <1>8, <1>9, <1>10 DEF Settings, Version
  <2> QED BY <2>1, <1>3, <1>4, <1>10 DEF Change, Extras, Version
<1> QED BY <1>3, <1>7, <1>9, <1>10, OneChange

\* What a statement on the setpoints or the scaling may change.
LEMMA EffectOfExtras ==
    ASSUME NEW v \in [Keys -> Row], NEW q \in Request, Kinds(q), NEW s \in ExtraSteps, Belongs(q, s),
           NEW c, c = Changes(s, v, q)
    PROVE  Effect(s, v, q, c)
<1>1. q.id \in Tags
  BY DEF Belongs, Kinds, TagOps
<1>2. PICK table \in Extras : c = UpsertExtra(v, q, table) \/ c = DeleteExtra(v, q, table)
  BY DEF ExtraSteps, Extras, Changes, UpsertTagSetpoints, UpsertTagScaling, DeleteTagSetpointsRow,
         DeleteTagScalingRow
<1>3. PICK k : k = <<table, q.id>>
  OBVIOUS
<1>4. k \in Keys
  BY <1>1, <1>2, <1>3, KeyFacts DEF Extras
<1>5. k[1] = table /\ k[2] = q.id
  BY <1>3
<1>6. v[k] \in Row
  BY <1>4
<1>7. PICK row \in Row : c \in {Write(v, k, row), Nothing}
  <2>1. [v[k] EXCEPT !.state = "live"] \in Row /\ [v[k] EXCEPT !.state = "absent"] \in Row
    BY <1>6 DEF Row
  <2>2. CASE c = UpsertExtra(v, q, table)
    BY <2>1, <2>2, <1>3 DEF UpsertExtra
  <2>3. CASE c = DeleteExtra(v, q, table)
    BY <2>1, <2>3, <1>3 DEF DeleteExtra
  <2> QED BY <2>2, <2>3, <1>2
<1>8. ASSUME NEW new, Version(new, row)
      PROVE  Change(s, v, q, k, new)
  BY <1>2, <1>4, <1>5, <1>8 DEF Change, Extras, Version
<1> QED BY <1>4, <1>7, <1>8, OneChange

\* A figure that is kept stays where it is, with a new version.
LEMMA KeptRow ==
    ASSUME NEW old \in Row, NEW n \in Nat
    PROVE  LET new == [old EXCEPT !.state = "live", !.version = n + 1]
           IN  new \in Row /\ new.state = "live" /\ new.parent = old.parent /\ new.type = old.type
<1>1. n + 1 \in Nat
  OBVIOUS
<1>2. ASSUME NEW m \in Nat, NEW new, new = [old EXCEPT !.state = "live", !.version = m]
      PROVE  new \in Row /\ new.state = "live" /\ new.parent = old.parent /\ new.type = old.type
  <2>1. new.state = "live" /\ new.parent = old.parent /\ new.type = old.type /\ new.version = m
    BY <1>2 DEF Row
  <2>2. new = [state |-> "live", parent |-> old.parent, type |-> old.type, version |-> m]
    BY <1>2 DEF Row
  <2>3. old.parent \in Ids \cup {None} /\ old.type \in Types \cup {None}
    BY DEF Row
  <2> QED BY <2>1, <2>2, <2>3, <1>2 DEF Row
<1> QED BY <1>1, <1>2

\* What the other statements of a bulk save may change.
LEMMA EffectOfBulk ==
    ASSUME NEW v \in [Keys -> Row], NEW q \in Request,
           NEW s \in {"snapshot_figures", "lock_figures", "update_kept", "delete_rest_params"},
           NEW c, c = Changes(s, v, q)
    PROVE  Effect(s, v, q, c)
<1> SUFFICES ASSUME NEW k \in DOMAIN c
             PROVE  Change(s, v, q, k, c[k])
  BY DEF Effect
<1>1. CASE s = "snapshot_figures"
  BY <1>1, NothingFacts DEF Changes
<1>2. CASE s = "lock_figures"
  <2>1. c = [l \in {"row"} \X {f \in q.found : Live(v, f)} |-> v[l]]
    BY <1>2 DEF Changes, LockFigures
  <2>2. k[1] = "row" /\ k[2] \in q.found /\ Live(v, k[2]) /\ k = <<"row", k[2]>>
    BY <2>1
  <2>3. c[k] = v[k]
    BY <2>1
  <2>4. k \in Keys
    BY <2>2, KeyFacts DEF Request
  <2>5. v[k].state = "live" /\ v[k] = v[<<"row", k[2]>>] /\ v[k].parent = Parent(v, k[2])
    BY <2>2 DEF Live, Parent
  <2>6. Update(s, v, q, k[2], c[k])
    BY <1>2, <2>2, <2>3, <2>5 DEF Update, Updating
  <2> QED BY <2>2, <2>3, <2>4, <2>6 DEF Change, Extras
<1>3. CASE s = "update_kept"
  <2> DEFINE row(l) == [v[l] EXCEPT !.state = "live", !.version = v[l].version + 1]
  <2>1. c = [l \in {"row", "params"} \X (q.keep \cap q.found) |-> row(l)]
    BY <1>3 DEF Changes, UpdateKeptFigures
  <2>1a. DOMAIN c = {"row", "params"} \X (q.keep \cap q.found)
    BY <2>1
  <2>2. k[1] \in {"row", "params"} /\ k[2] \in q.keep \cap q.found /\ k = <<k[1], k[2]>>
    BY <2>1a
  <2>3. c[k] = row(k)
    BY <2>1
  <2>4. k \in Keys
    BY <2>2, KeyFacts DEF Request
  <2>5. v[k] \in Row /\ v[k].version \in Nat
    BY <2>4 DEF Row
  <2>6. row(k) \in Row /\ row(k).state = "live" /\ row(k).parent = v[k].parent
        /\ row(k).type = v[k].type
    BY <2>5, KeptRow
  <2>7. CASE k[1] = "row"
    <3>1. v[k] = v[<<"row", k[2]>>] /\ v[k].parent = Parent(v, k[2])
      BY <2>7, <2>2 DEF Parent
    <3>2. Update(s, v, q, k[2], c[k])
      BY <1>3, <2>2, <2>3, <2>6, <3>1 DEF Update, Updating
    <3> QED BY <2>7, <2>3, <2>4, <2>6, <3>2 DEF Change, Extras
  <2>8. CASE k[1] = "params"
    <3>1. Settings(s, v, q, k[2], c[k])
      BY <1>3, <2>2 DEF Settings
    <3> QED BY <2>8, <2>3, <2>4, <2>6, <3>1 DEF Change, Extras
  <2> QED BY <2>2, <2>7, <2>8
<1>4. CASE s = "delete_rest_params"
  <2>1. c = [l \in {"params"} \X (q.found \ q.keep) |-> [v[l] EXCEPT !.state = "deleted"]]
    BY <1>4 DEF Changes, SoftDeleteFigureParams
  <2>2. k[1] = "params" /\ k[2] \in q.found \ q.keep /\ k = <<"params", k[2]>>
    BY <2>1
  <2>3. c[k] = [v[k] EXCEPT !.state = "deleted"]
    BY <2>1
  <2>4. k \in Keys
    BY <2>2, KeyFacts DEF Request
  <2>5. c[k] \in Row
    BY <2>3, <2>4 DEF Row
  <2>6. Settings(s, v, q, k[2], c[k])
    BY <1>4, <2>2 DEF Settings
  <2> QED BY <2>2, <2>4, <2>5, <2>6 DEF Change, Extras
<1> QED BY <1>1, <1>2, <1>3, <1>4

\* What any statement of a request may change.
LEMMA EffectOfStatement ==
    ASSUME NEW v \in [Keys -> Row], NEW q \in Request, Kinds(q), NEW s, Belongs(q, s),
           NEW c, c = Changes(s, v, q)
    PROVE  Effect(s, v, q, c)
<1>1. \/ s \in Deleting \/ s \in Inserting \/ s \in Updating \/ s \in ExtraSteps
      \/ s \in {"device_params", "tag_params"}
      \/ s \in {"snapshot_figures", "lock_figures", "update_kept", "delete_rest_params"}
  BY DEF Belongs, Statements, Deleting, Cascading, Inserting, Updating
<1> QED BY <1>1, EffectOfDeleting, EffectOfInserting, EffectOfUpdating, EffectOfExtras,
           EffectOfParams, EffectOfBulk

IsAbsent(d, i) == d[<<"row", i>>].state = "absent"

\* The operations whose use case reads before it writes.
Checking == {"update_device_params", "delete_device", "create_tag", "update_tag_params",
             "tag_extras", "delete_tag"}

\* A request as its handler gives it to the use case.
NewRequest(q) ==
    /\ q \in Request /\ Kinds(q) /\ Whole(q)
    /\ q.phase = IF q.op \in Checking THEN "check" ELSE "run"
    /\ q.found = {} /\ q.touched = {} /\ q.began = FALSE /\ q.payload = None
    /\ (q.op \notin Creating => ~IsAbsent(db, q.id))
    /\ (q.parent # None => ~IsAbsent(db, q.parent))
    /\ \A i \in Creates(q) : Fresh(i)
    /\ (q.op = "create_device" => q.config = q.type)

\* What the record of a use case says.
Ready(u, checks, steps, rereads) ==
    /\ u \in Request
    /\ u.phase = IF checks THEN "check" ELSE "run"
    /\ u.todo = steps /\ u.rereads = rereads
    /\ u.id = None /\ u.parent = None /\ u.type = None /\ u.config = None
    /\ u.keep = {} /\ u.new = {} /\ u.found = {} /\ u.touched = {} /\ u.began = FALSE
    /\ u.payload = None

\* The record of a use case before the handler fills it.
LEMMA UseCaseFacts ==
    ASSUME NEW checks \in BOOLEAN, NEW steps \in Todos, NEW rereads \in BOOLEAN
    PROVE  Ready(UseCase(checks, steps, rereads), checks, steps, rereads)
<1>1. PICK u : u = UseCase(checks, steps, rereads)
  OBVIOUS
<1> PICK phase : phase = IF checks THEN "check" ELSE "run"
  OBVIOUS
<1>2. u = [op |-> "none", phase |-> phase, id |-> None, parent |-> None,
           type |-> None, config |-> None, keep |-> {}, new |-> {}, todo |-> steps,
           rereads |-> rereads, found |-> {}, began |-> FALSE, touched |-> {}, payload |-> None]
  BY <1>1 DEF UseCase, Idle
<1>3. u \in Request
  <2>1a. "none" \in Ops
    BY DEF Ops
  <2>1b. phase = "check" \/ phase = "run"
    OBVIOUS
  <2>1. "none" \in Ops /\ phase \in Phases
    BY <2>1a, <2>1b DEF Phases
  <2>2. {} \in SUBSET Figures /\ {} \in SUBSET Touch
    OBVIOUS
  <2>3. None \in Ids \cup {None} /\ None \in Types \cup {None} /\ None \in Payload \cup {None}
    OBVIOUS
  <2>4. rereads \in BOOLEAN /\ FALSE \in BOOLEAN /\ steps \in Todos
    OBVIOUS
  <2> QED BY <1>2, <2>1, <2>2, <2>3, <2>4 DEF Request
<1>4. u.phase = IF checks THEN "check" ELSE "run"
  BY <1>2
<1>5. u.todo = steps /\ u.rereads = rereads
  BY <1>2
<1>6. u.id = None /\ u.parent = None /\ u.type = None /\ u.config = None
  BY <1>2
<1>7. u.keep = {} /\ u.new = {} /\ u.found = {} /\ u.touched = {} /\ u.began = FALSE
  BY <1>2
<1>8. u.payload = None
  BY <1>2
<1>9. Ready(u, checks, steps, rereads)
  BY <1>3, <1>4, <1>5, <1>6, <1>7, <1>8 DEF Ready
<1> QED BY <1>1, <1>9

\* Every plan is one of the known lists of statements.
LEMMA TodosFacts ==
    /\ <<>> \in Todos
    /\ \A s \in Statements : One(s) \in Todos
    /\ {Device2, DeleteDevicePlan, DeleteDiagramPlan, Tag4, Tag3, Tag2, TagWithParams,
        DeleteObjectPlan, Object4, Object3, Object2, BulkPlan, Bulk5, Bulk4, Bulk3, Bulk2} \subseteq Todos
BY DEF Todos

\* The plans of the use cases.
LEMMA UseCases ==
    /\ Ready(CreateDeviceUseCase, FALSE, Device2, FALSE)
    /\ Ready(UpdateDeviceUseCase, FALSE, One("update_device"), TRUE)
    /\ Ready(AssignDeviceUseCase, FALSE, One("assign_device"), TRUE)
    /\ Ready(UpdateDeviceParamsUseCase, TRUE, One("device_params"), TRUE)
    /\ Ready(DeleteDeviceUseCase, TRUE, DeleteDevicePlan, FALSE)
    /\ Ready(UpdateTagUseCase, FALSE, One("update_tag"), TRUE)
    /\ Ready(UpdateTagParamsUseCase, TRUE, One("tag_params"), TRUE)
    /\ Ready(UpdateTagSetpointsUseCase, TRUE, One("upsert_setpoints"), TRUE)
    /\ Ready(DeleteTagSetpointsUseCase, TRUE, One("delete_setpoints"), TRUE)
    /\ Ready(UpdateTagScalingUseCase, TRUE, One("upsert_scaling"), TRUE)
    /\ Ready(DeleteTagScalingUseCase, TRUE, One("delete_scaling"), TRUE)
    /\ Ready(DeleteTagUseCase, TRUE, One("self"), FALSE)
    /\ Ready(DeleteObjectUseCase, FALSE, DeleteObjectPlan, FALSE)
    /\ Ready(DeleteDiagramUseCase, FALSE, DeleteDiagramPlan, FALSE)
    /\ Ready(CreateFiguresUseCase, FALSE, One("insert_figures"), FALSE)
    /\ Ready(BulkUpsertUseCase, FALSE, BulkPlan, FALSE)
    /\ Ready(DeleteFigureUseCase, FALSE, One("self"), FALSE)
<1>1. Ready(CreateDeviceUseCase, FALSE, Device2, FALSE)
  <2>1. CreateDeviceUseCase = UseCase(FALSE, Device2, FALSE)
    BY DEF CreateDeviceUseCase, Device2
  <2>2. Device2 \in Todos
    BY TodosFacts DEF Statements, ExtraSteps
  <2> QED BY <2>1, <2>2, UseCaseFacts
<1>2. Ready(UpdateDeviceUseCase, FALSE, One("update_device"), TRUE)
  <2>1. UpdateDeviceUseCase = UseCase(FALSE, One("update_device"), TRUE)
    BY DEF UpdateDeviceUseCase, One
  <2>2. One("update_device") \in Todos
    BY TodosFacts DEF Statements, ExtraSteps
  <2> QED BY <2>1, <2>2, UseCaseFacts
<1>3. Ready(AssignDeviceUseCase, FALSE, One("assign_device"), TRUE)
  <2>1. AssignDeviceUseCase = UseCase(FALSE, One("assign_device"), TRUE)
    BY DEF AssignDeviceUseCase, One
  <2>2. One("assign_device") \in Todos
    BY TodosFacts DEF Statements, ExtraSteps
  <2> QED BY <2>1, <2>2, UseCaseFacts
<1>4. Ready(UpdateDeviceParamsUseCase, TRUE, One("device_params"), TRUE)
  <2>1. UpdateDeviceParamsUseCase = UseCase(TRUE, One("device_params"), TRUE)
    BY DEF UpdateDeviceParamsUseCase, One
  <2>2. One("device_params") \in Todos
    BY TodosFacts DEF Statements, ExtraSteps
  <2> QED BY <2>1, <2>2, UseCaseFacts
<1>5. Ready(DeleteDeviceUseCase, TRUE, DeleteDevicePlan, FALSE)
  <2>1. DeleteDeviceUseCase = UseCase(TRUE, DeleteDevicePlan, FALSE)
    BY DEF DeleteDeviceUseCase
  <2>2. DeleteDevicePlan \in Todos
    BY TodosFacts DEF Statements, ExtraSteps
  <2> QED BY <2>1, <2>2, UseCaseFacts
<1>6. Ready(UpdateTagUseCase, FALSE, One("update_tag"), TRUE)
  <2>1. UpdateTagUseCase = UseCase(FALSE, One("update_tag"), TRUE)
    BY DEF UpdateTagUseCase, One
  <2>2. One("update_tag") \in Todos
    BY TodosFacts DEF Statements, ExtraSteps
  <2> QED BY <2>1, <2>2, UseCaseFacts
<1>7. Ready(UpdateTagParamsUseCase, TRUE, One("tag_params"), TRUE)
  <2>1. UpdateTagParamsUseCase = UseCase(TRUE, One("tag_params"), TRUE)
    BY DEF UpdateTagParamsUseCase, One
  <2>2. One("tag_params") \in Todos
    BY TodosFacts DEF Statements, ExtraSteps
  <2> QED BY <2>1, <2>2, UseCaseFacts
<1>8. Ready(UpdateTagSetpointsUseCase, TRUE, One("upsert_setpoints"), TRUE)
  <2>1. UpdateTagSetpointsUseCase = UseCase(TRUE, One("upsert_setpoints"), TRUE)
    BY DEF UpdateTagSetpointsUseCase, One
  <2>2. One("upsert_setpoints") \in Todos
    BY TodosFacts DEF Statements, ExtraSteps
  <2> QED BY <2>1, <2>2, UseCaseFacts
<1>9. Ready(DeleteTagSetpointsUseCase, TRUE, One("delete_setpoints"), TRUE)
  <2>1. DeleteTagSetpointsUseCase = UseCase(TRUE, One("delete_setpoints"), TRUE)
    BY DEF DeleteTagSetpointsUseCase, One
  <2>2. One("delete_setpoints") \in Todos
    BY TodosFacts DEF Statements, ExtraSteps
  <2> QED BY <2>1, <2>2, UseCaseFacts
<1>10. Ready(UpdateTagScalingUseCase, TRUE, One("upsert_scaling"), TRUE)
  <2>1. UpdateTagScalingUseCase = UseCase(TRUE, One("upsert_scaling"), TRUE)
    BY DEF UpdateTagScalingUseCase, One
  <2>2. One("upsert_scaling") \in Todos
    BY TodosFacts DEF Statements, ExtraSteps
  <2> QED BY <2>1, <2>2, UseCaseFacts
<1>11. Ready(DeleteTagScalingUseCase, TRUE, One("delete_scaling"), TRUE)
  <2>1. DeleteTagScalingUseCase = UseCase(TRUE, One("delete_scaling"), TRUE)
    BY DEF DeleteTagScalingUseCase, One
  <2>2. One("delete_scaling") \in Todos
    BY TodosFacts DEF Statements, ExtraSteps
  <2> QED BY <2>1, <2>2, UseCaseFacts
<1>12. Ready(DeleteTagUseCase, TRUE, One("self"), FALSE)
  <2>1. DeleteTagUseCase = UseCase(TRUE, One("self"), FALSE)
    BY DEF DeleteTagUseCase, One
  <2>2. One("self") \in Todos
    BY TodosFacts DEF Statements, ExtraSteps
  <2> QED BY <2>1, <2>2, UseCaseFacts
<1>13. Ready(DeleteObjectUseCase, FALSE, DeleteObjectPlan, FALSE)
  <2>1. DeleteObjectUseCase = UseCase(FALSE, DeleteObjectPlan, FALSE)
    BY DEF DeleteObjectUseCase
  <2>2. DeleteObjectPlan \in Todos
    BY TodosFacts DEF Statements, ExtraSteps
  <2> QED BY <2>1, <2>2, UseCaseFacts
<1>14. Ready(DeleteDiagramUseCase, FALSE, DeleteDiagramPlan, FALSE)
  <2>1. DeleteDiagramUseCase = UseCase(FALSE, DeleteDiagramPlan, FALSE)
    BY DEF DeleteDiagramUseCase
  <2>2. DeleteDiagramPlan \in Todos
    BY TodosFacts DEF Statements, ExtraSteps
  <2> QED BY <2>1, <2>2, UseCaseFacts
<1>15. Ready(CreateFiguresUseCase, FALSE, One("insert_figures"), FALSE)
  <2>1. CreateFiguresUseCase = UseCase(FALSE, One("insert_figures"), FALSE)
    BY DEF CreateFiguresUseCase, One
  <2>2. One("insert_figures") \in Todos
    BY TodosFacts DEF Statements, ExtraSteps
  <2> QED BY <2>1, <2>2, UseCaseFacts
<1>16. Ready(BulkUpsertUseCase, FALSE, BulkPlan, FALSE)
  <2>1. BulkUpsertUseCase = UseCase(FALSE, BulkPlan, FALSE)
    BY DEF BulkUpsertUseCase
  <2>2. BulkPlan \in Todos
    BY TodosFacts DEF Statements, ExtraSteps
  <2> QED BY <2>1, <2>2, UseCaseFacts
<1>17. Ready(DeleteFigureUseCase, FALSE, One("self"), FALSE)
  <2>1. DeleteFigureUseCase = UseCase(FALSE, One("self"), FALSE)
    BY DEF DeleteFigureUseCase, One
  <2>2. One("self") \in Todos
    BY TodosFacts DEF Statements, ExtraSteps
  <2> QED BY <2>1, <2>2, UseCaseFacts
<1> QED BY <1>1, <1>2, <1>3, <1>4, <1>5, <1>6, <1>7, <1>8, <1>9, <1>10, <1>11, <1>12, <1>13, <1>14, <1>15, <1>16, <1>17

\* The plan of a new tag, by what comes with it.
LEMMA CreateTagReady ==
    ASSUME NEW cfg, NEW extras \in BOOLEAN, extras => cfg # None
    PROVE  \E steps \in {One("insert_tag"), TagWithParams, Tag4} :
              /\ Ready(CreateTagUseCase(cfg, extras), TRUE, steps, FALSE)
              /\ cfg = None => steps = One("insert_tag")
<1>1. CreateTagPlan(cfg, extras) =
        IF cfg = None THEN One("insert_tag") ELSE IF extras THEN Tag4 ELSE TagWithParams
  BY DEF CreateTagPlan, One, Tag4, TagWithParams
<1>2. CreateTagPlan(cfg, extras) \in Todos
  BY <1>1, TodosFacts DEF Statements
<1>3. CreateTagUseCase(cfg, extras) = UseCase(TRUE, CreateTagPlan(cfg, extras), FALSE)
  BY DEF CreateTagUseCase
<1>4. Ready(CreateTagUseCase(cfg, extras), TRUE, CreateTagPlan(cfg, extras), FALSE)
  BY <1>2, <1>3, UseCaseFacts
<1> QED BY <1>1, <1>4

\* A decoded request: the record of its use case with what the handler gave it.
Given(q, op, id, parent, type, config, keep, new) ==
    /\ q \in Request
    /\ q.op = op /\ q.id = id /\ q.parent = parent /\ q.type = type /\ q.config = config
    /\ q.keep = keep /\ q.new = new

Kept(q, checks, steps, rereads) ==
    /\ q.phase = IF checks THEN "check" ELSE "run"
    /\ q.todo = steps /\ q.rereads = rereads
    /\ q.found = {} /\ q.touched = {} /\ q.began = FALSE /\ q.payload = None

\* A request with an id.
LEMMA GivenPlain ==
    ASSUME NEW u, NEW checks, NEW steps, NEW rereads, Ready(u, checks, steps, rereads),
           NEW op \in Ops, NEW id \in Ids,
           NEW q, q = [u EXCEPT !.op = op, !.id = id]
    PROVE  Given(q, op, id, None, None, None, {}, {}) /\ Kept(q, checks, steps, rereads)
<1>1. u \in Request
  BY DEF Ready
<1>2. q \in Request
  BY <1>1 DEF Request
<1>3. q.op = op /\ q.id = id
  BY <1>1 DEF Request
<1>4. q.parent = u.parent /\ q.type = u.type /\ q.config = u.config /\ q.keep = u.keep /\ q.new = u.new
  BY <1>1 DEF Request
<1>5. /\ q.phase = u.phase /\ q.todo = u.todo /\ q.rereads = u.rereads
      /\ q.found = u.found /\ q.touched = u.touched /\ q.began = u.began
      /\ q.payload = u.payload
  BY <1>1 DEF Request
<1>6. Given(q, op, id, None, None, None, {}, {})
  BY <1>2, <1>3, <1>4 DEF Given, Ready
<1>7. Kept(q, checks, steps, rereads)
  BY <1>5 DEF Kept, Ready
<1> QED BY <1>6, <1>7

\* A request with an id and a type.
LEMMA GivenOfType ==
    ASSUME NEW u, NEW checks, NEW steps, NEW rereads, Ready(u, checks, steps, rereads),
           NEW op \in Ops, NEW id \in Ids, NEW type \in Types \cup {None},
           NEW q, q = [u EXCEPT !.op = op, !.id = id, !.type = type]
    PROVE  Given(q, op, id, None, type, None, {}, {}) /\ Kept(q, checks, steps, rereads)
<1>1. u \in Request
  BY DEF Ready
<1>2. q \in Request
  BY <1>1 DEF Request
<1>3. q.op = op /\ q.id = id
  BY <1>1 DEF Request
<1>4. q.parent = u.parent /\ q.type = type /\ q.config = u.config /\ q.keep = u.keep /\ q.new = u.new
  BY <1>1 DEF Request
<1>5. /\ q.phase = u.phase /\ q.todo = u.todo /\ q.rereads = u.rereads
      /\ q.found = u.found /\ q.touched = u.touched /\ q.began = u.began
      /\ q.payload = u.payload
  BY <1>1 DEF Request
<1>6. Given(q, op, id, None, type, None, {}, {})
  BY <1>2, <1>3, <1>4 DEF Given, Ready
<1>7. Kept(q, checks, steps, rereads)
  BY <1>5 DEF Kept, Ready
<1> QED BY <1>6, <1>7

\* A request with an id and a parent.
LEMMA GivenUnderParent ==
    ASSUME NEW u, NEW checks, NEW steps, NEW rereads, Ready(u, checks, steps, rereads),
           NEW op \in Ops, NEW id \in Ids, NEW parent \in Ids \cup {None},
           NEW q, q = [u EXCEPT !.op = op, !.id = id, !.parent = parent]
    PROVE  Given(q, op, id, parent, None, None, {}, {}) /\ Kept(q, checks, steps, rereads)
<1>1. u \in Request
  BY DEF Ready
<1>2. q \in Request
  BY <1>1 DEF Request
<1>3. q.op = op /\ q.id = id
  BY <1>1 DEF Request
<1>4. q.parent = parent /\ q.type = u.type /\ q.config = u.config /\ q.keep = u.keep /\ q.new = u.new
  BY <1>1 DEF Request
<1>5. /\ q.phase = u.phase /\ q.todo = u.todo /\ q.rereads = u.rereads
      /\ q.found = u.found /\ q.touched = u.touched /\ q.began = u.began
      /\ q.payload = u.payload
  BY <1>1 DEF Request
<1>6. Given(q, op, id, parent, None, None, {}, {})
  BY <1>2, <1>3, <1>4 DEF Given, Ready
<1>7. Kept(q, checks, steps, rereads)
  BY <1>5 DEF Kept, Ready
<1> QED BY <1>6, <1>7

\* A request with an id and settings.
LEMMA GivenWithConfig ==
    ASSUME NEW u, NEW checks, NEW steps, NEW rereads, Ready(u, checks, steps, rereads),
           NEW op \in Ops, NEW id \in Ids, NEW config \in Types \cup {None},
           NEW q, q = [u EXCEPT !.op = op, !.id = id, !.config = config]
    PROVE  Given(q, op, id, None, None, config, {}, {}) /\ Kept(q, checks, steps, rereads)
<1>1. u \in Request
  BY DEF Ready
<1>2. q \in Request
  BY <1>1 DEF Request
<1>3. q.op = op /\ q.id = id
  BY <1>1 DEF Request
<1>4. q.parent = u.parent /\ q.type = u.type /\ q.config = config /\ q.keep = u.keep /\ q.new = u.new
  BY <1>1 DEF Request
<1>5. /\ q.phase = u.phase /\ q.todo = u.todo /\ q.rereads = u.rereads
      /\ q.found = u.found /\ q.touched = u.touched /\ q.began = u.began
      /\ q.payload = u.payload
  BY <1>1 DEF Request
<1>6. Given(q, op, id, None, None, config, {}, {})
  BY <1>2, <1>3, <1>4 DEF Given, Ready
<1>7. Kept(q, checks, steps, rereads)
  BY <1>5 DEF Kept, Ready
<1> QED BY <1>6, <1>7

\* A request for a new device.
LEMMA GivenNewDevice ==
    ASSUME NEW u, NEW checks, NEW steps, NEW rereads, Ready(u, checks, steps, rereads),
           NEW op \in Ops, NEW id \in Ids, NEW parent \in Ids \cup {None}, NEW type \in Types \cup {None}, NEW config \in Types \cup {None},
           NEW q, q = [u EXCEPT !.op = op, !.id = id, !.parent = parent, !.type = type, !.config = config]
    PROVE  Given(q, op, id, parent, type, config, {}, {}) /\ Kept(q, checks, steps, rereads)
<1>1. u \in Request
  BY DEF Ready
<1>2. q \in Request
  BY <1>1 DEF Request
<1>3. q.op = op /\ q.id = id
  BY <1>1 DEF Request
<1>4. q.parent = parent /\ q.type = type /\ q.config = config /\ q.keep = u.keep /\ q.new = u.new
  BY <1>1 DEF Request
<1>5. /\ q.phase = u.phase /\ q.todo = u.todo /\ q.rereads = u.rereads
      /\ q.found = u.found /\ q.touched = u.touched /\ q.began = u.began
      /\ q.payload = u.payload
  BY <1>1 DEF Request
<1>6. Given(q, op, id, parent, type, config, {}, {})
  BY <1>2, <1>3, <1>4 DEF Given, Ready
<1>7. Kept(q, checks, steps, rereads)
  BY <1>5 DEF Kept, Ready
<1> QED BY <1>6, <1>7

\* A request for a new tag.
LEMMA GivenNewTag ==
    ASSUME NEW u, NEW checks, NEW steps, NEW rereads, Ready(u, checks, steps, rereads),
           NEW op \in Ops, NEW id \in Ids, NEW parent \in Ids \cup {None}, NEW config \in Types \cup {None},
           NEW q, q = [u EXCEPT !.op = op, !.id = id, !.parent = parent, !.config = config]
    PROVE  Given(q, op, id, parent, None, config, {}, {}) /\ Kept(q, checks, steps, rereads)
<1>1. u \in Request
  BY DEF Ready
<1>2. q \in Request
  BY <1>1 DEF Request
<1>3. q.op = op /\ q.id = id
  BY <1>1 DEF Request
<1>4. q.parent = parent /\ q.type = u.type /\ q.config = config /\ q.keep = u.keep /\ q.new = u.new
  BY <1>1 DEF Request
<1>5. /\ q.phase = u.phase /\ q.todo = u.todo /\ q.rereads = u.rereads
      /\ q.found = u.found /\ q.touched = u.touched /\ q.began = u.began
      /\ q.payload = u.payload
  BY <1>1 DEF Request
<1>6. Given(q, op, id, parent, None, config, {}, {})
  BY <1>2, <1>3, <1>4 DEF Given, Ready
<1>7. Kept(q, checks, steps, rereads)
  BY <1>5 DEF Kept, Ready
<1> QED BY <1>6, <1>7

\* A request with an id and new figures.
LEMMA GivenWithNew ==
    ASSUME NEW u, NEW checks, NEW steps, NEW rereads, Ready(u, checks, steps, rereads),
           NEW op \in Ops, NEW id \in Ids, NEW new \in SUBSET Figures,
           NEW q, q = [u EXCEPT !.op = op, !.id = id, !.new = new]
    PROVE  Given(q, op, id, None, None, None, {}, new) /\ Kept(q, checks, steps, rereads)
<1>1. u \in Request
  BY DEF Ready
<1>2. q \in Request
  BY <1>1 DEF Request
<1>3. q.op = op /\ q.id = id
  BY <1>1 DEF Request
<1>4. q.parent = u.parent /\ q.type = u.type /\ q.config = u.config /\ q.keep = u.keep /\ q.new = new
  BY <1>1 DEF Request
<1>5. /\ q.phase = u.phase /\ q.todo = u.todo /\ q.rereads = u.rereads
      /\ q.found = u.found /\ q.touched = u.touched /\ q.began = u.began
      /\ q.payload = u.payload
  BY <1>1 DEF Request
<1>6. Given(q, op, id, None, None, None, {}, new)
  BY <1>2, <1>3, <1>4 DEF Given, Ready
<1>7. Kept(q, checks, steps, rereads)
  BY <1>5 DEF Kept, Ready
<1> QED BY <1>6, <1>7

\* A request with an id, figures that stay and new ones.
LEMMA GivenWithBoth ==
    ASSUME NEW u, NEW checks, NEW steps, NEW rereads, Ready(u, checks, steps, rereads),
           NEW op \in Ops, NEW id \in Ids, NEW keep \in SUBSET Figures, NEW new \in SUBSET Figures,
           NEW q, q = [u EXCEPT !.op = op, !.id = id, !.keep = keep, !.new = new]
    PROVE  Given(q, op, id, None, None, None, keep, new) /\ Kept(q, checks, steps, rereads)
<1>1. u \in Request
  BY DEF Ready
<1>2. q \in Request
  BY <1>1 DEF Request
<1>3. q.op = op /\ q.id = id
  BY <1>1 DEF Request
<1>4. q.parent = u.parent /\ q.type = u.type /\ q.config = u.config /\ q.keep = keep /\ q.new = new
  BY <1>1 DEF Request
<1>5. /\ q.phase = u.phase /\ q.todo = u.todo /\ q.rereads = u.rereads
      /\ q.found = u.found /\ q.touched = u.touched /\ q.began = u.began
      /\ q.payload = u.payload
  BY <1>1 DEF Request
<1>6. Given(q, op, id, None, None, None, keep, new)
  BY <1>2, <1>3, <1>4 DEF Given, Ready
<1>7. Kept(q, checks, steps, rereads)
  BY <1>5 DEF Kept, Ready
<1> QED BY <1>6, <1>7

\* What the handler of CreateDevice accepts is a new request.
LEMMA CreateDeviceIsNew ==
    ASSUME NEW r, NEW d \in Devices, NEW o \in Objects \cup {None}, NEW ty \in Types, CreateDevice(r, d, o, ty)
    PROVE  \E q : NewRequest(q) /\ Accept(r, q)
<1> PICK q : q = [CreateDeviceUseCase EXCEPT !.op = "create_device", !.id = d, !.parent = o, !.type = ty, !.config = ty]
  OBVIOUS
<1>1. Accept(r, q)
  BY DEF CreateDevice
<1>3. Ready(CreateDeviceUseCase, FALSE, Device2, FALSE)
  BY UseCases
<1>4. "create_device" \in Ops /\ d \in Ids
  BY KeyFacts DEF Ops, DeviceOps, TagOps, DiagramOps, FigureOps, ObjectOps
<1>5. o \in Ids \cup {None} /\ ty \in Types \cup {None}
  BY KeyFacts
<1>6. Given(q, "create_device", d, o, ty, ty, {}, {}) /\ Kept(q, FALSE, Device2, FALSE)
  BY <1>3, <1>4, <1>5, GivenNewDevice
<1>7. q.op = "create_device" /\ q.id = d /\ q.parent = o /\ q.rereads = FALSE
  BY <1>6 DEF Given, Kept
<1>8. Kinds(q)
  BY <1>7 DEF Kinds, DeviceOps, TagOps, DiagramOps, FigureOps, ObjectOps, Announcing
<1>9. q.todo = Device2 /\ q.config = ty
  BY <1>6 DEF Given, Kept
<1>10. Left(q, q.todo)
  BY <1>7, <1>9 DEF Left
<1>11. Whole(q)
  BY <1>7, <1>9, <1>10, PlanSteps DEF Whole, Plans
<1>12. q.op \in Creating <=> TRUE
  BY <1>7 DEF Creating
<1>13. Creates(q) = {d}
  BY <1>6, <1>7, <1>12 DEF Creates, Drawing, Given
<1>14. /\ q.op \notin Creating => ~IsAbsent(db, q.id)
       /\ q.parent # None => ~IsAbsent(db, q.parent)
       /\ \A i \in Creates(q) : Fresh(i)
  BY <1>7, <1>12, <1>13 DEF CreateDevice, Exists, ObjectOrNone, IsAbsent
<1>15. q.phase = IF q.op \in Checking THEN "check" ELSE "run"
  BY <1>6, <1>7 DEF Kept, Checking
<1> QED BY <1>1, <1>6, <1>7, <1>8, <1>9, <1>11, <1>14, <1>15 DEF NewRequest, Given, Kept

\* What the handler of UpdateDevice accepts is a new request.
LEMMA UpdateDeviceIsNew ==
    ASSUME NEW r, NEW d \in Devices, NEW ty \in Types \cup {None}, UpdateDevice(r, d, ty)
    PROVE  \E q : NewRequest(q) /\ Accept(r, q)
<1> PICK q : q = [UpdateDeviceUseCase EXCEPT !.op = "update_device", !.id = d, !.type = ty]
  OBVIOUS
<1>1. Accept(r, q)
  BY DEF UpdateDevice
<1>3. Ready(UpdateDeviceUseCase, FALSE, One("update_device"), TRUE)
  BY UseCases
<1>4. "update_device" \in Ops /\ d \in Ids
  BY KeyFacts DEF Ops, DeviceOps, TagOps, DiagramOps, FigureOps, ObjectOps
<1>5. ty \in Types \cup {None}
  BY KeyFacts
<1>6. Given(q, "update_device", d, None, ty, None, {}, {}) /\ Kept(q, FALSE, One("update_device"), TRUE)
  BY <1>3, <1>4, <1>5, GivenOfType
<1>7. q.op = "update_device" /\ q.id = d /\ q.parent = None /\ q.rereads = TRUE
  BY <1>6 DEF Given, Kept
<1>8. Kinds(q)
  BY <1>7 DEF Kinds, DeviceOps, TagOps, DiagramOps, FigureOps, ObjectOps, Announcing
<1>9. q.todo = One("update_device") /\ q.config = None
  BY <1>6 DEF Given, Kept
<1>10. Left(q, q.todo)
  BY <1>7, <1>9 DEF Left
<1>11. Whole(q)
  BY <1>7, <1>9, <1>10, PlanSteps DEF Whole, Plans
<1>12. q.op \in Creating <=> FALSE
  BY <1>7 DEF Creating
<1>13. Creates(q) = {}
  BY <1>6, <1>7, <1>12 DEF Creates, Drawing, Given
<1>14. /\ q.op \notin Creating => ~IsAbsent(db, q.id)
       /\ q.parent # None => ~IsAbsent(db, q.parent)
       /\ \A i \in Creates(q) : Fresh(i)
  BY <1>7, <1>12, <1>13 DEF UpdateDevice, Exists, ObjectOrNone, IsAbsent
<1>15. q.phase = IF q.op \in Checking THEN "check" ELSE "run"
  BY <1>6, <1>7 DEF Kept, Checking
<1> QED BY <1>1, <1>6, <1>7, <1>8, <1>9, <1>11, <1>14, <1>15 DEF NewRequest, Given, Kept

\* What the handler of AssignDeviceToObject accepts is a new request.
LEMMA AssignDeviceToObjectIsNew ==
    ASSUME NEW r, NEW d \in Devices, NEW o \in Objects \cup {None}, AssignDeviceToObject(r, d, o)
    PROVE  \E q : NewRequest(q) /\ Accept(r, q)
<1> PICK q : q = [AssignDeviceUseCase EXCEPT !.op = "assign_device", !.id = d, !.parent = o]
  OBVIOUS
<1>1. Accept(r, q)
  BY DEF AssignDeviceToObject
<1>3. Ready(AssignDeviceUseCase, FALSE, One("assign_device"), TRUE)
  BY UseCases
<1>4. "assign_device" \in Ops /\ d \in Ids
  BY KeyFacts DEF Ops, DeviceOps, TagOps, DiagramOps, FigureOps, ObjectOps
<1>5. o \in Ids \cup {None}
  BY KeyFacts
<1>6. Given(q, "assign_device", d, o, None, None, {}, {}) /\ Kept(q, FALSE, One("assign_device"), TRUE)
  BY <1>3, <1>4, <1>5, GivenUnderParent
<1>7. q.op = "assign_device" /\ q.id = d /\ q.parent = o /\ q.rereads = TRUE
  BY <1>6 DEF Given, Kept
<1>8. Kinds(q)
  BY <1>7 DEF Kinds, DeviceOps, TagOps, DiagramOps, FigureOps, ObjectOps, Announcing
<1>9. q.todo = One("assign_device") /\ q.config = None
  BY <1>6 DEF Given, Kept
<1>10. Left(q, q.todo)
  BY <1>7, <1>9 DEF Left
<1>11. Whole(q)
  BY <1>7, <1>9, <1>10, PlanSteps DEF Whole, Plans
<1>12. q.op \in Creating <=> FALSE
  BY <1>7 DEF Creating
<1>13. Creates(q) = {}
  BY <1>6, <1>7, <1>12 DEF Creates, Drawing, Given
<1>14. /\ q.op \notin Creating => ~IsAbsent(db, q.id)
       /\ q.parent # None => ~IsAbsent(db, q.parent)
       /\ \A i \in Creates(q) : Fresh(i)
  BY <1>7, <1>12, <1>13 DEF AssignDeviceToObject, Exists, ObjectOrNone, IsAbsent
<1>15. q.phase = IF q.op \in Checking THEN "check" ELSE "run"
  BY <1>6, <1>7 DEF Kept, Checking
<1> QED BY <1>1, <1>6, <1>7, <1>8, <1>9, <1>11, <1>14, <1>15 DEF NewRequest, Given, Kept

\* What the handler of UpdateDeviceParams accepts is a new request.
LEMMA UpdateDeviceParamsIsNew ==
    ASSUME NEW r, NEW d \in Devices, NEW cfg \in Types, UpdateDeviceParams(r, d, cfg)
    PROVE  \E q : NewRequest(q) /\ Accept(r, q)
<1> PICK q : q = [UpdateDeviceParamsUseCase EXCEPT !.op = "update_device_params", !.id = d, !.config = cfg]
  OBVIOUS
<1>1. Accept(r, q)
  BY DEF UpdateDeviceParams
<1>3. Ready(UpdateDeviceParamsUseCase, TRUE, One("device_params"), TRUE)
  BY UseCases
<1>4. "update_device_params" \in Ops /\ d \in Ids
  BY KeyFacts DEF Ops, DeviceOps, TagOps, DiagramOps, FigureOps, ObjectOps
<1>5. cfg \in Types \cup {None}
  BY KeyFacts
<1>6. Given(q, "update_device_params", d, None, None, cfg, {}, {}) /\ Kept(q, TRUE, One("device_params"), TRUE)
  BY <1>3, <1>4, <1>5, GivenWithConfig
<1>7. q.op = "update_device_params" /\ q.id = d /\ q.parent = None /\ q.rereads = TRUE
  BY <1>6 DEF Given, Kept
<1>8. Kinds(q)
  BY <1>7 DEF Kinds, DeviceOps, TagOps, DiagramOps, FigureOps, ObjectOps, Announcing
<1>9. q.todo = One("device_params") /\ q.config = cfg
  BY <1>6 DEF Given, Kept
<1>10. Left(q, q.todo)
  BY <1>7, <1>9 DEF Left
<1>11. Whole(q)
  BY <1>7, <1>9, <1>10, PlanSteps DEF Whole, Plans
<1>12. q.op \in Creating <=> FALSE
  BY <1>7 DEF Creating
<1>13. Creates(q) = {}
  BY <1>6, <1>7, <1>12 DEF Creates, Drawing, Given
<1>14. /\ q.op \notin Creating => ~IsAbsent(db, q.id)
       /\ q.parent # None => ~IsAbsent(db, q.parent)
       /\ \A i \in Creates(q) : Fresh(i)
  BY <1>7, <1>12, <1>13 DEF UpdateDeviceParams, Exists, ObjectOrNone, IsAbsent
<1>15. q.phase = IF q.op \in Checking THEN "check" ELSE "run"
  BY <1>6, <1>7 DEF Kept, Checking
<1> QED BY <1>1, <1>6, <1>7, <1>8, <1>9, <1>11, <1>14, <1>15 DEF NewRequest, Given, Kept

\* What the handler of DeleteDevice accepts is a new request.
LEMMA DeleteDeviceIsNew ==
    ASSUME NEW r, NEW d \in Devices, DeleteDevice(r, d)
    PROVE  \E q : NewRequest(q) /\ Accept(r, q)
<1> PICK q : q = [DeleteDeviceUseCase EXCEPT !.op = "delete_device", !.id = d]
  OBVIOUS
<1>1. Accept(r, q)
  BY DEF DeleteDevice
<1>3. Ready(DeleteDeviceUseCase, TRUE, DeleteDevicePlan, FALSE)
  BY UseCases
<1>4. "delete_device" \in Ops /\ d \in Ids
  BY KeyFacts DEF Ops, DeviceOps, TagOps, DiagramOps, FigureOps, ObjectOps
<1>6. Given(q, "delete_device", d, None, None, None, {}, {}) /\ Kept(q, TRUE, DeleteDevicePlan, FALSE)
  BY <1>3, <1>4, GivenPlain
<1>7. q.op = "delete_device" /\ q.id = d /\ q.parent = None /\ q.rereads = FALSE
  BY <1>6 DEF Given, Kept
<1>8. Kinds(q)
  BY <1>7 DEF Kinds, DeviceOps, TagOps, DiagramOps, FigureOps, ObjectOps, Announcing
<1>9. q.todo = DeleteDevicePlan /\ q.config = None
  BY <1>6 DEF Given, Kept
<1>10. Left(q, q.todo)
  BY <1>7, <1>9 DEF Left
<1>11. Whole(q)
  BY <1>7, <1>9, <1>10, PlanSteps DEF Whole, Plans
<1>12. q.op \in Creating <=> FALSE
  BY <1>7 DEF Creating
<1>13. Creates(q) = {}
  BY <1>6, <1>7, <1>12 DEF Creates, Drawing, Given
<1>14. /\ q.op \notin Creating => ~IsAbsent(db, q.id)
       /\ q.parent # None => ~IsAbsent(db, q.parent)
       /\ \A i \in Creates(q) : Fresh(i)
  BY <1>7, <1>12, <1>13 DEF DeleteDevice, Exists, ObjectOrNone, IsAbsent
<1>15. q.phase = IF q.op \in Checking THEN "check" ELSE "run"
  BY <1>6, <1>7 DEF Kept, Checking
<1> QED BY <1>1, <1>6, <1>7, <1>8, <1>9, <1>11, <1>14, <1>15 DEF NewRequest, Given, Kept

\* What the handler of CreateTag accepts is a new request.
LEMMA CreateTagIsNew ==
    ASSUME NEW r, NEW t \in Tags, NEW d \in Devices, NEW cfg \in Types \cup {None}, NEW extras \in BOOLEAN, CreateTag(r, t, d, cfg, extras)
    PROVE  \E q : NewRequest(q) /\ Accept(r, q)
<1> PICK q : q = [CreateTagUseCase(cfg, extras) EXCEPT !.op = "create_tag", !.id = t, !.parent = d, !.config = cfg]
  OBVIOUS
<1>1. Accept(r, q)
  BY DEF CreateTag
<1>2. extras => cfg # None
  BY DEF CreateTag
<1>3. PICK steps \in {One("insert_tag"), TagWithParams, Tag4} :
            /\ Ready(CreateTagUseCase(cfg, extras), TRUE, steps, FALSE)
            /\ cfg = None => steps = One("insert_tag")
  BY <1>2, CreateTagReady
<1>4. "create_tag" \in Ops /\ t \in Ids
  BY KeyFacts DEF Ops, DeviceOps, TagOps, DiagramOps, FigureOps, ObjectOps
<1>5. d \in Ids \cup {None} /\ cfg \in Types \cup {None}
  BY KeyFacts
<1>6. Given(q, "create_tag", t, d, None, cfg, {}, {}) /\ Kept(q, TRUE, steps, FALSE)
  BY <1>3, <1>4, <1>5, GivenNewTag
<1>7. q.op = "create_tag" /\ q.id = t /\ q.parent = d /\ q.rereads = FALSE
  BY <1>6 DEF Given, Kept
<1>8. Kinds(q)
  BY <1>7 DEF Kinds, DeviceOps, TagOps, DiagramOps, FigureOps, ObjectOps, Announcing
<1>9. q.todo = steps /\ q.config = cfg
  BY <1>6 DEF Given, Kept
<1>10. Left(q, q.todo)
  BY <1>7, <1>9, <1>3 DEF Left
<1>11. Whole(q)
  BY <1>7, <1>9, <1>10, <1>3, PlanSteps DEF Whole, Plans
<1>12. q.op \in Creating <=> TRUE
  BY <1>7 DEF Creating
<1>13. Creates(q) = {t}
  BY <1>6, <1>7, <1>12 DEF Creates, Drawing, Given
<1>14. /\ q.op \notin Creating => ~IsAbsent(db, q.id)
       /\ q.parent # None => ~IsAbsent(db, q.parent)
       /\ \A i \in Creates(q) : Fresh(i)
  BY <1>7, <1>12, <1>13 DEF CreateTag, Exists, ObjectOrNone, IsAbsent
<1>15. q.phase = IF q.op \in Checking THEN "check" ELSE "run"
  BY <1>6, <1>7 DEF Kept, Checking
<1> QED BY <1>1, <1>6, <1>7, <1>8, <1>9, <1>11, <1>14, <1>15 DEF NewRequest, Given, Kept

\* What the handler of UpdateTag accepts is a new request.
LEMMA UpdateTagIsNew ==
    ASSUME NEW r, NEW t \in Tags, UpdateTag(r, t)
    PROVE  \E q : NewRequest(q) /\ Accept(r, q)
<1> PICK q : q = [UpdateTagUseCase EXCEPT !.op = "update_tag", !.id = t]
  OBVIOUS
<1>1. Accept(r, q)
  BY DEF UpdateTag
<1>3. Ready(UpdateTagUseCase, FALSE, One("update_tag"), TRUE)
  BY UseCases
<1>4. "update_tag" \in Ops /\ t \in Ids
  BY KeyFacts DEF Ops, DeviceOps, TagOps, DiagramOps, FigureOps, ObjectOps
<1>6. Given(q, "update_tag", t, None, None, None, {}, {}) /\ Kept(q, FALSE, One("update_tag"), TRUE)
  BY <1>3, <1>4, GivenPlain
<1>7. q.op = "update_tag" /\ q.id = t /\ q.parent = None /\ q.rereads = TRUE
  BY <1>6 DEF Given, Kept
<1>8. Kinds(q)
  BY <1>7 DEF Kinds, DeviceOps, TagOps, DiagramOps, FigureOps, ObjectOps, Announcing
<1>9. q.todo = One("update_tag") /\ q.config = None
  BY <1>6 DEF Given, Kept
<1>10. Left(q, q.todo)
  BY <1>7, <1>9 DEF Left
<1>11. Whole(q)
  BY <1>7, <1>9, <1>10, PlanSteps DEF Whole, Plans
<1>12. q.op \in Creating <=> FALSE
  BY <1>7 DEF Creating
<1>13. Creates(q) = {}
  BY <1>6, <1>7, <1>12 DEF Creates, Drawing, Given
<1>14. /\ q.op \notin Creating => ~IsAbsent(db, q.id)
       /\ q.parent # None => ~IsAbsent(db, q.parent)
       /\ \A i \in Creates(q) : Fresh(i)
  BY <1>7, <1>12, <1>13 DEF UpdateTag, Exists, ObjectOrNone, IsAbsent
<1>15. q.phase = IF q.op \in Checking THEN "check" ELSE "run"
  BY <1>6, <1>7 DEF Kept, Checking
<1> QED BY <1>1, <1>6, <1>7, <1>8, <1>9, <1>11, <1>14, <1>15 DEF NewRequest, Given, Kept

\* What the handler of UpdateTagParams accepts is a new request.
LEMMA UpdateTagParamsIsNew ==
    ASSUME NEW r, NEW t \in Tags, NEW cfg \in Types, UpdateTagParams(r, t, cfg)
    PROVE  \E q : NewRequest(q) /\ Accept(r, q)
<1> PICK q : q = [UpdateTagParamsUseCase EXCEPT !.op = "update_tag_params", !.id = t, !.config = cfg]
  OBVIOUS
<1>1. Accept(r, q)
  BY DEF UpdateTagParams
<1>3. Ready(UpdateTagParamsUseCase, TRUE, One("tag_params"), TRUE)
  BY UseCases
<1>4. "update_tag_params" \in Ops /\ t \in Ids
  BY KeyFacts DEF Ops, DeviceOps, TagOps, DiagramOps, FigureOps, ObjectOps
<1>5. cfg \in Types \cup {None}
  BY KeyFacts
<1>6. Given(q, "update_tag_params", t, None, None, cfg, {}, {}) /\ Kept(q, TRUE, One("tag_params"), TRUE)
  BY <1>3, <1>4, <1>5, GivenWithConfig
<1>7. q.op = "update_tag_params" /\ q.id = t /\ q.parent = None /\ q.rereads = TRUE
  BY <1>6 DEF Given, Kept
<1>8. Kinds(q)
  BY <1>7 DEF Kinds, DeviceOps, TagOps, DiagramOps, FigureOps, ObjectOps, Announcing
<1>9. q.todo = One("tag_params") /\ q.config = cfg
  BY <1>6 DEF Given, Kept
<1>10. Left(q, q.todo)
  BY <1>7, <1>9 DEF Left
<1>11. Whole(q)
  BY <1>7, <1>9, <1>10, PlanSteps DEF Whole, Plans
<1>12. q.op \in Creating <=> FALSE
  BY <1>7 DEF Creating
<1>13. Creates(q) = {}
  BY <1>6, <1>7, <1>12 DEF Creates, Drawing, Given
<1>14. /\ q.op \notin Creating => ~IsAbsent(db, q.id)
       /\ q.parent # None => ~IsAbsent(db, q.parent)
       /\ \A i \in Creates(q) : Fresh(i)
  BY <1>7, <1>12, <1>13 DEF UpdateTagParams, Exists, ObjectOrNone, IsAbsent
<1>15. q.phase = IF q.op \in Checking THEN "check" ELSE "run"
  BY <1>6, <1>7 DEF Kept, Checking
<1> QED BY <1>1, <1>6, <1>7, <1>8, <1>9, <1>11, <1>14, <1>15 DEF NewRequest, Given, Kept

\* What the handler of UpdateTagSetpoints accepts is a new request.
LEMMA UpdateTagSetpointsIsNew ==
    ASSUME NEW r, NEW t \in Tags, UpdateTagSetpoints(r, t)
    PROVE  \E q : NewRequest(q) /\ Accept(r, q)
<1> PICK q : q = [UpdateTagSetpointsUseCase EXCEPT !.op = "tag_extras", !.id = t]
  OBVIOUS
<1>1. Accept(r, q)
  BY DEF UpdateTagSetpoints
<1>3. Ready(UpdateTagSetpointsUseCase, TRUE, One("upsert_setpoints"), TRUE)
  BY UseCases
<1>4. "tag_extras" \in Ops /\ t \in Ids
  BY KeyFacts DEF Ops, DeviceOps, TagOps, DiagramOps, FigureOps, ObjectOps
<1>6. Given(q, "tag_extras", t, None, None, None, {}, {}) /\ Kept(q, TRUE, One("upsert_setpoints"), TRUE)
  BY <1>3, <1>4, GivenPlain
<1>7. q.op = "tag_extras" /\ q.id = t /\ q.parent = None /\ q.rereads = TRUE
  BY <1>6 DEF Given, Kept
<1>8. Kinds(q)
  BY <1>7 DEF Kinds, DeviceOps, TagOps, DiagramOps, FigureOps, ObjectOps, Announcing
<1>9. q.todo = One("upsert_setpoints") /\ q.config = None
  BY <1>6 DEF Given, Kept
<1>10. Left(q, q.todo)
  BY <1>7, <1>9 DEF Left
<1>11. Whole(q)
  BY <1>7, <1>9, <1>10, PlanSteps DEF Whole, Plans
<1>12. q.op \in Creating <=> FALSE
  BY <1>7 DEF Creating
<1>13. Creates(q) = {}
  BY <1>6, <1>7, <1>12 DEF Creates, Drawing, Given
<1>14. /\ q.op \notin Creating => ~IsAbsent(db, q.id)
       /\ q.parent # None => ~IsAbsent(db, q.parent)
       /\ \A i \in Creates(q) : Fresh(i)
  BY <1>7, <1>12, <1>13 DEF UpdateTagSetpoints, Exists, ObjectOrNone, IsAbsent
<1>15. q.phase = IF q.op \in Checking THEN "check" ELSE "run"
  BY <1>6, <1>7 DEF Kept, Checking
<1> QED BY <1>1, <1>6, <1>7, <1>8, <1>9, <1>11, <1>14, <1>15 DEF NewRequest, Given, Kept

\* What the handler of DeleteTagSetpoints accepts is a new request.
LEMMA DeleteTagSetpointsIsNew ==
    ASSUME NEW r, NEW t \in Tags, DeleteTagSetpoints(r, t)
    PROVE  \E q : NewRequest(q) /\ Accept(r, q)
<1> PICK q : q = [DeleteTagSetpointsUseCase EXCEPT !.op = "tag_extras", !.id = t]
  OBVIOUS
<1>1. Accept(r, q)
  BY DEF DeleteTagSetpoints
<1>3. Ready(DeleteTagSetpointsUseCase, TRUE, One("delete_setpoints"), TRUE)
  BY UseCases
<1>4. "tag_extras" \in Ops /\ t \in Ids
  BY KeyFacts DEF Ops, DeviceOps, TagOps, DiagramOps, FigureOps, ObjectOps
<1>6. Given(q, "tag_extras", t, None, None, None, {}, {}) /\ Kept(q, TRUE, One("delete_setpoints"), TRUE)
  BY <1>3, <1>4, GivenPlain
<1>7. q.op = "tag_extras" /\ q.id = t /\ q.parent = None /\ q.rereads = TRUE
  BY <1>6 DEF Given, Kept
<1>8. Kinds(q)
  BY <1>7 DEF Kinds, DeviceOps, TagOps, DiagramOps, FigureOps, ObjectOps, Announcing
<1>9. q.todo = One("delete_setpoints") /\ q.config = None
  BY <1>6 DEF Given, Kept
<1>10. Left(q, q.todo)
  BY <1>7, <1>9 DEF Left
<1>11. Whole(q)
  BY <1>7, <1>9, <1>10, PlanSteps DEF Whole, Plans
<1>12. q.op \in Creating <=> FALSE
  BY <1>7 DEF Creating
<1>13. Creates(q) = {}
  BY <1>6, <1>7, <1>12 DEF Creates, Drawing, Given
<1>14. /\ q.op \notin Creating => ~IsAbsent(db, q.id)
       /\ q.parent # None => ~IsAbsent(db, q.parent)
       /\ \A i \in Creates(q) : Fresh(i)
  BY <1>7, <1>12, <1>13 DEF DeleteTagSetpoints, Exists, ObjectOrNone, IsAbsent
<1>15. q.phase = IF q.op \in Checking THEN "check" ELSE "run"
  BY <1>6, <1>7 DEF Kept, Checking
<1> QED BY <1>1, <1>6, <1>7, <1>8, <1>9, <1>11, <1>14, <1>15 DEF NewRequest, Given, Kept

\* What the handler of UpdateTagScaling accepts is a new request.
LEMMA UpdateTagScalingIsNew ==
    ASSUME NEW r, NEW t \in Tags, UpdateTagScaling(r, t)
    PROVE  \E q : NewRequest(q) /\ Accept(r, q)
<1> PICK q : q = [UpdateTagScalingUseCase EXCEPT !.op = "tag_extras", !.id = t]
  OBVIOUS
<1>1. Accept(r, q)
  BY DEF UpdateTagScaling
<1>3. Ready(UpdateTagScalingUseCase, TRUE, One("upsert_scaling"), TRUE)
  BY UseCases
<1>4. "tag_extras" \in Ops /\ t \in Ids
  BY KeyFacts DEF Ops, DeviceOps, TagOps, DiagramOps, FigureOps, ObjectOps
<1>6. Given(q, "tag_extras", t, None, None, None, {}, {}) /\ Kept(q, TRUE, One("upsert_scaling"), TRUE)
  BY <1>3, <1>4, GivenPlain
<1>7. q.op = "tag_extras" /\ q.id = t /\ q.parent = None /\ q.rereads = TRUE
  BY <1>6 DEF Given, Kept
<1>8. Kinds(q)
  BY <1>7 DEF Kinds, DeviceOps, TagOps, DiagramOps, FigureOps, ObjectOps, Announcing
<1>9. q.todo = One("upsert_scaling") /\ q.config = None
  BY <1>6 DEF Given, Kept
<1>10. Left(q, q.todo)
  BY <1>7, <1>9 DEF Left
<1>11. Whole(q)
  BY <1>7, <1>9, <1>10, PlanSteps DEF Whole, Plans
<1>12. q.op \in Creating <=> FALSE
  BY <1>7 DEF Creating
<1>13. Creates(q) = {}
  BY <1>6, <1>7, <1>12 DEF Creates, Drawing, Given
<1>14. /\ q.op \notin Creating => ~IsAbsent(db, q.id)
       /\ q.parent # None => ~IsAbsent(db, q.parent)
       /\ \A i \in Creates(q) : Fresh(i)
  BY <1>7, <1>12, <1>13 DEF UpdateTagScaling, Exists, ObjectOrNone, IsAbsent
<1>15. q.phase = IF q.op \in Checking THEN "check" ELSE "run"
  BY <1>6, <1>7 DEF Kept, Checking
<1> QED BY <1>1, <1>6, <1>7, <1>8, <1>9, <1>11, <1>14, <1>15 DEF NewRequest, Given, Kept

\* What the handler of DeleteTagScaling accepts is a new request.
LEMMA DeleteTagScalingIsNew ==
    ASSUME NEW r, NEW t \in Tags, DeleteTagScaling(r, t)
    PROVE  \E q : NewRequest(q) /\ Accept(r, q)
<1> PICK q : q = [DeleteTagScalingUseCase EXCEPT !.op = "tag_extras", !.id = t]
  OBVIOUS
<1>1. Accept(r, q)
  BY DEF DeleteTagScaling
<1>3. Ready(DeleteTagScalingUseCase, TRUE, One("delete_scaling"), TRUE)
  BY UseCases
<1>4. "tag_extras" \in Ops /\ t \in Ids
  BY KeyFacts DEF Ops, DeviceOps, TagOps, DiagramOps, FigureOps, ObjectOps
<1>6. Given(q, "tag_extras", t, None, None, None, {}, {}) /\ Kept(q, TRUE, One("delete_scaling"), TRUE)
  BY <1>3, <1>4, GivenPlain
<1>7. q.op = "tag_extras" /\ q.id = t /\ q.parent = None /\ q.rereads = TRUE
  BY <1>6 DEF Given, Kept
<1>8. Kinds(q)
  BY <1>7 DEF Kinds, DeviceOps, TagOps, DiagramOps, FigureOps, ObjectOps, Announcing
<1>9. q.todo = One("delete_scaling") /\ q.config = None
  BY <1>6 DEF Given, Kept
<1>10. Left(q, q.todo)
  BY <1>7, <1>9 DEF Left
<1>11. Whole(q)
  BY <1>7, <1>9, <1>10, PlanSteps DEF Whole, Plans
<1>12. q.op \in Creating <=> FALSE
  BY <1>7 DEF Creating
<1>13. Creates(q) = {}
  BY <1>6, <1>7, <1>12 DEF Creates, Drawing, Given
<1>14. /\ q.op \notin Creating => ~IsAbsent(db, q.id)
       /\ q.parent # None => ~IsAbsent(db, q.parent)
       /\ \A i \in Creates(q) : Fresh(i)
  BY <1>7, <1>12, <1>13 DEF DeleteTagScaling, Exists, ObjectOrNone, IsAbsent
<1>15. q.phase = IF q.op \in Checking THEN "check" ELSE "run"
  BY <1>6, <1>7 DEF Kept, Checking
<1> QED BY <1>1, <1>6, <1>7, <1>8, <1>9, <1>11, <1>14, <1>15 DEF NewRequest, Given, Kept

\* What the handler of DeleteTag accepts is a new request.
LEMMA DeleteTagIsNew ==
    ASSUME NEW r, NEW t \in Tags, DeleteTag(r, t)
    PROVE  \E q : NewRequest(q) /\ Accept(r, q)
<1> PICK q : q = [DeleteTagUseCase EXCEPT !.op = "delete_tag", !.id = t]
  OBVIOUS
<1>1. Accept(r, q)
  BY DEF DeleteTag
<1>3. Ready(DeleteTagUseCase, TRUE, One("self"), FALSE)
  BY UseCases
<1>4. "delete_tag" \in Ops /\ t \in Ids
  BY KeyFacts DEF Ops, DeviceOps, TagOps, DiagramOps, FigureOps, ObjectOps
<1>6. Given(q, "delete_tag", t, None, None, None, {}, {}) /\ Kept(q, TRUE, One("self"), FALSE)
  BY <1>3, <1>4, GivenPlain
<1>7. q.op = "delete_tag" /\ q.id = t /\ q.parent = None /\ q.rereads = FALSE
  BY <1>6 DEF Given, Kept
<1>8. Kinds(q)
  BY <1>7 DEF Kinds, DeviceOps, TagOps, DiagramOps, FigureOps, ObjectOps, Announcing
<1>9. q.todo = One("self") /\ q.config = None
  BY <1>6 DEF Given, Kept
<1>10. Left(q, q.todo)
  BY <1>7, <1>9 DEF Left
<1>11. Whole(q)
  BY <1>7, <1>9, <1>10, PlanSteps DEF Whole, Plans
<1>12. q.op \in Creating <=> FALSE
  BY <1>7 DEF Creating
<1>13. Creates(q) = {}
  BY <1>6, <1>7, <1>12 DEF Creates, Drawing, Given
<1>14. /\ q.op \notin Creating => ~IsAbsent(db, q.id)
       /\ q.parent # None => ~IsAbsent(db, q.parent)
       /\ \A i \in Creates(q) : Fresh(i)
  BY <1>7, <1>12, <1>13 DEF DeleteTag, Exists, ObjectOrNone, IsAbsent
<1>15. q.phase = IF q.op \in Checking THEN "check" ELSE "run"
  BY <1>6, <1>7 DEF Kept, Checking
<1> QED BY <1>1, <1>6, <1>7, <1>8, <1>9, <1>11, <1>14, <1>15 DEF NewRequest, Given, Kept

\* What the handler of DeleteMonitoringObject accepts is a new request.
LEMMA DeleteMonitoringObjectIsNew ==
    ASSUME NEW r, NEW o \in Objects, DeleteMonitoringObject(r, o)
    PROVE  \E q : NewRequest(q) /\ Accept(r, q)
<1> PICK q : q = [DeleteObjectUseCase EXCEPT !.op = "delete_object", !.id = o]
  OBVIOUS
<1>1. Accept(r, q)
  BY DEF DeleteMonitoringObject
<1>3. Ready(DeleteObjectUseCase, FALSE, DeleteObjectPlan, FALSE)
  BY UseCases
<1>4. "delete_object" \in Ops /\ o \in Ids
  BY KeyFacts DEF Ops, DeviceOps, TagOps, DiagramOps, FigureOps, ObjectOps
<1>6. Given(q, "delete_object", o, None, None, None, {}, {}) /\ Kept(q, FALSE, DeleteObjectPlan, FALSE)
  BY <1>3, <1>4, GivenPlain
<1>7. q.op = "delete_object" /\ q.id = o /\ q.parent = None /\ q.rereads = FALSE
  BY <1>6 DEF Given, Kept
<1>8. Kinds(q)
  BY <1>7 DEF Kinds, DeviceOps, TagOps, DiagramOps, FigureOps, ObjectOps, Announcing
<1>9. q.todo = DeleteObjectPlan /\ q.config = None
  BY <1>6 DEF Given, Kept
<1>10. Left(q, q.todo)
  BY <1>7, <1>9 DEF Left
<1>11. Whole(q)
  BY <1>7, <1>9, <1>10, PlanSteps DEF Whole, Plans
<1>12. q.op \in Creating <=> FALSE
  BY <1>7 DEF Creating
<1>13. Creates(q) = {}
  BY <1>6, <1>7, <1>12 DEF Creates, Drawing, Given
<1>14. /\ q.op \notin Creating => ~IsAbsent(db, q.id)
       /\ q.parent # None => ~IsAbsent(db, q.parent)
       /\ \A i \in Creates(q) : Fresh(i)
  BY <1>7, <1>12, <1>13 DEF DeleteMonitoringObject, Exists, ObjectOrNone, IsAbsent
<1>15. q.phase = IF q.op \in Checking THEN "check" ELSE "run"
  BY <1>6, <1>7 DEF Kept, Checking
<1> QED BY <1>1, <1>6, <1>7, <1>8, <1>9, <1>11, <1>14, <1>15 DEF NewRequest, Given, Kept

\* What the handler of DeleteDiagram accepts is a new request.
LEMMA DeleteDiagramIsNew ==
    ASSUME NEW r, NEW g \in Diagrams, DeleteDiagram(r, g)
    PROVE  \E q : NewRequest(q) /\ Accept(r, q)
<1> PICK q : q = [DeleteDiagramUseCase EXCEPT !.op = "delete_diagram", !.id = g]
  OBVIOUS
<1>1. Accept(r, q)
  BY DEF DeleteDiagram
<1>3. Ready(DeleteDiagramUseCase, FALSE, DeleteDiagramPlan, FALSE)
  BY UseCases
<1>4. "delete_diagram" \in Ops /\ g \in Ids
  BY KeyFacts DEF Ops, DeviceOps, TagOps, DiagramOps, FigureOps, ObjectOps
<1>6. Given(q, "delete_diagram", g, None, None, None, {}, {}) /\ Kept(q, FALSE, DeleteDiagramPlan, FALSE)
  BY <1>3, <1>4, GivenPlain
<1>7. q.op = "delete_diagram" /\ q.id = g /\ q.parent = None /\ q.rereads = FALSE
  BY <1>6 DEF Given, Kept
<1>8. Kinds(q)
  BY <1>7 DEF Kinds, DeviceOps, TagOps, DiagramOps, FigureOps, ObjectOps, Announcing
<1>9. q.todo = DeleteDiagramPlan /\ q.config = None
  BY <1>6 DEF Given, Kept
<1>10. Left(q, q.todo)
  BY <1>7, <1>9 DEF Left
<1>11. Whole(q)
  BY <1>7, <1>9, <1>10, PlanSteps DEF Whole, Plans
<1>12. q.op \in Creating <=> FALSE
  BY <1>7 DEF Creating
<1>13. Creates(q) = {}
  BY <1>6, <1>7, <1>12 DEF Creates, Drawing, Given
<1>14. /\ q.op \notin Creating => ~IsAbsent(db, q.id)
       /\ q.parent # None => ~IsAbsent(db, q.parent)
       /\ \A i \in Creates(q) : Fresh(i)
  BY <1>7, <1>12, <1>13 DEF DeleteDiagram, Exists, ObjectOrNone, IsAbsent
<1>15. q.phase = IF q.op \in Checking THEN "check" ELSE "run"
  BY <1>6, <1>7 DEF Kept, Checking
<1> QED BY <1>1, <1>6, <1>7, <1>8, <1>9, <1>11, <1>14, <1>15 DEF NewRequest, Given, Kept

\* What the handler of CreateFigures accepts is a new request.
LEMMA CreateFiguresIsNew ==
    ASSUME NEW r, NEW g \in Diagrams, NEW new \in SUBSET Figures, CreateFigures(r, g, new)
    PROVE  \E q : NewRequest(q) /\ Accept(r, q)
<1> PICK q : q = [CreateFiguresUseCase EXCEPT !.op = "create_figures", !.id = g, !.new = new]
  OBVIOUS
<1>1. Accept(r, q)
  BY DEF CreateFigures
<1>3. Ready(CreateFiguresUseCase, FALSE, One("insert_figures"), FALSE)
  BY UseCases
<1>4. "create_figures" \in Ops /\ g \in Ids
  BY KeyFacts DEF Ops, DeviceOps, TagOps, DiagramOps, FigureOps, ObjectOps
<1>5. new \in SUBSET Figures
  BY KeyFacts
<1>6. Given(q, "create_figures", g, None, None, None, {}, new) /\ Kept(q, FALSE, One("insert_figures"), FALSE)
  BY <1>3, <1>4, <1>5, GivenWithNew
<1>7. q.op = "create_figures" /\ q.id = g /\ q.parent = None /\ q.rereads = FALSE
  BY <1>6 DEF Given, Kept
<1>8. Kinds(q)
  BY <1>7 DEF Kinds, DeviceOps, TagOps, DiagramOps, FigureOps, ObjectOps, Announcing
<1>9. q.todo = One("insert_figures") /\ q.config = None
  BY <1>6 DEF Given, Kept
<1>10. Left(q, q.todo)
  BY <1>7, <1>9 DEF Left
<1>11. Whole(q)
  BY <1>7, <1>9, <1>10, PlanSteps DEF Whole, Plans
<1>12. q.op \in Creating <=> FALSE
  BY <1>7 DEF Creating
<1>13. Creates(q) = new
  BY <1>6, <1>7, <1>12 DEF Creates, Drawing, Given
<1>14. /\ q.op \notin Creating => ~IsAbsent(db, q.id)
       /\ q.parent # None => ~IsAbsent(db, q.parent)
       /\ \A i \in Creates(q) : Fresh(i)
  BY <1>7, <1>12, <1>13 DEF CreateFigures, Exists, ObjectOrNone, IsAbsent
<1>15. q.phase = IF q.op \in Checking THEN "check" ELSE "run"
  BY <1>6, <1>7 DEF Kept, Checking
<1> QED BY <1>1, <1>6, <1>7, <1>8, <1>9, <1>11, <1>14, <1>15 DEF NewRequest, Given, Kept

\* What the handler of BulkUpsertFigures accepts is a new request.
LEMMA BulkUpsertFiguresIsNew ==
    ASSUME NEW r, NEW g \in Diagrams, NEW keep \in SUBSET Figures, NEW new \in SUBSET Figures, BulkUpsertFigures(r, g, keep, new)
    PROVE  \E q : NewRequest(q) /\ Accept(r, q)
<1> PICK q : q = [BulkUpsertUseCase EXCEPT !.op = "bulk", !.id = g, !.keep = keep, !.new = new]
  OBVIOUS
<1>1. Accept(r, q)
  BY DEF BulkUpsertFigures
<1>3. Ready(BulkUpsertUseCase, FALSE, BulkPlan, FALSE)
  BY UseCases
<1>4. "bulk" \in Ops /\ g \in Ids
  BY KeyFacts DEF Ops, DeviceOps, TagOps, DiagramOps, FigureOps, ObjectOps
<1>5. keep \in SUBSET Figures /\ new \in SUBSET Figures
  BY KeyFacts
<1>6. Given(q, "bulk", g, None, None, None, keep, new) /\ Kept(q, FALSE, BulkPlan, FALSE)
  BY <1>3, <1>4, <1>5, GivenWithBoth
<1>7. q.op = "bulk" /\ q.id = g /\ q.parent = None /\ q.rereads = FALSE
  BY <1>6 DEF Given, Kept
<1>8. Kinds(q)
  BY <1>7 DEF Kinds, DeviceOps, TagOps, DiagramOps, FigureOps, ObjectOps, Announcing
<1>9. q.todo = BulkPlan /\ q.config = None
  BY <1>6 DEF Given, Kept
<1>10. Left(q, q.todo)
  BY <1>7, <1>9 DEF Left
<1>11. Whole(q)
  BY <1>7, <1>9, <1>10, PlanSteps DEF Whole, Plans
<1>12. q.op \in Creating <=> FALSE
  BY <1>7 DEF Creating
<1>13. Creates(q) = new
  BY <1>6, <1>7, <1>12 DEF Creates, Drawing, Given
<1>14. /\ q.op \notin Creating => ~IsAbsent(db, q.id)
       /\ q.parent # None => ~IsAbsent(db, q.parent)
       /\ \A i \in Creates(q) : Fresh(i)
  BY <1>7, <1>12, <1>13 DEF BulkUpsertFigures, Exists, ObjectOrNone, IsAbsent
<1>15. q.phase = IF q.op \in Checking THEN "check" ELSE "run"
  BY <1>6, <1>7 DEF Kept, Checking
<1> QED BY <1>1, <1>6, <1>7, <1>8, <1>9, <1>11, <1>14, <1>15 DEF NewRequest, Given, Kept

\* What the handler of DeleteFigure accepts is a new request.
LEMMA DeleteFigureIsNew ==
    ASSUME NEW r, NEW f \in Figures, DeleteFigure(r, f)
    PROVE  \E q : NewRequest(q) /\ Accept(r, q)
<1> PICK q : q = [DeleteFigureUseCase EXCEPT !.op = "delete_figure", !.id = f]
  OBVIOUS
<1>1. Accept(r, q)
  BY DEF DeleteFigure
<1>3. Ready(DeleteFigureUseCase, FALSE, One("self"), FALSE)
  BY UseCases
<1>4. "delete_figure" \in Ops /\ f \in Ids
  BY KeyFacts DEF Ops, DeviceOps, TagOps, DiagramOps, FigureOps, ObjectOps
<1>6. Given(q, "delete_figure", f, None, None, None, {}, {}) /\ Kept(q, FALSE, One("self"), FALSE)
  BY <1>3, <1>4, GivenPlain
<1>7. q.op = "delete_figure" /\ q.id = f /\ q.parent = None /\ q.rereads = FALSE
  BY <1>6 DEF Given, Kept
<1>8. Kinds(q)
  BY <1>7 DEF Kinds, DeviceOps, TagOps, DiagramOps, FigureOps, ObjectOps, Announcing
<1>9. q.todo = One("self") /\ q.config = None
  BY <1>6 DEF Given, Kept
<1>10. Left(q, q.todo)
  BY <1>7, <1>9 DEF Left
<1>11. Whole(q)
  BY <1>7, <1>9, <1>10, PlanSteps DEF Whole, Plans
<1>12. q.op \in Creating <=> FALSE
  BY <1>7 DEF Creating
<1>13. Creates(q) = {}
  BY <1>6, <1>7, <1>12 DEF Creates, Drawing, Given
<1>14. /\ q.op \notin Creating => ~IsAbsent(db, q.id)
       /\ q.parent # None => ~IsAbsent(db, q.parent)
       /\ \A i \in Creates(q) : Fresh(i)
  BY <1>7, <1>12, <1>13 DEF DeleteFigure, Exists, ObjectOrNone, IsAbsent
<1>15. q.phase = IF q.op \in Checking THEN "check" ELSE "run"
  BY <1>6, <1>7 DEF Kept, Checking
<1> QED BY <1>1, <1>6, <1>7, <1>8, <1>9, <1>11, <1>14, <1>15 DEF NewRequest, Given, Kept

\* Whatever a handler accepts is a new request with a known plan.
LEMMA RequestIsNew ==
    ASSUME NEW r,
           InventoryRequest(r) \/ MimicRequest(r) \/ \E o \in Objects : DeleteMonitoringObject(r, o)
    PROVE  \E q : NewRequest(q) /\ Accept(r, q)
<1>1. CASE InventoryRequest(r)
  BY <1>1, CreateDeviceIsNew, UpdateDeviceIsNew, AssignDeviceToObjectIsNew, UpdateDeviceParamsIsNew,
     DeleteDeviceIsNew, CreateTagIsNew, UpdateTagIsNew, DeleteTagIsNew, UpdateTagSetpointsIsNew,
     DeleteTagSetpointsIsNew, UpdateTagScalingIsNew, DeleteTagScalingIsNew, UpdateTagParamsIsNew
     DEF InventoryRequest
<1>2. CASE MimicRequest(r)
  BY <1>2, DeleteDiagramIsNew, CreateFiguresIsNew, BulkUpsertFiguresIsNew, DeleteFigureIsNew
     DEF MimicRequest
<1>3. CASE \E o \in Objects : DeleteMonitoringObject(r, o)
  BY <1>3, DeleteMonitoringObjectIsNew
<1> QED BY <1>1, <1>2, <1>3

-----------------------------------------------------------------------------
(* The base of every proof. *)

\* What is there has a parent of its kind that is there.
References(d) ==
    \A i \in Inside :
        /\ Parent(d, i) \in MayHold(i) \cup {None}
        /\ (~IsAbsent(d, i) /\ i \notin Devices => Parent(d, i) # None)
        /\ (Parent(d, i) # None => ~IsAbsent(d, Parent(d, i)))

\* A row of an entity as a transaction of q leaves it.
RowWritten(d, q, i, new) ==
    \/ /\ i \in Creates(q) /\ IsAbsent(d, i) /\ new.state = "live"
       /\ new.parent = IF q.op \in Drawing THEN q.id ELSE q.parent
       /\ new.type = IF q.op = "create_device" THEN q.type ELSE None
    \/ /\ i \notin Creates(q) /\ Live(d, i) /\ new.state \in {"live", "deleted"}
       /\ new.parent = IF q.op = "assign_device" THEN q.parent ELSE Parent(d, i)
       /\ new.type = IF q.op = "update_device" /\ q.type # None THEN q.type
                     ELSE d[<<"row", i>>].type
       /\ (q.op \in Updating => i = q.id)
       /\ (i \in Devices \cup Tags /\ new.state = "live" => i = q.id /\ q.op \in Announcing)

ParamsWritten(q, t, i, new) ==
    /\ (i \in Figures => q.op \in Drawing /\ <<"row", i>> \in DOMAIN t)
    /\ (i \notin Figures =>
          /\ i = q.id /\ q.op \in {"create_device", "update_device_params", "create_tag",
                                   "update_tag_params"}
          /\ new.state = "live" /\ new.type = q.config)

KeyWritten(d, q, t, k, new) ==
    /\ k \in Keys /\ new \in Row
    /\ (k[1] = "row" => RowWritten(d, q, k[2], new))
    /\ (k[1] = "params" => ParamsWritten(q, t, k[2], new))
    /\ (k[1] \in Extras => k[2] = q.id /\ q.op \in {"create_tag", "tag_extras"})

Written(d, q, t) == \A k \in DOMAIN t : KeyWritten(d, q, t, k, t[k])

Active == {"check", "run"}
Planned(d, q, t) ==
    /\ (q.phase # "idle" => Kinds(q))
    /\ (q.phase \in Active =>
          /\ Left(q, q.todo)
          /\ \A i \in Creates(q) : IsAbsent(d, i)
          /\ (q.op \notin Creating => ~IsAbsent(d, q.id))
          /\ (q.parent # None => ~IsAbsent(d, q.parent)))
    /\ (q.phase = "check" => Whole(q) /\ q.op \in Checking)
    /\ (q.phase = "reread" => q.rereads)
    /\ (q.phase # "run" => DOMAIN t = {})

\* A bulk save holds the rows it has found and locked.
BulkHeld(d, q, t) ==
    q.op = "bulk" /\ q.phase = "run" =>
        /\ (q.todo = BulkPlan => q.found = {})
        /\ (q.todo \in {BulkPlan, Bulk5} => DOMAIN t = {})
        /\ (q.todo \notin {BulkPlan, Bulk5} => \A f \in q.found : <<"row", f>> \in DOMAIN t)
        /\ (q.todo \in {Bulk4, Bulk3, Bulk2} => \A f \in q.found : t[<<"row", f>>].state = "live")
        /\ \A f \in q.found : Parent(d, f) = q.id /\ ~IsAbsent(d, f)

Well(d, q, t) == Planned(d, q, t) /\ Written(d, q, t) /\ BulkHeld(d, q, t)

Over(d, t) == [k \in Keys |-> IF k \in DOMAIN t THEN t[k] ELSE d[k]]

Apart(r, s) == DOMAIN tx[r] \cap DOMAIN tx[s] = {} /\ Creates(req[r]) \cap Creates(req[s]) = {}
Alone == \A r, s \in Requests : r # s => Apart(r, s)

Base ==
    /\ db \in [Keys -> Row] /\ References(db)
    /\ req \in [Requests -> Request] /\ DOMAIN tx = Requests
    /\ \A r \in Requests : Well(db, req[r], tx[r])
    /\ Alone

\* Where a bulk save stands.
LEMMA BulkTodo ==
    ASSUME NEW q, q.op = "bulk", Left(q, q.todo), q.todo # <<>>
    PROVE  /\ q.todo \in {BulkPlan, Bulk5, Bulk4, Bulk3, Bulk2, One("delete_rest_params")}
           /\ (NextOf(q.todo) = "snapshot_figures" <=> q.todo = BulkPlan)
           /\ (NextOf(q.todo) = "lock_figures" <=> q.todo = Bulk5)
           /\ (NextOf(q.todo) = "insert_figures" <=> q.todo = Bulk4)
           /\ (NextOf(q.todo) = "update_kept" <=> q.todo = Bulk3)
           /\ (NextOf(q.todo) = "delete_rest" <=> q.todo = Bulk2)
           /\ (NextOf(q.todo) = "delete_rest_params" <=> q.todo = One("delete_rest_params"))
           /\ RestOf(BulkPlan) = Bulk5 /\ RestOf(Bulk5) = Bulk4 /\ RestOf(Bulk4) = Bulk3
           /\ RestOf(Bulk3) = Bulk2 /\ RestOf(Bulk2) = One("delete_rest_params")
           /\ RestOf(One("delete_rest_params")) = <<>>
<1>1. q.todo \in {BulkPlan, Bulk5, Bulk4, Bulk3, Bulk2, One("delete_rest_params")}
  BY DEF Left
<1>2. /\ NextOf(BulkPlan) = "snapshot_figures" /\ NextOf(Bulk5) = "lock_figures"
      /\ NextOf(Bulk4) = "insert_figures" /\ NextOf(Bulk3) = "update_kept"
      /\ NextOf(Bulk2) = "delete_rest" /\ NextOf(One("delete_rest_params")) = "delete_rest_params"
  BY PlanSteps DEF Plans
<1>3. /\ RestOf(BulkPlan) = Bulk5 /\ RestOf(Bulk5) = Bulk4 /\ RestOf(Bulk4) = Bulk3
      /\ RestOf(Bulk3) = Bulk2 /\ RestOf(Bulk2) = One("delete_rest_params")
      /\ RestOf(One("delete_rest_params")) = <<>>
  BY PlanSteps DEF Plans
<1> QED BY <1>1, <1>2, <1>3

\* The stages of a bulk save differ.
LEMMA BulkDistinct ==
    /\ Bulk4 \notin {BulkPlan, Bulk5} /\ Bulk3 \notin {BulkPlan, Bulk5}
    /\ Bulk2 \notin {BulkPlan, Bulk5} /\ One("delete_rest_params") \notin {BulkPlan, Bulk5}
    /\ <<>> \notin {BulkPlan, Bulk5} /\ BulkPlan # Bulk5
    /\ Bulk5 \notin {Bulk4, Bulk3, Bulk2} /\ One("delete_rest_params") \notin {Bulk4, Bulk3, Bulk2}
    /\ <<>> \notin {Bulk4, Bulk3, Bulk2} /\ Bulk4 # Bulk3 /\ Bulk4 # Bulk2 /\ Bulk3 # Bulk2
BY PlanSteps DEF Plans

\* A statement of a transaction leaves it well.
LEMMA ViewRow ==
    ASSUME NEW d \in [Keys -> Row], NEW q \in Request, NEW t, Written(d, q, t),
           NEW v, v = Over(d, t)
    PROVE  /\ v \in [Keys -> Row]
           /\ \A k \in Keys : v[k] = IF k \in DOMAIN t THEN t[k] ELSE d[k]
           /\ \A k \in DOMAIN t : t[k] \in Row
           /\ DOMAIN t \subseteq Keys
BY DEF Written, KeyWritten, Over

\* A row that a transaction has written and writes again.
LEMMA RowStaysWritten ==
    ASSUME NEW d \in [Keys -> Row], NEW q \in Request, NEW t, Well(d, q, t), q.phase = "run", Kinds(q),
           NEW s, Belongs(q, s), s = NextOf(q.todo), q.todo # <<>>,
           NEW v, v = Over(d, t), NEW i \in Ids, NEW new \in Row,
           Insertion(s, q, i, new) \/ Update(s, v, q, i, new) \/ Deletion(s, v, q, i, new)
    PROVE  RowWritten(d, q, i, new)
<1> PICK k : k = <<"row", i>>
  OBVIOUS
<1>1. k \in Keys /\ k[1] = "row" /\ k[2] = i
  BY KeyFacts
<1>2. v[k] = IF k \in DOMAIN t THEN t[k] ELSE d[k]
  BY <1>1, ViewRow DEF Well
<1>3. \A j \in Creates(q) : IsAbsent(d, j)
  BY DEF Well, Planned, Active
<1>4. d[k] \in Row
  BY <1>1
<1>5. CASE Insertion(s, q, i, new)
  <2>1. i \in Creates(q) /\ IsAbsent(d, i) /\ new.state = "live"
    BY <1>3, <1>5 DEF Insertion
  <2>2. /\ s = "insert_device" => q.op = "create_device"
        /\ s = "insert_tag" => q.op = "create_tag"
        /\ s = "insert_figures" => q.op \in Drawing
        /\ s \in Inserting
    BY <1>5 DEF Insertion, Belongs
  <2>3. new.parent = IF q.op \in Drawing THEN q.id ELSE q.parent
    BY <1>5, <2>2 DEF Insertion, Inserting, Drawing
  <2>4. new.type = IF q.op = "create_device" THEN q.type ELSE None
    BY <1>5, <2>2 DEF Insertion, Inserting, Drawing
  <2> QED BY <2>1, <2>3, <2>4 DEF RowWritten
<1>6. ASSUME i \notin Creates(q), v[k].state = "live", new.state \in {"live", "deleted"},
             new.parent = IF s = "assign_device" THEN q.parent ELSE v[k].parent,
             new.type = IF s = "update_device" /\ q.type # None THEN q.type ELSE v[k].type,
             s \in Updating => i = q.id,
             i \in Devices \cup Tags /\ new.state = "live" => s \in Updating
      PROVE  RowWritten(d, q, i, new)
  <2>1. s \in Updating => q.op = s
    BY DEF Belongs, Updating
  <2>2. q.op \in Updating => s = q.op
    BY PlanSteps DEF Well, Planned, Active, Left, Plans, Updating
  <2>3. /\ d[k].state = "live"
        /\ v[k].parent = IF q.op = "assign_device" /\ k \in DOMAIN t THEN q.parent ELSE d[k].parent
        /\ v[k].type = IF q.op = "update_device" /\ q.type # None /\ k \in DOMAIN t THEN q.type ELSE d[k].type
    <3>1. CASE k \notin DOMAIN t
      BY <3>1, <1>2, <1>6
    <3>2. CASE k \in DOMAIN t
      <4>1. RowWritten(d, q, i, t[k])
        BY <3>2, <1>1 DEF Well, Written, KeyWritten
      <4>2. /\ Live(d, i) /\ t[k].parent = IF q.op = "assign_device" THEN q.parent ELSE Parent(d, i)
            /\ t[k].type = IF q.op = "update_device" /\ q.type # None THEN q.type
                           ELSE d[<<"row", i>>].type
        BY <4>1, <1>6 DEF RowWritten
      <4> QED BY <3>2, <4>2, <1>2 DEF Live, Parent
    <3> QED BY <3>1, <3>2
  <2>4. new.parent = IF q.op = "assign_device" THEN q.parent ELSE d[k].parent
    BY <2>1, <2>2, <2>3, <1>6 DEF Updating
  <2>5. new.type = IF q.op = "update_device" /\ q.type # None THEN q.type ELSE d[k].type
    BY <2>1, <2>2, <2>3, <1>6 DEF Updating
  <2>6. q.op \in Updating => i = q.id
    BY <2>2, <1>6
  <2>7. i \in Devices \cup Tags /\ new.state = "live" => i = q.id /\ q.op \in Announcing
    BY <2>1, <1>6 DEF Updating, Announcing
  <2> QED BY <1>6, <2>3, <2>4, <2>5, <2>6, <2>7 DEF RowWritten, Live, Parent
<1>7. ASSUME i \in q.found, q.op = "bulk" PROVE i \notin Creates(q) /\ i \notin Devices \cup Tags
  <2>1. ~IsAbsent(d, i)
    BY <1>7 DEF Well, BulkHeld
  <2>2. i \in Figures
    BY <1>7 DEF Request
  <2> QED BY <2>1, <2>2, <1>3, NamesAssumption DEF Inside
<1>8. s \in Updating => Creates(q) = {}
  BY CreatesFacts DEF Belongs, Updating, Creating, Drawing
<1>9. CASE Update(s, v, q, i, new)
  <2>1. s \in {"lock_figures", "update_kept"} => q.op = "bulk"
    BY DEF Belongs
  <2>2. i \notin Creates(q) /\ (i \in Devices \cup Tags => s \in Updating)
    BY <1>9, <2>1, <1>7, <1>8 DEF Update
  <2>3. s = "update_kept" => v[k].state = "live"
    <3> SUFFICES ASSUME s = "update_kept" PROVE v[k].state = "live"
      OBVIOUS
    <3>1. i \in q.found /\ q.op = "bulk"
      BY <1>9, <2>1 DEF Update
    <3>2. q.todo = Bulk3
      BY <3>1, BulkTodo DEF Well, Planned, Active
    <3>3. k \in DOMAIN t /\ t[k].state = "live"
      BY <3>1, <3>2, BulkDistinct DEF Well, BulkHeld
    <3> QED BY <3>3, <1>2
  <2>4. v[k].state = "live"
    BY <1>9, <2>3 DEF Update, Live
  <2> QED BY <1>6, <1>9, <2>2, <2>4 DEF Update, Parent
<1>10. CASE Deletion(s, v, q, i, new)
  <2>1. v[k] \in Row
    BY <1>1, ViewRow DEF Well
  <2>2. new.state = "deleted" /\ new.parent = v[k].parent /\ new.type = v[k].type
    BY <1>10, <2>1, BuriedFacts DEF Deletion
  <2>3. s \notin Updating /\ s \in Deleting
    BY <1>10 DEF Deletion, Updating, Deleting, Cascading
  <2>4. CASE s = "delete_rest"
    <3>1. i \in q.found /\ q.op = "bulk"
      BY <2>4, <1>10 DEF Deletion, Dooms, Belongs
    <3>2. q.todo = Bulk2
      BY <2>4, <3>1, BulkTodo DEF Well, Planned, Active
    <3>3. k \in DOMAIN t /\ t[k].state = "live"
      BY <3>1, <3>2, BulkDistinct DEF Well, BulkHeld
    <3>4. v[k].state = "live"
      BY <3>3, <1>2
    <3> QED BY <1>6, <1>7, <3>1, <3>4, <2>2, <2>3, <2>4 DEF Updating
  <2>5. CASE s # "delete_rest"
    <3>1. Creates(q) = {}
      BY <2>3, <2>5, CreatesFacts DEF Belongs, Deleting, Cascading, Creating, Drawing
    <3>2. v[k].state = "live"
      BY <2>5, <1>10 DEF Deletion, Dooms, Live
    <3> QED BY <1>6, <3>1, <3>2, <2>2, <2>3 DEF Updating
  <2> QED BY <2>4, <2>5
<1> QED BY <1>5, <1>9, <1>10

\* What a statement leaves as it is in its request.
SameRequest(q, p) ==
    /\ p.op = q.op /\ p.id = q.id /\ p.parent = q.parent /\ p.type = q.type
    /\ p.config = q.config /\ p.keep = q.keep /\ p.new = q.new /\ p.rereads = q.rereads

\* The request after statement s, which saw v and changed c.
Advanced(q, p, s, v, c) ==
    /\ p \in Request /\ SameRequest(q, p) /\ p.phase = q.phase /\ p.payload = q.payload
    /\ p.todo = RestOf(q.todo)
    /\ p.found = (IF s = "snapshot_figures" THEN LiveUnder(v, q.id, Figures)
                  ELSE IF s = "lock_figures" THEN {f \in q.found : Live(v, f)}
                  ELSE q.found)
    /\ p.touched = q.touched \cup Touched(s, q, {k[2] : k \in DOMAIN c})

Adding(t, c) == [k \in DOMAIN c \cup DOMAIN t |-> IF k \in DOMAIN c THEN c[k] ELSE t[k]]

\* What is left of a plan is a known list of statements.
LEMMA LeftIsKnown ==
    ASSUME NEW q, NEW todo, Kinds(q), Left(q, todo)
    PROVE  todo \in Todos
<1>1. /\ {Device2, DeleteDevicePlan, DeleteDiagramPlan, Tag4, Tag3, Tag2, TagWithParams,
          DeleteObjectPlan, Object4, Object3, Object2, BulkPlan, Bulk5, Bulk4, Bulk3, Bulk2} \subseteq Todos
      /\ <<>> \in Todos
  BY TodosFacts
<1>2. \A s \in {"device_params", "update_device", "assign_device", "self", "insert_tag", "tag_params",
                "upsert_scaling", "update_tag", "upsert_setpoints", "delete_setpoints",
                "delete_scaling", "insert_figures", "delete_rest_params"} : One(s) \in Todos
  BY TodosFacts DEF Statements, ExtraSteps
<1>3. q.op \in DeviceOps => todo \in Todos
  BY <1>1, <1>2 DEF Left, DeviceOps
<1>4. q.op \in TagOps => todo \in Todos
  BY <1>1, <1>2 DEF Left, TagOps
<1>5. q.op \in DiagramOps => todo \in Todos
  BY <1>1, <1>2 DEF Left, DiagramOps
<1>6. q.op \in FigureOps \cup ObjectOps => todo \in Todos
  BY <1>1, <1>2 DEF Left, FigureOps, ObjectOps
<1> QED BY <1>3, <1>4, <1>5, <1>6 DEF Kinds

\* What a statement will announce is about known entities.
LEMMA TouchedFacts ==
    ASSUME NEW q \in Request, NEW s, NEW ids \in SUBSET Ids
    PROVE  Touched(s, q, ids) \in SUBSET Touch
<1>1. q.new \subseteq Ids /\ q.keep \subseteq Ids
  BY KeyFacts DEF Request
<1> DEFINE Named(some, what) == {[id |-> i, op |-> what] : i \in some}
<1>2. ASSUME NEW some \in SUBSET Ids, NEW what \in {"created", "updated", "deleted"}
      PROVE  Named(some, what) \in SUBSET Touch
  BY DEF Touch
<1>3. Named(q.new, "created") \in SUBSET Touch
  BY <1>1, <1>2
<1>4. Named(q.keep, "updated") \in SUBSET Touch
  BY <1>1, <1>2
<1>5. Named(ids, "deleted") \in SUBSET Touch
  BY <1>2
<1>6. Touched(s, q, ids) \in {Named(q.new, "created"), Named(q.keep, "updated"), Named(ids, "deleted"), {}}
  BY DEF Touched
<1> QED BY <1>3, <1>4, <1>5, <1>6

\* A request after a statement.
LEMMA KnowsFacts ==
    ASSUME NEW q \in Request, Kinds(q), NEW s, NEW v, NEW c, DOMAIN c \subseteq Keys,
           Left(q, RestOf(q.todo)), NEW p, p = Knows(q, s, v, c)
    PROVE  Advanced(q, p, s, v, c)
<1> DEFINE parent == IF s = "insert_figures" THEN q.id ELSE q.parent
<1> PICK todo : todo = RestOf(q.todo)
  OBVIOUS
<1> PICK found : found = IF s = "snapshot_figures" THEN LiveUnder(v, q.id, Figures)
                         ELSE IF s = "lock_figures" THEN {f \in q.found : Live(v, f)}
                         ELSE q.found
  OBVIOUS
<1> PICK began : began = IF s \in Attaches /\ parent # None THEN Live(db, parent) ELSE q.began
  OBVIOUS
<1> PICK touched : touched = q.touched \cup Touched(s, q, {k[2] : k \in DOMAIN c})
  OBVIOUS
<1>1. p = [q EXCEPT !.todo = todo, !.found = found, !.began = began, !.touched = touched]
  BY DEF Knows, RestOf
<1>2. todo \in Todos
  BY LeftIsKnown
<1>3. found \in SUBSET Figures
  BY DEF LiveUnder, Request
<1>4. began \in BOOLEAN
  BY DEF Live, Request
<1>5. {k[2] : k \in DOMAIN c} \in SUBSET Ids
  BY KeyFacts
<1>6. touched \in SUBSET Touch
  BY <1>5, TouchedFacts DEF Request
<1>7. p \in Request
  BY <1>1, <1>2, <1>3, <1>4, <1>6 DEF Request
<1>8. p.todo = todo /\ p.found = found /\ p.touched = touched
  BY <1>1 DEF Request
<1>9. SameRequest(q, p) /\ p.phase = q.phase /\ p.payload = q.payload
  BY <1>1 DEF Request, SameRequest
<1> QED BY <1>7, <1>8, <1>9 DEF Advanced

\* What follows for a request that a statement leaves as it is.
LEMMA SameFacts ==
    ASSUME NEW q, NEW p, SameRequest(q, p)
    PROVE  /\ Kinds(q) => Kinds(p)
           /\ \A todo : Left(q, todo) => Left(p, todo)
           /\ Creates(p) = Creates(q)
           /\ \A d, i, new : RowWritten(d, q, i, new) => RowWritten(d, p, i, new)
           /\ \A t, i, new : ParamsWritten(q, t, i, new) => ParamsWritten(p, t, i, new)
           /\ \A d, t, k, new : KeyWritten(d, q, t, k, new) => KeyWritten(d, p, t, k, new)
<1>1. Kinds(q) => Kinds(p)
  BY DEF SameRequest, Kinds
<1>2. \A todo : Left(q, todo) => Left(p, todo)
  BY DEF SameRequest, Left
<1>3. Creates(p) = Creates(q)
  BY DEF SameRequest, Creates
<1>4. \A d, i, new : RowWritten(d, q, i, new) => RowWritten(d, p, i, new)
  BY <1>3 DEF SameRequest, RowWritten
<1>5. \A t, i, new : ParamsWritten(q, t, i, new) => ParamsWritten(p, t, i, new)
  BY DEF SameRequest, ParamsWritten
<1>6. \A d, t, k, new : KeyWritten(d, q, t, k, new) => KeyWritten(d, p, t, k, new)
  BY <1>4, <1>5 DEF SameRequest, KeyWritten
<1> QED BY <1>1, <1>2, <1>3, <1>4, <1>5, <1>6

\* The insert of figures writes each new figure and its parameters.
LEMMA InsertedFigures ==
    ASSUME NEW v, NEW q, NEW c, c = Changes("insert_figures", v, q), NEW i
    PROVE  /\ <<"row", i>> \in DOMAIN c <=> i \in q.new
           /\ <<"params", i>> \in DOMAIN c <=> i \in q.new
<1>1. c = InsertFigures(v, q)
  BY DEF Changes
<1>2. DOMAIN c = {"row", "params"} \X q.new
  BY <1>1 DEF InsertFigures
<1> QED BY <1>2

\* A transaction holds only what its statements write, after one more too.
LEMMA StatementWrites ==
    ASSUME NEW d \in [Keys -> Row], NEW q \in Request, NEW t, Well(d, q, t), q.phase = "run", Kinds(q),
           NEW s, Belongs(q, s), s = NextOf(q.todo), q.todo # <<>>,
           NEW v, v = Over(d, t), NEW c, c = Changes(s, v, q), NEW t2, t2 = Adding(t, c)
    PROVE  Written(d, q, t2)
<1>1. DOMAIN t2 = DOMAIN c \cup DOMAIN t
  BY DEF Adding
<1>2. \A k \in DOMAIN t2 : t2[k] = IF k \in DOMAIN c THEN c[k] ELSE t[k]
  BY DEF Adding
<1>3. v \in [Keys -> Row]
  BY ViewRow DEF Well
<1>4. Effect(s, v, q, c)
  BY <1>3, EffectOfStatement
<1> SUFFICES ASSUME NEW k \in DOMAIN t2
             PROVE  KeyWritten(d, q, t2, k, t2[k])
  BY DEF Written
<1>5. CASE k \notin DOMAIN c
  <2>1. KeyWritten(d, q, t, k, t[k]) /\ t2[k] = t[k]
    BY <1>1, <1>2, <1>5 DEF Well, Written
  <2> QED BY <1>1, <2>1 DEF KeyWritten, ParamsWritten
<1>6. CASE k \in DOMAIN c
  <2> PICK new : new = c[k]
    OBVIOUS
  <2>1. t2[k] = new
    BY <1>2, <1>6
  <2>2. Change(s, v, q, k, new)
    BY <1>4, <1>6 DEF Effect
  <2>3. k \in Keys /\ new \in Row
    BY <2>2 DEF Change
  <2>4. k[2] \in Ids /\ k = <<k[1], k[2]>>
    BY <2>3, KeyFacts
  <2>5. k[1] = "row" => RowWritten(d, q, k[2], new)
    BY <2>2, <2>3, <2>4, RowStaysWritten DEF Change
  <2>6. k[1] \in Extras => k[2] = q.id /\ q.op \in {"create_tag", "tag_extras"}
    BY <2>2 DEF Change, Belongs
  <2>7. ASSUME k[1] = "params" PROVE ParamsWritten(q, t2, k[2], new)
    <3>1. Settings(s, v, q, k[2], new)
      BY <2>2, <2>7 DEF Change
    <3>2. CASE s = "insert_figures"
      <4>1. q.op \in Drawing /\ <<"row", k[2]>> \in DOMAIN c
        BY <1>6, <2>4, <2>7, <3>2, InsertedFigures DEF Belongs
      <4>2. k[2] \in Figures
        BY <3>1, <3>2 DEF Settings, Request
      <4> QED BY <4>1, <4>2, <1>1 DEF ParamsWritten
    <3>3. CASE s \in {"device_params", "tag_params"}
      <4>1. /\ q.op \in {"create_device", "update_device_params", "create_tag", "update_tag_params"}
            /\ q.id \in Devices \cup Tags
        BY <3>3 DEF Belongs, Kinds, DeviceOps, TagOps
      <4>2. k[2] = q.id /\ new.state = "live" /\ new.type = q.config
        BY <3>1, <3>3 DEF Settings
      <4> QED BY <4>1, <4>2, NamesAssumption DEF ParamsWritten
    <3>4. CASE s \in {"update_kept", "delete_rest_params"}
      <4>1. q.op = "bulk" /\ k[2] \in q.found
        BY <3>1, <3>4 DEF Settings, Belongs
      <4>2. q.todo \notin {BulkPlan, Bulk5}
        BY <3>4, <4>1, BulkTodo, BulkDistinct DEF Well, Planned, Active
      <4>3. <<"row", k[2]>> \in DOMAIN t /\ k[2] \in Figures
        BY <4>1, <4>2 DEF Well, BulkHeld, Request
      <4> QED BY <4>1, <4>3, <1>1 DEF ParamsWritten, Drawing
    <3> QED BY <3>1, <3>2, <3>3, <3>4 DEF Settings
  <2> QED BY <2>1, <2>3, <2>5, <2>6, <2>7 DEF KeyWritten
<1> QED BY <1>5, <1>6

\* A bulk save holds what it has found, after one more statement too.
LEMMA StatementHolds ==
    ASSUME NEW d \in [Keys -> Row], NEW q \in Request, NEW t, Well(d, q, t), q.phase = "run", Kinds(q),
           NEW s, Belongs(q, s), s = NextOf(q.todo), q.todo # <<>>,
           NEW v, v = Over(d, t), NEW c, c = Changes(s, v, q), NEW t2, t2 = Adding(t, c),
           NEW p, Advanced(q, p, s, v, c)
    PROVE  BulkHeld(d, p, t2)
<1> SUFFICES ASSUME q.op = "bulk"
             PROVE  BulkHeld(d, p, t2)
  BY DEF BulkHeld, Advanced, SameRequest
<1>1. /\ DOMAIN t2 = DOMAIN c \cup DOMAIN t
      /\ \A k \in DOMAIN t2 : t2[k] = IF k \in DOMAIN c THEN c[k] ELSE t[k]
  BY DEF Adding
<1>2. /\ v \in [Keys -> Row] /\ DOMAIN t \subseteq Keys
      /\ \A k \in Keys : v[k] = IF k \in DOMAIN t THEN t[k] ELSE d[k]
  BY ViewRow DEF Well
<1>3. Effect(s, v, q, c)
  BY <1>2, EffectOfStatement
<1>4. Left(q, q.todo)
  BY DEF Well, Planned, Active
<1>5. /\ (q.todo = BulkPlan => q.found = {})
      /\ (q.todo \in {BulkPlan, Bulk5} => DOMAIN t = {})
      /\ (q.todo \notin {BulkPlan, Bulk5} => \A f \in q.found : <<"row", f>> \in DOMAIN t)
      /\ (q.todo \in {Bulk4, Bulk3, Bulk2} => \A f \in q.found : t[<<"row", f>>].state = "live")
      /\ \A f \in q.found : Parent(d, f) = q.id /\ ~IsAbsent(d, f)
  BY DEF Well, BulkHeld
<1>6. p.todo = RestOf(q.todo) /\ p.id = q.id
  BY DEF Advanced, SameRequest
<1>7. \A f \in Figures : <<"row", f>> \in Keys
  BY KeyFacts
<1>8. CASE q.todo = BulkPlan
  <2>1. s = "snapshot_figures" /\ p.todo = Bulk5
    BY <1>4, <1>6, <1>8, BulkTodo
  <2>2. c = Nothing
    BY <2>1 DEF Changes
  <2>3. DOMAIN t2 = {}
    BY <1>1, <1>5, <1>8, <2>2, NothingFacts
  <2>4. p.found = LiveUnder(v, q.id, Figures)
    BY <2>1 DEF Advanced
  <2>5. \A f \in p.found : Parent(d, f) = q.id /\ ~IsAbsent(d, f)
    BY <1>2, <1>5, <1>7, <1>8, <2>4 DEF LiveUnder, Live, Parent, IsAbsent
  <2> QED BY <2>1, <2>3, <2>5, <1>6, BulkDistinct DEF BulkHeld
<1>9. CASE q.todo = Bulk5
  <2>1. s = "lock_figures" /\ p.todo = Bulk4
    BY <1>4, <1>6, <1>9, BulkTodo
  <2>2. p.found = {f \in q.found : Live(v, f)}
    BY <2>1 DEF Advanced
  <2>3. c = [k \in {"row"} \X {f \in q.found : Live(v, f)} |-> v[k]]
    BY <2>1 DEF Changes, LockFigures
  <2>4. \A f \in p.found : <<"row", f>> \in DOMAIN c /\ c[<<"row", f>>].state = "live"
    BY <2>2, <2>3 DEF Live
  <2>5. \A f \in p.found : <<"row", f>> \in DOMAIN t2 /\ t2[<<"row", f>>].state = "live"
    BY <2>4, <1>1
  <2> QED BY <2>1, <2>2, <2>5, <1>5, <1>6, BulkDistinct DEF BulkHeld
<1>10. CASE q.todo \in {Bulk4, Bulk3}
  <2>1. s \in {"insert_figures", "update_kept"} /\ p.todo \in {Bulk3, Bulk2}
    BY <1>4, <1>6, <1>10, BulkTodo
  <2>2. p.found = q.found
    BY <2>1 DEF Advanced
  <2>3. \A f \in q.found : <<"row", f>> \in DOMAIN t /\ t[<<"row", f>>].state = "live"
    BY <1>5, <1>10, BulkDistinct
  <2>4. ASSUME NEW f \in q.found PROVE <<"row", f>> \in DOMAIN t2 /\ t2[<<"row", f>>].state = "live"
    <3> PICK k : k = <<"row", f>>
      OBVIOUS
    <3>1. k[1] = "row" /\ k[2] = f
      OBVIOUS
    <3>2. k \in DOMAIN t /\ t[k].state = "live"
      BY <2>3
    <3>3. CASE k \in DOMAIN c
      <4>1. Change(s, v, q, k, c[k])
        BY <1>3, <3>3 DEF Effect
      <4>2. Insertion(s, q, f, c[k]) \/ Update(s, v, q, f, c[k])
        BY <4>1, <3>1, <2>1 DEF Change, Deletion, Deleting, Cascading
      <4>3. c[k].state = "live"
        BY <4>2 DEF Insertion, Update
      <4> QED BY <4>3, <3>3, <1>1
    <3> QED BY <3>2, <3>3, <1>1
  <2> QED BY <2>1, <2>2, <2>4, <1>5, <1>6, BulkDistinct DEF BulkHeld
<1>11. CASE q.todo \in {Bulk2, One("delete_rest_params")}
  <2>1. s \in {"delete_rest", "delete_rest_params"} /\ p.todo \in {One("delete_rest_params"), <<>>}
    BY <1>4, <1>6, <1>11, BulkTodo
  <2>2. p.found = q.found
    BY <2>1 DEF Advanced
  <2>3. \A f \in q.found : <<"row", f>> \in DOMAIN t2
    BY <1>1, <1>5, <1>11, BulkDistinct
  <2> QED BY <2>1, <2>2, <2>3, <1>5, <1>6, BulkDistinct DEF BulkHeld
<1> QED BY <1>4, <1>8, <1>9, <1>10, <1>11, BulkTodo

\* A statement of a request leaves its transaction well.
LEMMA StatementWell ==
    ASSUME NEW d \in [Keys -> Row], NEW q \in Request, NEW t, Well(d, q, t), q.phase = "run",
           NEW s, s = NextOf(q.todo), q.todo # <<>>,
           NEW v, v = Over(d, t), NEW c, c = Changes(s, v, q), NEW t2, t2 = Adding(t, c),
           NEW p, p = Knows(q, s, v, c)
    PROVE  /\ Kinds(q) /\ Belongs(q, s) /\ Effect(s, v, q, c) /\ Advanced(q, p, s, v, c)
           /\ Well(d, p, t2)
<1>1. Kinds(q) /\ Left(q, q.todo)
  BY DEF Well, Planned, Active
<1>2. Belongs(q, s) /\ Left(q, RestOf(q.todo))
  BY <1>1, NextStatement DEF NextOf, RestOf
<1>3. v \in [Keys -> Row]
  BY ViewRow DEF Well
<1>4. Effect(s, v, q, c)
  BY <1>1, <1>2, <1>3, EffectOfStatement
<1>5. DOMAIN c \subseteq Keys
  BY <1>4 DEF Effect, Change
<1>6. Advanced(q, p, s, v, c)
  BY <1>1, <1>2, <1>5, KnowsFacts
<1>7. Written(d, q, t2)
  BY <1>1, <1>2, StatementWrites
<1>8. SameRequest(q, p) /\ p.phase = "run" /\ p.todo = RestOf(q.todo)
  BY <1>6 DEF Advanced
<1>9. Written(d, p, t2)
  BY <1>7, <1>8, SameFacts DEF Written
<1>10. BulkHeld(d, p, t2)
  BY <1>1, <1>2, <1>6, StatementHolds
<1>11. Planned(d, p, t2)
  <2>1. Kinds(p) /\ Left(p, p.todo) /\ Creates(p) = Creates(q)
    BY <1>1, <1>2, <1>8, SameFacts
  <2>2. /\ \A i \in Creates(q) : IsAbsent(d, i)
        /\ (q.op \notin Creating => ~IsAbsent(d, q.id))
        /\ (q.parent # None => ~IsAbsent(d, q.parent))
    BY DEF Well, Planned, Active
  <2> QED BY <1>8, <2>1, <2>2 DEF Planned, SameRequest
<1> QED BY <1>1, <1>2, <1>4, <1>6, <1>9, <1>10, <1>11 DEF Well

\* Kinds of entities are apart, each with its kind of parent.
LEMMA KindFacts ==
    /\ \A i \in Devices : MayHold(i) = Objects
    /\ \A i \in Tags : MayHold(i) = Devices
    /\ \A i \in Figures : MayHold(i) = Diagrams
    /\ \A i \in Diagrams : MayHold(i) = Objects
    /\ Inside \subseteq Ids /\ None \notin Ids
    /\ \A i \in Inside : MayHold(i) \subseteq Ids
    /\ Devices \cap Tags = {} /\ Devices \cap Diagrams = {} /\ Devices \cap Figures = {}
    /\ Tags \cap Diagrams = {} /\ Tags \cap Figures = {} /\ Diagrams \cap Figures = {}
    /\ \A o \in Objects : o \notin Inside
BY NamesAssumption DEF MayHold, Inside, Ids

\* What a request creates is of the kind of its operation.
LEMMA CreatedKinds ==
    ASSUME NEW q \in Request, Kinds(q), NEW i \in Creates(q)
    PROVE  \/ q.op = "create_device" /\ i = q.id /\ i \in Devices
           \/ q.op = "create_tag" /\ i = q.id /\ i \in Tags
           \/ q.op \in Drawing /\ i \in q.new /\ i \in Figures
BY DEF Creates, Creating, Drawing, Kinds, DeviceOps, TagOps, Request

\* The rows after a commit.
LEMMA OverFacts ==
    ASSUME NEW d \in [Keys -> Row], NEW q \in Request, NEW t, Well(d, q, t),
           NEW e, e = Over(d, t)
    PROVE  /\ e \in [Keys -> Row]
           /\ \A i \in Ids :
                \/ <<"row", i>> \notin DOMAIN t /\ e[<<"row", i>>] = d[<<"row", i>>]
                \/ <<"row", i>> \in DOMAIN t /\ e[<<"row", i>>] = t[<<"row", i>>]
                   /\ RowWritten(d, q, i, e[<<"row", i>>])
           /\ \A i \in Ids : ~IsAbsent(d, i) => ~IsAbsent(e, i)
<1>1. /\ e \in [Keys -> Row]
      /\ \A k \in Keys : e[k] = IF k \in DOMAIN t THEN t[k] ELSE d[k]
  BY ViewRow DEF Well
<1>2. ASSUME NEW i \in Ids
      PROVE  \/ <<"row", i>> \notin DOMAIN t /\ e[<<"row", i>>] = d[<<"row", i>>]
             \/ <<"row", i>> \in DOMAIN t /\ e[<<"row", i>>] = t[<<"row", i>>]
                /\ RowWritten(d, q, i, e[<<"row", i>>])
  <2> PICK k : k = <<"row", i>>
    OBVIOUS
  <2>1. k \in Keys /\ k[1] = "row" /\ k[2] = i
    BY KeyFacts
  <2>2. e[k] = IF k \in DOMAIN t THEN t[k] ELSE d[k]
    BY <1>1, <2>1
  <2>3. k \in DOMAIN t => RowWritten(d, q, i, t[k])
    BY <2>1 DEF Well, Written, KeyWritten
  <2> QED BY <2>2, <2>3
<1>3. ASSUME NEW i \in Ids, ~IsAbsent(d, i) PROVE ~IsAbsent(e, i)
  <2>1. CASE e[<<"row", i>>] = d[<<"row", i>>]
    BY <2>1, <1>3 DEF IsAbsent
  <2>2. CASE RowWritten(d, q, i, e[<<"row", i>>])
    BY <2>2 DEF RowWritten, IsAbsent
  <2> QED BY <1>2, <2>1, <2>2
<1> QED BY <1>1, <1>2, <1>3

\* After a commit, what is there still has a parent that is there.
LEMMA CommitReferences ==
    ASSUME NEW d \in [Keys -> Row], NEW q \in Request, NEW t, Well(d, q, t), q.phase = "run",
           References(d), NEW e, e = Over(d, t)
    PROVE  References(e)
<1>1. Kinds(q) /\ (q.parent # None => ~IsAbsent(d, q.parent)) /\ (q.op \notin Creating => ~IsAbsent(d, q.id))
  BY DEF Well, Planned, Active
<1>2. \A i \in Ids : ~IsAbsent(d, i) => ~IsAbsent(e, i)
  BY OverFacts
<1> SUFFICES ASSUME NEW i \in Inside
             PROVE  /\ Parent(e, i) \in MayHold(i) \cup {None}
                    /\ (~IsAbsent(e, i) /\ i \notin Devices => Parent(e, i) # None)
                    /\ (Parent(e, i) # None => ~IsAbsent(e, Parent(e, i)))
  BY DEF References
<1>3. i \in Ids /\ MayHold(i) \subseteq Ids /\ None \notin Ids
  BY KindFacts
<1> PICK k : k = <<"row", i>>
  OBVIOUS
<1>4. /\ Parent(d, i) \in MayHold(i) \cup {None}
      /\ (~IsAbsent(d, i) /\ i \notin Devices => Parent(d, i) # None)
      /\ (Parent(d, i) # None => ~IsAbsent(d, Parent(d, i)))
  BY DEF References
<1>5. CASE e[k] = d[k]
  <2>1. Parent(e, i) = Parent(d, i) /\ (IsAbsent(e, i) <=> IsAbsent(d, i))
    BY <1>5 DEF Parent, IsAbsent
  <2> QED BY <2>1, <1>2, <1>3, <1>4
<1>6. CASE RowWritten(d, q, i, e[k])
  <2>1. CASE i \in Creates(q)
    <3>1. e[k].parent = IF q.op \in Drawing THEN q.id ELSE q.parent
      BY <1>6, <2>1 DEF RowWritten
    <3>2. CASE q.op = "create_device"
      <4>1. i \in Devices /\ MayHold(i) = Objects
        BY <2>1, <3>2, <1>1, CreatedKinds, KindFacts DEF Drawing
      <4>2. Parent(e, i) = q.parent /\ q.parent \in Objects \cup {None}
        BY <3>1, <3>2, <1>1 DEF Parent, Kinds, Drawing
      <4> QED BY <4>1, <4>2, <1>1, <1>2, <1>3
    <3>3. CASE q.op = "create_tag"
      <4>1. i \in Tags /\ MayHold(i) = Devices
        BY <2>1, <3>3, <1>1, CreatedKinds, KindFacts DEF Drawing
      <4>2. Parent(e, i) = q.parent /\ q.parent \in Devices
        BY <3>1, <3>3, <1>1 DEF Parent, Kinds, Drawing
      <4> QED BY <4>1, <4>2, <1>1, <1>2, <1>3
    <3>4. CASE q.op \in Drawing
      <4>1. i \in Figures /\ MayHold(i) = Diagrams
        BY <2>1, <3>4, <1>1, CreatedKinds, KindFacts DEF Drawing
      <4>2. Parent(e, i) = q.id /\ q.id \in Diagrams
        BY <3>1, <3>4, <1>1 DEF Parent, Kinds, Drawing, DiagramOps
      <4>3. ~IsAbsent(d, q.id)
        BY <1>1, <3>4 DEF Drawing, Creating
      <4> QED BY <4>1, <4>2, <4>3, <1>2, <1>3
    <3> QED BY <2>1, <3>2, <3>3, <3>4, <1>1, CreatedKinds
  <2>2. CASE i \notin Creates(q)
    <3>1. /\ Live(d, i) /\ e[k].parent = IF q.op = "assign_device" THEN q.parent ELSE Parent(d, i)
          /\ (q.op = "assign_device" => i = q.id)
      BY <1>6, <2>2 DEF RowWritten, Updating
    <3>2. ~IsAbsent(d, i)
      BY <3>1 DEF Live, IsAbsent
    <3>3. CASE q.op = "assign_device"
      <4>1. i \in Devices /\ MayHold(i) = Objects /\ q.parent \in Objects \cup {None}
        BY <3>1, <3>3, <1>1, KindFacts DEF Kinds, DeviceOps
      <4>2. Parent(e, i) = q.parent
        BY <3>1, <3>3 DEF Parent
      <4> QED BY <4>1, <4>2, <1>1, <1>2, <1>3
    <3>4. CASE q.op # "assign_device"
      <4>1. Parent(e, i) = Parent(d, i)
        BY <3>1, <3>4 DEF Parent
      <4> QED BY <4>1, <3>2, <1>2, <1>3, <1>4
    <3> QED BY <3>3, <3>4
  <2> QED BY <2>1, <2>2
<1> QED BY <1>3, <1>5, <1>6, OverFacts

\* A commit changes nothing of what another transaction has written.
LEMMA CommitOthers ==
    ASSUME NEW d \in [Keys -> Row], NEW q \in Request, NEW t, Well(d, q, t),
           NEW p \in Request, NEW u, Well(d, p, u), DOMAIN t \cap DOMAIN u = {},
           Creates(q) \cap Creates(p) = {}, NEW e, e = Over(d, t)
    PROVE  Well(e, p, u)
<1>1. \A i \in Ids : ~IsAbsent(d, i) => ~IsAbsent(e, i)
  BY OverFacts
<1>2. \A i \in Ids : <<"row", i>> \in DOMAIN u => e[<<"row", i>>] = d[<<"row", i>>]
  BY OverFacts
<1>3. \A i \in Ids : i \in Creates(p) /\ IsAbsent(d, i) => IsAbsent(e, i)
  <2> SUFFICES ASSUME NEW i \in Ids, i \in Creates(p), IsAbsent(d, i)
               PROVE  IsAbsent(e, i)
    OBVIOUS
  <2>1. ~RowWritten(d, q, i, e[<<"row", i>>])
    BY DEF RowWritten, Live, IsAbsent
  <2>2. e[<<"row", i>>] = d[<<"row", i>>]
    BY <2>1, OverFacts
  <2> QED BY <2>2 DEF IsAbsent
<1>4. Planned(e, p, u)
  <2>1. p.phase \in Active =>
          /\ \A i \in Creates(p) : IsAbsent(e, i)
          /\ (p.op \notin Creating => ~IsAbsent(e, p.id))
          /\ (p.parent # None => ~IsAbsent(e, p.parent))
    <3> SUFFICES ASSUME p.phase \in Active
                 PROVE  /\ \A i \in Creates(p) : IsAbsent(e, i)
                        /\ (p.op \notin Creating => ~IsAbsent(e, p.id))
                        /\ (p.parent # None => ~IsAbsent(e, p.parent))
      OBVIOUS
    <3>1. Kinds(p) /\ \A i \in Creates(p) : IsAbsent(d, i)
      BY DEF Well, Planned, Active
    <3>2. /\ (p.op \notin Creating => ~IsAbsent(d, p.id))
          /\ (p.parent # None => ~IsAbsent(d, p.parent))
      BY DEF Well, Planned
    <3>3. Creates(p) \subseteq Ids
      BY <3>1, CreatedKinds, KeyFacts
    <3>4. p.id \in Ids
      BY <3>1, KeyFacts DEF Kinds
    <3>5. p.parent \in Ids \cup {None}
      BY DEF Request
    <3> QED BY <3>1, <3>2, <3>3, <3>4, <3>5, <1>1, <1>3
  <2> QED BY <2>1 DEF Well, Planned
<1>5. Written(e, p, u)
  <2> SUFFICES ASSUME NEW k \in DOMAIN u
               PROVE  KeyWritten(e, p, u, k, u[k])
    BY DEF Written
  <2>1. KeyWritten(d, p, u, k, u[k])
    BY DEF Well, Written
  <2>2. k \in Keys /\ k = <<k[1], k[2]>> /\ k[2] \in Ids
    BY <2>1, KeyFacts DEF KeyWritten
  <2>3. ASSUME k[1] = "row" PROVE RowWritten(e, p, k[2], u[k])
    <3>1. RowWritten(d, p, k[2], u[k])
      BY <2>1, <2>3 DEF KeyWritten
    <3>2. e[<<"row", k[2]>>] = d[<<"row", k[2]>>]
      BY <1>2, <2>2, <2>3
    <3> QED BY <3>1, <3>2 DEF RowWritten, Live, IsAbsent, Parent
  <2> QED BY <2>1, <2>3 DEF KeyWritten
<1>6. BulkHeld(e, p, u)
  <2> SUFFICES ASSUME p.op = "bulk", p.phase = "run"
               PROVE  BulkHeld(e, p, u)
    BY DEF BulkHeld
  <2>1. \A f \in p.found : Parent(d, f) = p.id /\ ~IsAbsent(d, f)
    BY DEF Well, BulkHeld
  <2>2. ASSUME NEW f \in p.found PROVE Parent(e, f) = p.id /\ ~IsAbsent(e, f)
    <3>1. f \in Ids /\ f \in Figures
      BY KeyFacts DEF Request
    <3>2. ~IsAbsent(e, f)
      BY <1>1, <2>1, <3>1
    <3>3. ASSUME <<"row", f>> \in DOMAIN t, RowWritten(d, q, f, e[<<"row", f>>])
          PROVE  Parent(e, f) = Parent(d, f)
      <4>1. Kinds(q)
        BY <3>3 DEF Well, Planned
      <4>2. q.op # "assign_device"
        BY <4>1, <3>1, <3>3, <2>1, KindFacts DEF RowWritten, Updating, Kinds, DeviceOps
      <4> QED BY <3>3, <2>1, <4>2 DEF RowWritten, Parent
    <3> QED BY <3>1, <3>2, <3>3, <2>1, OverFacts DEF Parent
  <2> QED BY <2>2 DEF Well, BulkHeld
<1> QED BY <1>4, <1>5, <1>6 DEF Well

\* The base holds at the start.
LEMMA InitialBase == Init => Base
<1> SUFFICES ASSUME Init PROVE Base
  OBVIOUS
<1>1. TheType \in Types
  BY NamesAssumption DEF TheType
<1>2. Absent \in Row /\ Absent.state = "absent" /\ Absent.parent = None
  BY DEF Absent, Row
<1> DEFINE Row0(k) == [state |-> "live", version |-> 0,
                     parent |-> IF k[1] = "row" /\ k[2] \notin Objects THEN HomeOf[k[2]] ELSE None,
                     type |-> IF k[2] \in Devices \/ (k[2] \in Tags /\ k[1] = "params")
                              THEN TheType ELSE None]
<1>3. db = [k \in Keys |-> IF k[2] \notin Initial \/ k[1] \in Extras THEN Absent ELSE Row0(k)]
  BY DEF Init
<1>4. ASSUME NEW k \in Keys PROVE Row0(k) \in Row
  <2>1. k[2] \in Ids
    BY KeyFacts
  <2>2. k[2] \notin Objects => k[2] \in Inside /\ HomeOf[k[2]] \in Ids
    BY <2>1, KindFacts, InitialAssumption DEF Ids, Inside
  <2>3. (IF k[1] = "row" /\ k[2] \notin Objects THEN HomeOf[k[2]] ELSE None) \in Ids \cup {None}
    BY <2>2
  <2>4. (IF k[2] \in Devices \/ (k[2] \in Tags /\ k[1] = "params") THEN TheType ELSE None) \in Types \cup {None}
    BY <1>1
  <2> QED BY <2>3, <2>4 DEF Row
<1>5. db \in [Keys -> Row]
  <2> HIDE DEF Row0
  <2> QED BY <1>2, <1>3, <1>4
<1>6. ASSUME NEW i \in Ids
      PROVE  /\ (i \notin Initial => IsAbsent(db, i) /\ Parent(db, i) = None)
             /\ (i \in Initial => /\ Live(db, i) /\ ~IsAbsent(db, i)
                                  /\ Parent(db, i) = IF i \in Objects THEN None ELSE HomeOf[i])
  <2> PICK k : k = <<"row", i>>
    OBVIOUS
  <2>1. k \in Keys /\ k[1] = "row" /\ k[2] = i
    BY KeyFacts
  <2>2. db[k] = IF i \notin Initial THEN Absent ELSE Row0(k)
    BY <1>3, <2>1 DEF Extras
  <2>3. Row0(k).state = "live" /\ Row0(k).parent = IF i \in Objects THEN None ELSE HomeOf[i]
    BY <2>1
  <2> HIDE DEF Row0
  <2> QED BY <1>2, <2>2, <2>3 DEF IsAbsent, Live, Parent
<1>7. References(db)
  <2> SUFFICES ASSUME NEW i \in Inside
               PROVE  /\ Parent(db, i) \in MayHold(i) \cup {None}
                      /\ (~IsAbsent(db, i) /\ i \notin Devices => Parent(db, i) # None)
                      /\ (Parent(db, i) # None => ~IsAbsent(db, Parent(db, i)))
    BY DEF References
  <2>1. i \in Ids /\ i \notin Objects /\ MayHold(i) \subseteq Ids /\ None \notin Ids
    BY KindFacts
  <2>2. HomeOf[i] \in MayHold(i) /\ (i \in Initial => HomeOf[i] \in Initial)
    BY InitialAssumption
  <2> QED BY <2>1, <2>2, <1>6
<1>8. Ready(UseCase(FALSE, <<>>, FALSE), FALSE, <<>>, FALSE)
  BY TodosFacts, UseCaseFacts
<1>9. req = [r \in Requests |-> Idle] /\ tx = [r \in Requests |-> Nothing]
  BY DEF Init
<1>10. Idle \in Request /\ Idle.op = "none" /\ Idle.phase = "idle"
  BY TodosFacts DEF Idle, Request, Ops, Phases
<1>11. Well(db, Idle, Nothing)
  BY <1>10, NothingFacts DEF Well, Planned, Written, BulkHeld, Active
<1>12. Creates(Idle) = {}
  BY <1>10 DEF Creates, Creating, Drawing
<1> HIDE DEF Row0
<1> QED BY <1>5, <1>7, <1>9, <1>10, <1>11, <1>12, NothingFacts DEF Base, Alone, Apart

\* A request that is answered has nothing to do and nothing written.
LEMMA IdleFacts ==
    /\ Idle \in Request /\ Idle.op = "none" /\ Idle.phase = "idle" /\ Creates(Idle) = {}
    /\ \A d : Well(d, Idle, Nothing)
<1>10. Idle \in Request /\ Idle.op = "none" /\ Idle.phase = "idle"
  BY TodosFacts DEF Idle, Request, Ops, Phases
<1>11. \A d : Well(d, Idle, Nothing)
  BY <1>10, NothingFacts DEF Well, Planned, Written, BulkHeld, Active
<1>12. Creates(Idle) = {}
  BY <1>10 DEF Creates, Creating, Drawing
<1> QED BY <1>10, <1>11, <1>12

OnlyTx(r, u) ==
    /\ DOMAIN tx' = Requests /\ tx'[r] = u
    /\ \A s \in Requests \ {r} : tx'[s] = tx[s]

\* A step on the transaction of one request leaves the others.
LEMMA OnlyTxFacts ==
    ASSUME Base, NEW r \in Requests
    PROVE  /\ \A u : tx' = [tx EXCEPT ![r] = u] => OnlyTx(r, u)
           /\ tx' = tx => OnlyTx(r, tx[r])
BY DEF Base, OnlyTx

\* One request goes on, the rows stay.
LEMMA OneRequest ==
    ASSUME Base, NEW r \in Requests, NEW p \in Request, NEW u,
           db' = db, req' = [req EXCEPT ![r] = p], OnlyTx(r, u),
           Well(db, p, u),
           \A s \in Requests \ {r} : DOMAIN u \cap DOMAIN tx[s] = {} /\ Creates(p) \cap Creates(req[s]) = {}
    PROVE  Base'
<1>1. req' \in [Requests -> Request] /\ DOMAIN tx' = Requests
  BY DEF Base, OnlyTx
<1>2. /\ req'[r] = p /\ tx'[r] = u
      /\ \A s \in Requests \ {r} : req'[s] = req[s] /\ tx'[s] = tx[s]
  BY DEF Base, OnlyTx
<1>3. ASSUME NEW s \in Requests PROVE Well(db', req'[s], tx'[s])
  <2>1. CASE s = r
    BY <2>1, <1>2
  <2>2. CASE s # r
    BY <2>2, <1>2 DEF Base
  <2> QED BY <2>1, <2>2
<1>4. ASSUME NEW s \in Requests, NEW o \in Requests, s # o PROVE Apart(s, o)'
  <2>1. CASE s # r /\ o # r
    BY <2>1, <1>2, <1>4 DEF Base, Alone, Apart
  <2>2. CASE s = r /\ o # r
    BY <2>2, <1>2 DEF Apart
  <2>3. CASE s # r /\ o = r
    BY <2>3, <1>2 DEF Apart
  <2> QED BY <2>1, <2>2, <2>3, <1>4
<1> QED BY <1>1, <1>3, <1>4 DEF Base, Alone

\* The base, for one request.
LEMMA ApartFacts ==
    ASSUME Base, NEW r \in Requests
    PROVE  /\ Well(db, req[r], tx[r]) /\ req[r] \in Request /\ db \in [Keys -> Row] /\ References(db)
           /\ \A s \in Requests \ {r} : DOMAIN tx[r] \cap DOMAIN tx[s] = {} /\ Creates(req[r]) \cap Creates(req[s]) = {}
BY DEF Base, Alone, Apart

\* A request that ends, with nothing of its transaction left.
LEMMA BaseReply ==
    ASSUME Base, NEW r \in Requests, db' = db, Reply(r),
           tx' = [tx EXCEPT ![r] = Nothing] \/ (tx' = tx /\ req[r].phase # "run")
    PROVE  Base'
<1>1. req' = [req EXCEPT ![r] = Idle]
  BY DEF Reply
<1>2. CASE tx' = [tx EXCEPT ![r] = Nothing]
  BY <1>1, <1>2, IdleFacts, NothingFacts, OnlyTxFacts, OneRequest
<1>3. CASE tx' = tx /\ req[r].phase # "run"
  <2>1. DOMAIN tx[r] = {}
    BY <1>3, ApartFacts DEF Well, Planned
  <2>2. OnlyTx(r, tx[r])
    BY <1>3, OnlyTxFacts
  <2>3. Well(db, Idle, tx[r])
    BY <2>1, IdleFacts DEF Well, Planned, Written, BulkHeld, Active
  <2> QED BY <1>1, <2>1, <2>2, <2>3, IdleFacts, OneRequest
<1> QED BY <1>2, <1>3

\* A request that is accepted keeps the base.
LEMMA BaseAccept ==
    ASSUME Base, NEW r \in Requests, NEW q, NewRequest(q), Accept(r, q)
    PROVE  Base'
<1>1. /\ req[r].phase = "idle" /\ req' = [req EXCEPT ![r] = q] /\ db' = db /\ tx' = tx
  BY DEF Accept
<1>2. DOMAIN tx[r] = {} /\ OnlyTx(r, tx[r])
  BY <1>1, ApartFacts, OnlyTxFacts DEF Well, Planned
<1>3. q \in Request /\ Kinds(q) /\ Whole(q) /\ q.found = {} /\ q.phase \in Active
  BY DEF NewRequest, Active
<1>4. \A i \in Creates(q) : IsAbsent(db, i)
  BY DEF NewRequest, Fresh, IsAbsent
<1>5. Planned(db, q, tx[r])
  BY <1>2, <1>3, <1>4 DEF NewRequest, Planned, Whole, Active
<1>6. q.op = "bulk" => q.todo = BulkPlan
  BY <1>3 DEF Whole
<1>7. Well(db, q, tx[r])
  BY <1>2, <1>3, <1>5, <1>6 DEF Well, Written, BulkHeld
<1>8. ASSUME NEW s \in Requests \ {r} PROVE Creates(q) \cap Creates(req[s]) = {}
  <2>1. \A i \in Creates(q) : req[s].id # i /\ i \notin req[s].new
    BY DEF NewRequest, Fresh
  <2> QED BY <2>1 DEF Creates
<1> QED BY <1>1, <1>2, <1>3, <1>7, <1>8, OneRequest

\* The check of a use case keeps the base.
LEMMA BaseCheck ==
    ASSUME Base, NEW r \in Requests, Check(r)
    PROVE  Base'
<1>1. req[r].phase = "check" /\ db' = db /\ tx' = tx
  BY DEF Check
<1>2. CASE Reply(r)
  BY <1>1, <1>2, BaseReply
<1>3. CASE req' = [req EXCEPT ![r] = [req[r] EXCEPT !.phase = "run"]]
  <2> PICK q : q = req[r]
    OBVIOUS
  <2>1. PICK p : p = [q EXCEPT !.phase = "run"]
    OBVIOUS
  <2>2. q \in Request /\ Well(db, q, tx[r])
    BY ApartFacts
  <2>2a. Creates(q) = Creates(req[r]) /\ \A s \in Requests \ {r} : Creates(req[r]) \cap Creates(req[s]) = {}
    BY ApartFacts
  <2>3. p \in Request
    BY <2>1, <2>2 DEF Request, Phases
  <2>4. p.phase = "run" /\ SameRequest(q, p) /\ p.todo = q.todo /\ p.found = q.found
    BY <2>1, <2>2 DEF Request, SameRequest
  <2>5. DOMAIN tx[r] = {} /\ OnlyTx(r, tx[r])
    BY <1>1, <2>2, OnlyTxFacts DEF Well, Planned
  <2>6. Kinds(q) /\ Whole(q)
    BY <1>1, <2>2 DEF Well, Planned
  <2>7. Creates(p) = Creates(q) /\ Kinds(p) /\ Left(p, p.todo)
    BY <2>4, <2>6, SameFacts DEF Whole
  <2>8. Planned(db, p, tx[r])
    BY <1>1, <2>2, <2>4, <2>7 DEF Well, Planned, Active, SameRequest
  <2>9. q.op # "bulk"
    BY <1>1, <2>2 DEF Well, Planned, Checking
  <2>10. Well(db, p, tx[r])
    BY <2>4, <2>5, <2>8, <2>9 DEF Well, Written, BulkHeld, SameRequest
  <2> QED BY <1>1, <1>3, <2>1, <2>3, <2>2a, <2>5, <2>7, <2>10, OneRequest
<1> QED BY <1>2, <1>3 DEF Check

\* A view is the committed rows under those of the transaction.
LEMMA ViewIsOver == ASSUME NEW r PROVE View(r) = Over(db, tx[r])
BY DEF View, Over

\* A statement that was run: the request and its transaction after it.
Ran(r, q, s, v, c, p, u) ==
    /\ q = req[r] /\ s = NextOf(q.todo) /\ v = Over(db, tx[r]) /\ c = Changes(s, v, q)
    /\ p = Knows(q, s, v, c) /\ u = Adding(tx[r], c)
    /\ q.phase = "run" /\ q.todo # <<>> /\ Kinds(q) /\ Belongs(q, s)
    /\ Effect(s, v, q, c) /\ Advanced(q, p, s, v, c) /\ ~Refused(q, s, c)
    /\ \A o \in Requests \ {r} : DOMAIN c \cap DOMAIN tx[o] = {}
    /\ req' = [req EXCEPT ![r] = p] /\ OnlyTx(r, u) /\ Well(db, p, u)

\* A statement is refused or is run.
LEMMA ExecuteCases ==
    ASSUME Base, NEW r \in Requests, Execute(r)
    PROVE  /\ UNCHANGED <<db, issued, events, history>>
           /\ \/ Reply(r) /\ tx' = [tx EXCEPT ![r] = Nothing] /\ req[r].phase = "run"
              \/ \E q, s, v, c, p, u : Ran(r, q, s, v, c, p, u)
<1> PICK q : q = req[r]
  OBVIOUS
<1> PICK s : s = NextOf(q.todo)
  OBVIOUS
<1> PICK v : v = Over(db, tx[r])
  OBVIOUS
<1> PICK c : c = Changes(s, v, q)
  OBVIOUS
<1> PICK p : p = Knows(q, s, v, c)
  OBVIOUS
<1> PICK u : u = Adding(tx[r], c)
  OBVIOUS
<1>1. q.phase = "run" /\ q.todo # <<>>
  BY DEF Execute
<1>2. UNCHANGED <<db, issued, events, history>>
  BY DEF Execute
<1>3. /\ \A o \in Requests \ {r} : DOMAIN c \cap DOMAIN tx[o] = {}
      /\ \/ Refused(q, s, c) /\ tx' = [tx EXCEPT ![r] = Nothing] /\ Reply(r)
         \/ /\ ~Refused(q, s, c) /\ tx' = [tx EXCEPT ![r] = u]
            /\ req' = [req EXCEPT ![r] = p]
  BY ViewIsOver DEF Execute, NextOf, Adding, Free
<1>4. q \in Request /\ Well(db, q, tx[r]) /\ db \in [Keys -> Row]
  BY ApartFacts
<1>5. Kinds(q) /\ Belongs(q, s) /\ Effect(s, v, q, c) /\ Advanced(q, p, s, v, c) /\ Well(db, p, u)
  BY <1>1, <1>4, StatementWell
<1>6. tx' = [tx EXCEPT ![r] = u] => OnlyTx(r, u)
  BY OnlyTxFacts
<1> QED BY <1>1, <1>2, <1>3, <1>5, <1>6 DEF Ran

\* A statement keeps the base.
LEMMA BaseExecute ==
    ASSUME Base, NEW r \in Requests, Execute(r)
    PROVE  Base'
<1>1. CASE Reply(r) /\ tx' = [tx EXCEPT ![r] = Nothing] /\ req[r].phase = "run"
  <2>1. db' = db
    BY ExecuteCases
  <2> QED BY <1>1, <2>1, BaseReply
<1>2. CASE \E q, s, v, c, p, u : Ran(r, q, s, v, c, p, u)
  <2>1. PICK q, s, v, c, p, u : Ran(r, q, s, v, c, p, u)
    BY <1>2
  <2>2. db' = db
    BY ExecuteCases
  <2>3. p \in Request /\ Creates(p) = Creates(req[r])
    BY <2>1, SameFacts DEF Ran, Advanced
  <2>4. DOMAIN u = DOMAIN c \cup DOMAIN tx[r]
    BY <2>1 DEF Ran, Adding
  <2>5. \A o \in Requests \ {r} : DOMAIN c \cap DOMAIN tx[o] = {}
    BY <2>1 DEF Ran
  <2>6. \A o \in Requests \ {r} : /\ DOMAIN tx[r] \cap DOMAIN tx[o] = {}
                                  /\ Creates(req[r]) \cap Creates(req[o]) = {}
    BY ApartFacts
  <2>7. \A o \in Requests \ {r} : DOMAIN u \cap DOMAIN tx[o] = {} /\ Creates(p) \cap Creates(req[o]) = {}
    BY <2>3, <2>4, <2>5, <2>6
  <2>8. req' = [req EXCEPT ![r] = p] /\ OnlyTx(r, u) /\ Well(db, p, u)
    BY <2>1 DEF Ran
  <2> QED BY <2>2, <2>3, <2>7, <2>8, OneRequest
<1> QED BY <1>1, <1>2, ExecuteCases

\* The payload of an entity: there is one when it is live.
LEMMA EntityTyped ==
    ASSUME NEW d \in [Keys -> Row], References(d), NEW i \in Devices \cup Tags
    PROVE  /\ Entity(d, i) \in Payload \cup {None}
           /\ Live(d, i) => Entity(d, i) # None
<1>1. \A table \in {"params", "setpoints", "scaling"} :
        <<table, i>> \in Keys => Joined(d, table, i) \in Nat \cup {None}
  BY DEF Joined, Row
<1>2. None \notin Payload
  BY NamesAssumption
<1>3. <<"row", i>> \in Keys /\ <<"params", i>> \in Keys
  BY KeyFacts
<1>4. d[<<"row", i>>].version \in Nat
  BY <1>3 DEF Row
<1>5. CASE i \in Devices
  <2>1. Parent(d, i) \in Objects \cup {None}
    BY <1>5, KindFacts DEF References, Inside
  <2>2. DeviceWithParams(d, i) \in Payload
    BY <1>1, <1>3, <1>4, <2>1 DEF DeviceWithParams, Payload
  <2>3. Entity(d, i) = IF Live(d, i) THEN DeviceWithParams(d, i) ELSE None
    BY <1>5 DEF Entity, GetDevice
  <2> QED BY <2>2, <2>3, <1>2
<1>6. CASE i \in Tags
  <2>1. <<"setpoints", i>> \in Keys /\ <<"scaling", i>> \in Keys
    BY <1>6, KeyFacts
  <2>2. TagFull(d, i) \in Payload
    BY <1>1, <1>3, <1>4, <2>1 DEF TagFull, Payload
  <2>3. Entity(d, i) = IF Live(d, i) THEN TagFull(d, i) ELSE None
    BY <1>6, KindFacts DEF Entity, GetTag
  <2> QED BY <2>2, <2>3, <1>2
<1> QED BY <1>5, <1>6

\* The request after its commit.
Committed(q, p, e) ==
    /\ p \in Request /\ SameRequest(q, p)
    /\ p.phase = IF q.rereads THEN "reread" ELSE "publish"
    /\ p.payload = IF q.op \in {"create_device", "create_tag"} THEN Entity(e, q.id) ELSE None
    /\ p.touched = q.touched

Moved(q, p, phase, payload) ==
    /\ p \in Request /\ SameRequest(q, p) /\ p.phase = phase /\ p.payload = payload
    /\ p.touched = q.touched

\* A request that goes on to another phase.
LEMMA PhaseFacts ==
    ASSUME NEW q \in Request, NEW phase \in Phases, NEW payload \in Payload \cup {None},
           NEW p, p = [q EXCEPT !.phase = phase, !.payload = payload]
    PROVE  Moved(q, p, phase, payload)
<1>1. p \in Request
  BY DEF Request
<1>2. SameRequest(q, p)
  BY DEF Request, SameRequest
<1>3. p.phase = phase /\ p.payload = payload /\ p.touched = q.touched
  BY DEF Request
<1> QED BY <1>1, <1>2, <1>3 DEF Moved

\* The request after its commit.
LEMMA CommittedFacts ==
    ASSUME NEW q \in Request, Kinds(q), NEW e \in [Keys -> Row], References(e),
           NEW p, p = [q EXCEPT !.phase = IF q.rereads THEN "reread" ELSE "publish",
                                !.payload = IF q.op \in {"create_device", "create_tag"}
                                            THEN Entity(e, q.id) ELSE None]
    PROVE  Committed(q, p, e)
<1>1. PICK phase : phase = IF q.rereads THEN "reread" ELSE "publish"
  OBVIOUS
<1>2. PICK payload : payload = IF q.op \in {"create_device", "create_tag"} THEN Entity(e, q.id) ELSE None
  OBVIOUS
<1>3. phase \in Phases
  BY <1>1 DEF Phases
<1>4. payload \in Payload \cup {None}
  <2>1. q.op \in {"create_device", "create_tag"} => q.id \in Devices \cup Tags
    BY DEF Kinds, DeviceOps, TagOps
  <2> QED BY <1>2, <2>1, EntityTyped
<1>5. p = [q EXCEPT !.phase = phase, !.payload = payload]
  BY <1>1, <1>2
<1>6. Moved(q, p, phase, payload)
  BY <1>3, <1>4, <1>5, PhaseFacts
<1> QED BY <1>1, <1>2, <1>6 DEF Committed, Moved

\* A commit, as its request and the rows see it.
LEMMA CommitFacts ==
    ASSUME Base, NEW r \in Requests, Commit(r)
    PROVE  /\ db' = Over(db, tx[r]) /\ OnlyTx(r, Nothing)
           /\ \E p : req' = [req EXCEPT ![r] = p] /\ Committed(req[r], p, db')
           /\ req[r].phase = "run" /\ req[r].todo = <<>> /\ Kinds(req[r])
           /\ db' \in [Keys -> Row] /\ References(db')
<1> PICK q : q = req[r]
  OBVIOUS
<1> PICK e : e = Over(db, tx[r])
  OBVIOUS
<1>1. q.phase = "run" /\ q.todo = <<>>
  BY DEF Commit
<1>2. db' = e /\ tx' = [tx EXCEPT ![r] = Nothing]
  BY ViewIsOver DEF Commit
<1>3. q \in Request /\ Well(db, q, tx[r]) /\ db \in [Keys -> Row] /\ References(db)
  BY ApartFacts
<1>4. Kinds(q)
  BY <1>1, <1>3 DEF Well, Planned
<1>5. e \in [Keys -> Row] /\ References(e)
  BY <1>1, <1>3, OverFacts, CommitReferences
<1> PICK p : p = [q EXCEPT !.phase = IF q.rereads THEN "reread" ELSE "publish",
                           !.payload = IF q.op \in {"create_device", "create_tag"}
                                       THEN Entity(e, q.id) ELSE None]
  OBVIOUS
<1>6. req' = [req EXCEPT ![r] = p]
  BY ViewIsOver DEF Commit
<1>7. q \in Request
  BY <1>3
<1>10. Committed(q, p, e)
  BY <1>4, <1>5, <1>7, CommittedFacts
<1> QED BY <1>1, <1>2, <1>4, <1>5, <1>6, <1>10, OnlyTxFacts

\* A commit keeps the base.
LEMMA BaseCommit ==
    ASSUME Base, NEW r \in Requests, Commit(r)
    PROVE  Base'
<1> PICK q : q = req[r]
  OBVIOUS
<1> PICK t : t = tx[r]
  OBVIOUS
<1> PICK e : e = Over(db, t)
  OBVIOUS
<1>1. db' = e /\ OnlyTx(r, Nothing)
  BY CommitFacts
<1>2. PICK p : req' = [req EXCEPT ![r] = p] /\ Committed(q, p, e)
  BY <1>1, CommitFacts
<1>3. e \in [Keys -> Row] /\ References(e) /\ Kinds(q)
  BY <1>1, CommitFacts
<1>4. p \in Request /\ Kinds(p) /\ Creates(p) = Creates(q)
  BY <1>2, <1>3, SameFacts DEF Committed
<1>5. p.phase \in {"reread", "publish"} /\ (p.phase = "reread" => p.rereads)
  BY <1>2 DEF Committed, SameRequest
<1>6. Well(e, p, Nothing)
  BY <1>4, <1>5, NothingFacts DEF Well, Planned, Written, BulkHeld, Active
<1>7. /\ req'[r] = p /\ tx'[r] = Nothing /\ DOMAIN tx' = Requests /\ req' \in [Requests -> Request]
      /\ \A s \in Requests \ {r} : req'[s] = req[s] /\ tx'[s] = tx[s]
  BY <1>1, <1>2, <1>4 DEF Base, OnlyTx
<1>8. ASSUME NEW s \in Requests \ {r} PROVE Well(e, req[s], tx[s])
  <2>1. Well(db, q, t) /\ q \in Request /\ db \in [Keys -> Row]
    BY ApartFacts
  <2>2. Well(db, req[s], tx[s]) /\ req[s] \in Request
    BY ApartFacts
  <2>3. DOMAIN t \cap DOMAIN tx[s] = {} /\ Creates(q) \cap Creates(req[s]) = {}
    BY ApartFacts
  <2> QED BY <2>1, <2>2, <2>3, CommitOthers
<1>9. ASSUME NEW s \in Requests PROVE Well(db', req'[s], tx'[s])
  <2>1. CASE s = r
    BY <2>1, <1>1, <1>6, <1>7
  <2>2. CASE s # r
    BY <2>2, <1>1, <1>7, <1>8
  <2> QED BY <2>1, <2>2
<1>10. \A s \in Requests \ {r} : Creates(q) \cap Creates(req[s]) = {}
  BY ApartFacts
<1>11. ASSUME NEW s \in Requests, NEW o \in Requests, s # o PROVE Apart(s, o)'
  <2>1. CASE s # r /\ o # r
    BY <2>1, <1>7, <1>11 DEF Base, Alone, Apart
  <2>2. CASE s = r /\ o # r
    BY <2>2, <1>4, <1>7, <1>10, NothingFacts DEF Apart
  <2>3. CASE s # r /\ o = r
    BY <2>3, <1>4, <1>7, <1>10, NothingFacts DEF Apart
  <2> QED BY <2>1, <2>2, <2>3, <1>11
<1> QED BY <1>1, <1>3, <1>7, <1>9, <1>11 DEF Base, Alone

\* What is about to be published is a request still.
LEMMA PublishTyped ==
    ASSUME NEW q \in Request, NEW payload \in Payload \cup {None}
    PROVE  [q EXCEPT !.phase = "publish", !.payload = payload] \in Request
BY DEF Request, Phases

\* A request that finds its entity again goes on to publish it.
LEMMA RereadFacts ==
    ASSUME Base, NEW r \in Requests, NEW works \in BOOLEAN, Reread(r, works), ~Reply(r)
    PROVE  \E p : /\ p \in Request /\ SameRequest(req[r], p) /\ p.phase = "publish"
                  /\ p.payload = Entity(db, req[r].id) /\ p.payload # None
                  /\ req' = [req EXCEPT ![r] = p] /\ works /\ Live(db, req[r].id)
<1> PICK q : q = req[r]
  OBVIOUS
<1>1. /\ q.phase = "reread" /\ works /\ Live(db, q.id)
      /\ req' = [req EXCEPT ![r] = [q EXCEPT !.phase = "publish", !.payload = Entity(db, q.id)]]
  BY DEF Reread
<1>2. q \in Request /\ Well(db, q, tx[r]) /\ db \in [Keys -> Row] /\ References(db)
  BY ApartFacts
<1>3. q.id \in Devices \cup Tags
  BY <1>1, <1>2 DEF Well, Planned, Kinds, Announcing, DeviceOps, TagOps
<1> PICK payload : payload = Entity(db, q.id)
  OBVIOUS
<1>4. payload \in Payload \cup {None} /\ payload # None
  BY <1>1, <1>2, <1>3, EntityTyped
<1> PICK p : p = [q EXCEPT !.phase = "publish", !.payload = payload]
  OBVIOUS
<1>5. p \in Request
  BY <1>2, <1>4, PublishTyped
<1>6. SameRequest(q, p) /\ p.phase = "publish" /\ p.payload = payload
  BY <1>2 DEF Request, SameRequest
<1> QED BY <1>1, <1>4, <1>5, <1>6

\* Reading an entity again keeps the base.
LEMMA BaseReread ==
    ASSUME Base, NEW r \in Requests, NEW works \in BOOLEAN, Reread(r, works)
    PROVE  Base'
<1>1. req[r].phase = "reread" /\ db' = db /\ tx' = tx
  BY DEF Reread
<1>2. CASE Reply(r)
  BY <1>1, <1>2, BaseReply
<1>3. CASE ~Reply(r)
  <2>1. PICK p : /\ p \in Request /\ SameRequest(req[r], p) /\ p.phase = "publish"
                 /\ req' = [req EXCEPT ![r] = p]
    BY <1>3, RereadFacts
  <2>2. Well(db, req[r], tx[r])
    BY ApartFacts
  <2>3. DOMAIN tx[r] = {} /\ Kinds(req[r])
    BY <1>1, <2>2 DEF Well, Planned
  <2>4. Kinds(p) /\ Creates(p) = Creates(req[r])
    BY <2>1, <2>3, SameFacts
  <2>5. Well(db, p, tx[r])
    BY <2>1, <2>3, <2>4 DEF Well, Planned, Written, BulkHeld, Active
  <2>6. \A s \in Requests \ {r} : Creates(p) \cap Creates(req[s]) = {}
    BY <2>4, ApartFacts
  <2>7. OnlyTx(r, tx[r])
    BY <1>1, OnlyTxFacts
  <2> QED BY <1>1, <2>1, <2>3, <2>5, <2>6, <2>7, OneRequest
<1> QED BY <1>2, <1>3

\* A crash keeps the base.
LEMMA BaseCrash == ASSUME Base, Crash PROVE Base'
<1>1. /\ tx' = [r \in Requests |-> Nothing] /\ req' = [r \in Requests |-> Idle] /\ db' = db
  BY DEF Crash
<1> QED BY <1>1, IdleFacts, NothingFacts DEF Base, Alone, Apart

\* Locking a row changes nothing that is stored.
LEMMA LockingOnly == \A r : LockRow(r) => UNCHANGED store
BY DEF LockRow

\* Every step keeps the base.
LEMMA BaseStep == ASSUME Base, [Next]_vars PROVE Base'
<1>1. CASE UNCHANGED store
  BY <1>1 DEF vars, store, Base, Alone, Apart
<1>2. CASE Crash
  BY <1>2, BaseCrash
<1>3. CASE Rest
  BY <1>3 DEF Rest, vars, store, Base, Alone, Apart
<1>4. ASSUME NEW r \in Requests,
             InventoryRequest(r) \/ MimicRequest(r) \/ \E o \in Objects : DeleteMonitoringObject(r, o)
      PROVE  Base'
  BY <1>4, RequestIsNew, BaseAccept
<1>5. ASSUME NEW r \in Requests, Fail(r) PROVE Base'
  BY <1>5, BaseReply DEF Fail
<1>6. ASSUME NEW r \in Requests, NEW sent \in SUBSET Announcements(req[r]), Publish(r, sent) PROVE Base'
  BY <1>6, BaseReply DEF Publish
<1> QED BY <1>1, <1>2, <1>3, <1>4, <1>5, <1>6, BaseCheck, BaseExecute, BaseCommit, BaseReread,
        LockingOnly DEF Next, vars

\* At all times the base holds.
THEOREM BaseHolds == Spec => []Base
<1> QED BY InitialBase, BaseStep, PTL DEF Spec

\* Only a commit changes the rows.
LEMMA OnlyCommits ==
    ASSUME [Next]_vars
    PROVE  db' = db \/ \E r \in Requests : Commit(r)
<1>1. CASE UNCHANGED store
  BY <1>1 DEF vars, store
<1>2. CASE Crash \/ Rest
  BY <1>2 DEF Crash, Rest, vars, store
<1>3. ASSUME NEW r \in Requests, InventoryRequest(r) \/ MimicRequest(r) \/ \E o \in Objects : DeleteMonitoringObject(r, o)
      PROVE  db' = db
  BY <1>3, RequestIsNew DEF Accept
<1>4. ASSUME NEW r \in Requests, Check(r) \/ Execute(r) \/ Fail(r) PROVE db' = db
  BY <1>4 DEF Check, Execute, Fail
<1>5. ASSUME NEW r \in Requests, NEW works \in BOOLEAN, Reread(r, works) PROVE db' = db
  BY <1>5 DEF Reread
<1>6. ASSUME NEW r \in Requests, NEW sent \in SUBSET Announcements(req[r]), Publish(r, sent) PROVE db' = db
  BY <1>6 DEF Publish
<1> QED BY <1>1, <1>2, <1>3, <1>4, <1>5, <1>6, LockingOnly DEF Next, vars

\* A deleted row stays as it is.
THEOREM DeletedRowsFrozen == Spec => DeletedFrozen
<1>1. ASSUME Base, [Next]_vars
      PROVE  \A i \in Ids : db[<<"row", i>>].state = "deleted" => db'[<<"row", i>>] = db[<<"row", i>>]
  <2>1. CASE db' = db
    BY <2>1
  <2>2. ASSUME NEW r \in Requests, Commit(r), NEW i \in Ids, db[<<"row", i>>].state = "deleted"
        PROVE  db'[<<"row", i>>] = db[<<"row", i>>]
    <3>1. db' = Over(db, tx[r])
      BY <1>1, <2>2, CommitFacts
    <3>2. Well(db, req[r], tx[r]) /\ req[r] \in Request /\ db \in [Keys -> Row]
      BY <1>1, ApartFacts
    <3>3. ~RowWritten(db, req[r], i, db'[<<"row", i>>])
      BY <2>2 DEF RowWritten, IsAbsent, Live
    <3> QED BY <3>1, <3>2, <3>3, OverFacts
  <2> QED BY <1>1, <2>1, <2>2, OnlyCommits
<1> QED BY <1>1, BaseHolds, PTL DEF Spec, DeletedFrozen

-----------------------------------------------------------------------------
(* Types. *)

Histories ==
    /\ issued \in 0..MaxRequests
    /\ unsent \subseteq Ids /\ late \subseteq Ids /\ retyped \cup moved \subseteq Devices
    /\ meanwhile \in [Requests -> SUBSET Figures]

\* Events are about known entities.
LEMMA AnnouncedIds ==
    ASSUME NEW q \in Request, Kinds(q)
    PROVE  \A e \in Announcements(q) : e.id \in Ids
<1>1. q.id \in Ids
  BY KeyFacts DEF Kinds
<1>2. CASE q.payload # None
  BY <1>1, <1>2 DEF Announcements
<1>3. CASE q.payload = None
  <2>1. Announcements(q) = {[id |-> e.id, op |-> e.op, payload |-> None] : e \in q.touched}
    BY <1>3 DEF Announcements
  <2>2. \A e \in q.touched : e.id \in Ids
    BY DEF Request, Touch
  <2> QED BY <2>1, <2>2
<1> QED BY <1>2, <1>3

\* The histories keep their types.
LEMMA HistoriesStep == ASSUME Base, Histories, [Next]_vars PROVE Histories'
<1> USE RequestsAssumption DEF Histories
<1>0. ASSUME NEW r \in Requests PROVE req[r] \in Request /\ (req[r].phase # "idle" => Kinds(req[r]))
  BY ApartFacts DEF Well, Planned
<1>1. CASE UNCHANGED store
  BY <1>1 DEF vars, store, history
<1>2. CASE Rest
  BY <1>2 DEF Rest, vars, store, history
<1>3. ASSUME NEW r \in Requests, NEW q, Accept(r, q) PROVE Histories'
  BY <1>3 DEF Accept
<1>4. ASSUME NEW r \in Requests, Check(r) \/ Execute(r) \/ Fail(r) PROVE Histories'
  BY <1>4 DEF Check, Execute, Fail, history
<1>5. ASSUME NEW r \in Requests, NEW works \in BOOLEAN, Reread(r, works) PROVE Histories'
  <2>1. req[r].id \in Ids
    BY <1>0, <1>5, KeyFacts DEF Reread, Kinds
  <2> QED BY <1>5, <2>1 DEF Reread
<1>6. ASSUME NEW r \in Requests, NEW sent \in SUBSET Announcements(req[r]), Publish(r, sent) PROVE Histories'
  <2>1. \A e \in Announcements(req[r]) : e.id \in Ids
    BY <1>0, <1>6, AnnouncedIds DEF Publish
  <2>2. unsent' = unsent \cup {e.id : e \in Announcements(req[r]) \ sent}
    BY <1>6 DEF Publish
  <2> QED BY <1>6, <2>1, <2>2 DEF Publish
<1>7. CASE Crash
  <2> DEFINE lost(r) == IF req[r].phase = "reread" THEN {req[r].id}
                        ELSE IF req[r].phase = "publish" THEN {e.id : e \in Announcements(req[r])}
                        ELSE {}
  <2>1. ASSUME NEW r \in Requests PROVE lost(r) \subseteq Ids
    <3>1. req[r].phase # "idle" => req[r].id \in Ids
      BY <1>0, KeyFacts DEF Kinds
    <3>2. req[r].phase # "idle" => \A e \in Announcements(req[r]) : e.id \in Ids
      BY <1>0, AnnouncedIds
    <3> QED BY <3>1, <3>2
  <2>2. unsent' = unsent \cup UNION {lost(r) : r \in Requests}
    BY <1>7 DEF Crash
  <2> HIDE DEF lost
  <2>3. UNION {lost(r) : r \in Requests} \subseteq Ids
    BY <2>1
  <2> QED BY <1>7, <2>2, <2>3 DEF Crash
<1>8. ASSUME NEW r \in Requests, Commit(r) PROVE Histories'
  <2>1. Kinds(req[r]) /\ req[r] \in Request
    BY <1>8, <1>0, CommitFacts
  <2>2. Attached(r) \subseteq Ids
    BY <2>1, KeyFacts DEF Attached, Kinds, DeviceOps, TagOps, Request
  <2>3. late' \subseteq Ids
    BY <1>8, <2>2 DEF Commit
  <2>4. retyped' \subseteq Devices /\ moved' \subseteq Devices
    BY <1>8, <2>1 DEF Commit, Kinds, DeviceOps
  <2>5. {k[2] : k \in DOMAIN tx[r] \cap ({"row"} \X Figures)} \subseteq Figures
    OBVIOUS
  <2>6. meanwhile' \in [Requests -> SUBSET Figures]
    BY <1>8, <2>5 DEF Commit
  <2> QED BY <1>8, <2>3, <2>4, <2>6 DEF Commit
<1>9. ASSUME NEW r \in Requests,
             InventoryRequest(r) \/ MimicRequest(r) \/ \E o \in Objects : DeleteMonitoringObject(r, o)
      PROVE  Histories'
  BY <1>3, <1>9, RequestIsNew
<1> QED BY <1>1, <1>2, <1>4, <1>5, <1>6, <1>7, <1>8, <1>9, LockingOnly DEF Next, vars

\* A request locks rows of the database.
Locks == locked \in [Requests -> SUBSET Keys]

LEMMA LocksStep == ASSUME Base, Locks, [Next]_vars PROVE Locks'
<1> USE DEF Locks
<1>1. CASE UNCHANGED vars \/ Rest \/ Crash
  BY <1>1 DEF vars, Rest, Crash
<1>2. ASSUME NEW r \in Requests, NEW q, Accept(r, q) PROVE Locks'
  BY <1>2 DEF Accept
<1>3. ASSUME NEW r \in Requests,
             InventoryRequest(r) \/ MimicRequest(r) \/ \E o \in Objects : DeleteMonitoringObject(r, o)
      PROVE  Locks'
  BY <1>2, <1>3, RequestIsNew
<1>4. ASSUME NEW r \in Requests, Check(r) \/ Execute(r) \/ Commit(r) \/ Fail(r) PROVE Locks'
  BY <1>4 DEF Check, Execute, Commit, Fail, Unlock
<1>5. ASSUME NEW r \in Requests, NEW works \in BOOLEAN, Reread(r, works) PROVE Locks'
  BY <1>5 DEF Reread
<1>6. ASSUME NEW r \in Requests, NEW sent \in SUBSET Announcements(req[r]), Publish(r, sent) PROVE Locks'
  BY <1>6 DEF Publish
<1>7. ASSUME NEW r \in Requests, LockRow(r) PROVE Locks'
  <2> PICK q : q = req[r]
    OBVIOUS
  <2> PICK s : s = NextOf(q.todo)
    OBVIOUS
  <2> PICK v : v = Over(db, tx[r])
    OBVIOUS
  <2> PICK c : c = Changes(s, v, q)
    OBVIOUS
  <2>1. PICK k \in DOMAIN c : locked' = [locked EXCEPT ![r] = @ \cup {k}]
    BY <1>7, ViewIsOver DEF LockRow, NextOf
  <2>2. q.phase = "run" /\ q.todo # <<>>
    BY <1>7 DEF LockRow
  <2>3. q \in Request /\ Well(db, q, tx[r]) /\ db \in [Keys -> Row]
    BY ApartFacts
  <2>6. PICK u : u = Adding(tx[r], c)
    OBVIOUS
  <2>7. PICK p : p = Knows(q, s, v, c)
    OBVIOUS
  <2>4. Effect(s, v, q, c)
    BY <2>2, <2>3, <2>6, <2>7, StatementWell
  <2>5. k \in Keys
    BY <2>1, <2>4 DEF Effect, Change
  <2> QED BY <2>1, <2>5
<1> QED BY <1>1, <1>3, <1>4, <1>5, <1>6, <1>7 DEF Next

\* The types of the state.
THEOREM TypeCorrect == Spec => []TypeOK
<1>1. Init => Histories
  BY RequestsAssumption DEF Init, Histories
<1>2. Base /\ Histories /\ Locks => TypeOK
  <2> SUFFICES ASSUME Base, Histories, Locks PROVE TypeOK
    OBVIOUS
  <2>1. ASSUME NEW r \in Requests
        PROVE  DOMAIN tx[r] \subseteq Keys /\ \A k \in DOMAIN tx[r] : tx[r][k] \in Row
    BY ApartFacts DEF Well, Written, KeyWritten
  <2>2. \A r \in Requests : req[r].phase \in {"idle", "check", "run", "reread", "publish"}
    BY ApartFacts DEF Request, Phases
  <2> QED BY <2>1, <2>2 DEF TypeOK, Histories, Locks, Base
<1>3. Init => Locks
  BY DEF Init, Locks
<1> QED BY <1>1, <1>2, <1>3, BaseHolds, HistoriesStep, LocksStep, PTL DEF Spec

-----------------------------------------------------------------------------
(* What a step makes of a request. *)

\* A request that its use case let through.
Begun(r, p) ==
    /\ req[r].phase = "check" /\ Allowed(req[r])
    /\ p \in Request /\ SameRequest(req[r], p) /\ p.phase = "run" /\ p.todo = req[r].todo
    /\ p.found = req[r].found /\ p.touched = req[r].touched /\ p.payload = req[r].payload
    /\ p.began = req[r].began

\* A request that read its entity again.
Refreshed(r, p) ==
    /\ req[r].phase = "reread" /\ Live(db, req[r].id)
    /\ p \in Request /\ SameRequest(req[r], p) /\ p.phase = "publish" /\ p.payload # None
    /\ p.payload = Entity(db, req[r].id)

\* What a step makes of one request and its transaction: nothing, an end, or
\* one step of its life.
Lives(r) ==
    \/ req'[r] = req[r] /\ tx'[r] = tx[r]
    \/ req'[r] = Idle /\ DOMAIN tx'[r] = {} /\ db' = db
    \/ NewRequest(req'[r]) /\ Accept(r, req'[r]) /\ DOMAIN tx'[r] = {}
    \/ Begun(r, req'[r]) /\ DOMAIN tx'[r] = {} /\ Check(r)
    \/ \E s, v, c : Ran(r, req[r], s, v, c, req'[r], tx'[r]) /\ Execute(r)
    \/ Commit(r) /\ Committed(req[r], req'[r], db') /\ DOMAIN tx'[r] = {}
    \/ Refreshed(r, req'[r]) /\ DOMAIN tx'[r] = {} /\ db' = db

\* A request that passes its check begins.
LEMMA CheckFacts ==
    ASSUME Base, NEW r \in Requests, Check(r), ~Reply(r)
    PROVE  \E p : Begun(r, p) /\ req' = [req EXCEPT ![r] = p]
<1> PICK q : q = req[r]
  OBVIOUS
<1>1. PICK p : p = [q EXCEPT !.phase = "run"]
  OBVIOUS
<1>2. q \in Request
  BY ApartFacts
<1>3. p \in Request
  BY <1>1, <1>2 DEF Request, Phases
<1>4. p.phase = "run" /\ SameRequest(q, p) /\ p.todo = q.todo /\ p.found = q.found
  BY <1>1, <1>2 DEF Request, SameRequest
<1>5. p.touched = q.touched /\ p.payload = q.payload /\ p.began = q.began
  BY <1>1, <1>2 DEF Request
<1>6. q.phase = "check" /\ Allowed(q) /\ req' = [req EXCEPT ![r] = p]
  BY <1>1 DEF Check
<1> QED BY <1>3, <1>4, <1>5, <1>6 DEF Begun

\* The others stay as they are.
LEMMA OthersStay ==
    ASSUME Base, NEW r \in Requests, NEW o \in Requests, r # o,
           (\E p : req' = [req EXCEPT ![r] = p]), (\E u : OnlyTx(r, u))
    PROVE  req'[o] = req[o] /\ tx'[o] = tx[o]
BY DEF OnlyTx

\* The step of one request, seen by every request.
LEMMA Living ==
    ASSUME Base, NEW r \in Requests, NEW p, NEW u, req' = [req EXCEPT ![r] = p], OnlyTx(r, u)
    PROVE  /\ req'[r] = p /\ tx'[r] = u
           /\ \A o \in Requests \ {r} : Lives(o)
BY DEF Base, OnlyTx, Lives

\* A request that does not run has written nothing.
LEMMA Empty == ASSUME Base, NEW r \in Requests, req[r].phase # "run" PROVE DOMAIN tx[r] = {}
BY ApartFacts DEF Well, Planned

\* An answer ends one request and leaves the others.
LEMMA ReplyLives ==
    ASSUME Base, NEW r \in Requests, db' = db, Reply(r),
           tx' = [tx EXCEPT ![r] = Nothing] \/ (tx' = tx /\ req[r].phase # "run")
    PROVE  \A o \in Requests : Lives(o)
<1>1. req' = [req EXCEPT ![r] = Idle]
  BY DEF Reply
<1>2. PICK u : OnlyTx(r, u) /\ DOMAIN u = {}
  BY OnlyTxFacts, NothingFacts, Empty
<1>3. req'[r] = Idle /\ tx'[r] = u /\ \A o \in Requests \ {r} : Lives(o)
  BY <1>1, <1>2, Living
<1> QED BY <1>2, <1>3 DEF Lives

\* What any step makes of every request.
LEMMA AllLive == ASSUME Base, [Next]_vars PROVE \A r \in Requests : Lives(r)
<1>1. CASE UNCHANGED store
  BY <1>1 DEF vars, store, Lives
<1>2. CASE Crash
  BY <1>2, NothingFacts DEF Crash, Lives
<1>3. CASE Rest
  BY <1>3 DEF Rest, vars, store, Lives
<1>4. ASSUME NEW r \in Requests,
             InventoryRequest(r) \/ MimicRequest(r) \/ \E o \in Objects : DeleteMonitoringObject(r, o)
      PROVE  \A o \in Requests : Lives(o)
  <2>1. PICK q : NewRequest(q) /\ Accept(r, q)
    BY <1>4, RequestIsNew
  <2>2. req' = [req EXCEPT ![r] = q] /\ OnlyTx(r, tx[r]) /\ req[r].phase = "idle"
    BY <2>1, OnlyTxFacts DEF Accept
  <2>3. req'[r] = q /\ tx'[r] = tx[r] /\ \A o \in Requests \ {r} : Lives(o)
    BY <2>2, Living
  <2>4. DOMAIN tx'[r] = {}
    BY <2>2, <2>3, Empty
  <2> QED BY <2>1, <2>3, <2>4 DEF Lives
<1>5. ASSUME NEW r \in Requests, Fail(r) PROVE \A o \in Requests : Lives(o)
  BY <1>5, ReplyLives DEF Fail
<1>6. ASSUME NEW r \in Requests, NEW sent \in SUBSET Announcements(req[r]), Publish(r, sent)
      PROVE  \A o \in Requests : Lives(o)
  BY <1>6, ReplyLives DEF Publish
<1>7. ASSUME NEW r \in Requests, Check(r) PROVE \A o \in Requests : Lives(o)
  <2>1. req[r].phase = "check" /\ db' = db /\ tx' = tx
    BY <1>7 DEF Check
  <2>2. CASE Reply(r)
    BY <2>1, <2>2, ReplyLives
  <2>3. CASE ~Reply(r)
    <3>1. PICK p : Begun(r, p) /\ req' = [req EXCEPT ![r] = p]
      BY <1>7, <2>3, CheckFacts
    <3>2. OnlyTx(r, tx[r])
      BY <2>1, OnlyTxFacts
    <3>3. req'[r] = p /\ tx'[r] = tx[r] /\ \A o \in Requests \ {r} : Lives(o)
      BY <3>1, <3>2, Living
    <3>4. DOMAIN tx'[r] = {}
      BY <2>1, <3>3, Empty
    <3> QED BY <1>7, <3>1, <3>3, <3>4 DEF Lives
  <2> QED BY <2>2, <2>3
<1>8. ASSUME NEW r \in Requests, Execute(r) PROVE \A o \in Requests : Lives(o)
  <2>1. db' = db
    BY <1>8, ExecuteCases
  <2>2. CASE Reply(r) /\ tx' = [tx EXCEPT ![r] = Nothing] /\ req[r].phase = "run"
    BY <2>1, <2>2, ReplyLives
  <2>3. CASE \E q, s, v, c, p, u : Ran(r, q, s, v, c, p, u)
    <3>1. PICK q, s, v, c, p, u : Ran(r, q, s, v, c, p, u)
      BY <2>3
    <3>2. q = req[r] /\ req' = [req EXCEPT ![r] = p] /\ OnlyTx(r, u)
      BY <3>1 DEF Ran
    <3>3. req'[r] = p /\ tx'[r] = u /\ \A o \in Requests \ {r} : Lives(o)
      BY <3>2, Living
    <3>4. Ran(r, req[r], s, v, c, req'[r], tx'[r])
      BY <3>1, <3>2, <3>3
    <3>5. Lives(r)
      BY <1>8, <3>4 DEF Lives
    <3> QED BY <3>3, <3>5
  <2> QED BY <1>8, <2>2, <2>3, ExecuteCases
<1>9. ASSUME NEW r \in Requests, Commit(r) PROVE \A o \in Requests : Lives(o)
  <2>1. PICK p : req' = [req EXCEPT ![r] = p] /\ Committed(req[r], p, db')
    BY <1>9, CommitFacts
  <2>2. OnlyTx(r, Nothing)
    BY <1>9, CommitFacts
  <2>3. req'[r] = p /\ tx'[r] = Nothing /\ \A o \in Requests \ {r} : Lives(o)
    BY <2>1, <2>2, Living
  <2> QED BY <1>9, <2>1, <2>3, NothingFacts DEF Lives
<1>10. ASSUME NEW r \in Requests, NEW works \in BOOLEAN, Reread(r, works) PROVE \A o \in Requests : Lives(o)
  <2>1. req[r].phase = "reread" /\ db' = db /\ tx' = tx
    BY <1>10 DEF Reread
  <2>2. CASE Reply(r)
    BY <2>1, <2>2, ReplyLives
  <2>3. CASE ~Reply(r)
    <3>1. PICK p : /\ p \in Request /\ SameRequest(req[r], p) /\ p.phase = "publish"
                   /\ p.payload = Entity(db, req[r].id) /\ p.payload # None
                   /\ req' = [req EXCEPT ![r] = p] /\ works /\ Live(db, req[r].id)
      BY <1>10, <2>3, RereadFacts
    <3>2. OnlyTx(r, tx[r])
      BY <2>1, OnlyTxFacts
    <3>3. req'[r] = p /\ tx'[r] = tx[r] /\ \A o \in Requests \ {r} : Lives(o)
      BY <3>1, <3>2, Living
    <3>4. DOMAIN tx'[r] = {}
      BY <2>1, <3>3, Empty
    <3> QED BY <2>1, <3>1, <3>3, <3>4 DEF Lives, Refreshed
  <2> QED BY <2>2, <2>3
<1> QED BY <1>1, <1>2, <1>3, <1>4, <1>5, <1>6, <1>7, <1>8, <1>9, <1>10, LockingOnly DEF Next, vars

-----------------------------------------------------------------------------
(* Settings and addresses fit the type of the device. *)

TypeOf(d, i) == d[<<"row", i>>].type

\* What a request is about to write was compared with the device's type.
Fits(d, changed, q) ==
    /\ q.op = "create_device" => q.config = q.type
    /\ q.phase = "run" /\ q.op = "update_device_params" =>
         q.id \in changed \/ q.config = TypeOf(d, q.id)
    /\ q.phase = "run" /\ q.op = "create_tag" =>
         q.parent \in changed \/ q.config \in {None, TypeOf(d, q.parent)}
    /\ q.phase = "run" /\ q.op = "update_tag_params" =>
         Parent(d, q.id) \in changed \/ q.config = TypeOf(d, Parent(d, q.id))

\* A new device comes with its settings, a new tag's address with the tag.
Together(q, t) ==
    /\ q.phase = "run" /\ q.op = "create_device" /\ q.todo = <<>> => <<"params", q.id>> \in DOMAIN t
    /\ q.phase = "run" /\ q.op = "create_tag" /\ <<"params", q.id>> \in DOMAIN t =>
         <<"row", q.id>> \in DOMAIN t /\ q.config # None

Addressed(d) == \A i \in Tags : IsAbsent(d, i) => d[<<"params", i>>].state # "live"

Typing ==
    /\ \A r \in Requests : Fits(db, retyped, req[r]) /\ Together(req[r], tx[r])
    /\ Addressed(db)
    /\ ConfigFitsType

\* What a commit leaves of what was there.
LEMMA CommitKeeps ==
    ASSUME Base, NEW r \in Requests, Commit(r), NEW i \in Ids, ~IsAbsent(db, i)
    PROVE  /\ ~IsAbsent(db', i)
           /\ i \notin Devices => Parent(db', i) = Parent(db, i)
           /\ i \notin retyped' => TypeOf(db', i) = TypeOf(db, i)
           /\ Live(db', i) => Live(db, i)
<1> PICK q : q = req[r]
  OBVIOUS
<1> PICK t : t = tx[r]
  OBVIOUS
<1> PICK e : e = Over(db, t)
  OBVIOUS
<1>1. db' = e /\ Kinds(q)
  BY CommitFacts
<1>2. Well(db, q, t) /\ q \in Request /\ db \in [Keys -> Row] /\ q.phase = "run"
  BY ApartFacts, CommitFacts
<1>3. retyped' = IF q.op = "update_device" /\ q.type # None THEN retyped \cup {q.id} ELSE retyped
  BY DEF Commit
<1>4. CASE e[<<"row", i>>] = db[<<"row", i>>]
  <2>1. Parent(e, i) = Parent(db, i) /\ TypeOf(e, i) = TypeOf(db, i) /\ Live(e, i) = Live(db, i)
        /\ IsAbsent(e, i) = IsAbsent(db, i)
    BY <1>4 DEF Parent, TypeOf, Live, IsAbsent
  <2> QED BY <1>1, <2>1
<1>5. CASE RowWritten(db, q, i, e[<<"row", i>>])
  <2> PICK new : new = e[<<"row", i>>]
    OBVIOUS
  <2>1. /\ Live(db, i) /\ new.state \in {"live", "deleted"}
        /\ new.parent = IF q.op = "assign_device" THEN q.parent ELSE Parent(db, i)
        /\ new.type = IF q.op = "update_device" /\ q.type # None THEN q.type ELSE TypeOf(db, i)
        /\ (q.op \in Updating => i = q.id)
    BY <1>5 DEF RowWritten, TypeOf
  <2>2. i \notin Devices => q.op # "assign_device"
    BY <1>1, <2>1 DEF Updating, Kinds, DeviceOps
  <2>3. i \notin retyped' => ~(q.op = "update_device" /\ q.type # None)
    BY <1>3, <2>1 DEF Updating
  <2>4. Parent(e, i) = new.parent /\ TypeOf(e, i) = new.type /\ ~IsAbsent(e, i)
    BY <2>1 DEF Parent, TypeOf, IsAbsent
  <2> QED BY <1>1, <2>1, <2>2, <2>3, <2>4
<1>6. \/ e[<<"row", i>>] = db[<<"row", i>>]
      \/ RowWritten(db, q, i, e[<<"row", i>>])
  BY <1>2, OverFacts
<1> QED BY <1>4, <1>5, <1>6

\* What appears with a commit is what the request creates.
LEMMA CommitCreates ==
    ASSUME Base, NEW r \in Requests, Commit(r), NEW i \in Ids, IsAbsent(db, i), ~IsAbsent(db', i)
    PROVE  /\ i \in Creates(req[r]) /\ <<"row", i>> \in DOMAIN tx[r]
           /\ Parent(db', i) = IF req[r].op \in Drawing THEN req[r].id ELSE req[r].parent
           /\ TypeOf(db', i) = IF req[r].op = "create_device" THEN req[r].type ELSE None
           /\ Live(db', i)
<1> PICK q : q = req[r]
  OBVIOUS
<1> PICK t : t = tx[r]
  OBVIOUS
<1> PICK e : e = Over(db, t)
  OBVIOUS
<1>1. db' = e /\ Kinds(q)
  BY CommitFacts
<1>2. Well(db, q, t) /\ q \in Request /\ db \in [Keys -> Row]
  BY ApartFacts
<1>3. e[<<"row", i>>] # db[<<"row", i>>]
  BY <1>1 DEF IsAbsent
<1>4. <<"row", i>> \in DOMAIN t /\ RowWritten(db, q, i, e[<<"row", i>>])
  BY <1>2, <1>3, OverFacts
<1>5. ~Live(db, i)
  BY DEF Live, IsAbsent
<1> PICK new : new = e[<<"row", i>>]
  OBVIOUS
<1>6. /\ i \in Creates(q) /\ new.state = "live"
      /\ new.parent = IF q.op \in Drawing THEN q.id ELSE q.parent
      /\ new.type = IF q.op = "create_device" THEN q.type ELSE None
  BY <1>4, <1>5 DEF RowWritten
<1> QED BY <1>1, <1>4, <1>6 DEF Parent, TypeOf, Live

\* The parameters after a commit.
LEMMA CommitParams ==
    ASSUME Base, NEW r \in Requests, Commit(r), NEW i \in Devices \cup Tags
    PROVE  \/ /\ db'[<<"params", i>>] = db[<<"params", i>>]
              /\ <<"params", i>> \notin DOMAIN tx[r]
           \/ /\ <<"params", i>> \in DOMAIN tx[r] /\ i = req[r].id
              /\ req[r].op \in {"create_device", "update_device_params", "create_tag", "update_tag_params"}
              /\ db'[<<"params", i>>].type = req[r].config
<1> PICK q : q = req[r]
  OBVIOUS
<1> PICK t : t = tx[r]
  OBVIOUS
<1> PICK k : k = <<"params", i>>
  OBVIOUS
<1>1. k \in Keys /\ k[1] = "params" /\ k[2] = i
  BY KeyFacts
<1>2. db' = Over(db, t)
  BY CommitFacts
<1>3. db'[k] = IF k \in DOMAIN t THEN t[k] ELSE db[k]
  BY <1>1, <1>2 DEF Over
<1>4. CASE k \in DOMAIN t
  <2>1. KeyWritten(db, q, t, k, t[k])
    BY <1>4, ApartFacts DEF Well, Written
  <2>2. ParamsWritten(q, t, i, t[k])
    BY <1>1, <2>1 DEF KeyWritten
  <2>3. i \notin Figures
    BY KindFacts
  <2> QED BY <1>3, <1>4, <2>2, <2>3 DEF ParamsWritten
<1> QED BY <1>3, <1>4

\* What another request was compared with still holds after a commit.
LEMMA FitsOthers ==
    ASSUME Base, NEW r \in Requests, Commit(r), NEW o \in Requests, Fits(db, retyped, req[o])
    PROVE  Fits(db', retyped', req[o])
<1> PICK q : q = req[o]
  OBVIOUS
<1>1. retyped \subseteq retyped'
  BY DEF Commit
<1>2. q \in Request /\ Well(db, q, tx[o]) /\ References(db)
  BY ApartFacts
<1>3. CASE q.phase # "run"
  BY <1>3 DEF Fits
<1>4. CASE q.phase = "run"
  <2>1. /\ Kinds(q) /\ (q.op \notin Creating => ~IsAbsent(db, q.id))
        /\ (q.parent # None => ~IsAbsent(db, q.parent))
    BY <1>2, <1>4 DEF Well, Planned, Active
  <2>2. ASSUME q.op = "update_device_params" PROVE q.id \in retyped' \/ q.config = TypeOf(db', q.id)
    <3>1. q.id \in Ids /\ ~IsAbsent(db, q.id)
      BY <2>1, <2>2, KeyFacts DEF Kinds, DeviceOps, Creating
    <3>2. q.id \in retyped \/ q.config = TypeOf(db, q.id)
      BY <1>4, <2>2 DEF Fits
    <3> QED BY <1>1, <3>1, <3>2, CommitKeeps
  <2>3. ASSUME q.op = "create_tag" PROVE q.parent \in retyped' \/ q.config \in {None, TypeOf(db', q.parent)}
    <3>1. q.parent \in Ids /\ q.parent # None
      BY <2>1, <2>3, KeyFacts, KindFacts DEF Kinds
    <3>2. q.parent \in retyped \/ q.config \in {None, TypeOf(db, q.parent)}
      BY <1>4, <2>3 DEF Fits
    <3> QED BY <1>1, <2>1, <3>1, <3>2, CommitKeeps
  <2>4. ASSUME q.op = "update_tag_params"
        PROVE  Parent(db', q.id) \in retyped' \/ q.config = TypeOf(db', Parent(db', q.id))
    <3>1. q.id \in Tags /\ q.id \in Ids /\ q.id \in Inside /\ ~IsAbsent(db, q.id) /\ q.id \notin Devices
      BY <2>1, <2>4, KeyFacts, KindFacts DEF Kinds, TagOps, Creating, Inside
    <3>2. Parent(db', q.id) = Parent(db, q.id)
      BY <3>1, CommitKeeps
    <3>3. Parent(db, q.id) \in Devices /\ ~IsAbsent(db, Parent(db, q.id))
      BY <1>2, <3>1, KindFacts DEF References
    <3>4. Parent(db, q.id) \in Ids
      BY <3>3, KeyFacts
    <3>5. Parent(db, q.id) \in retyped \/ q.config = TypeOf(db, Parent(db, q.id))
      BY <1>4, <2>4 DEF Fits
    <3>6. Parent(db, q.id) \notin retyped' => TypeOf(db', Parent(db, q.id)) = TypeOf(db, Parent(db, q.id))
      BY <3>3, <3>4, CommitKeeps
    <3> QED BY <1>1, <3>2, <3>5, <3>6
  <2> QED BY <1>4, <2>2, <2>3, <2>4 DEF Fits
<1> QED BY <1>3, <1>4

\* A statement leaves what its request was compared with.
LEMMA FitsFacts ==
    ASSUME NEW q, NEW p, SameRequest(q, p), p.phase = q.phase, NEW d, NEW changed, Fits(d, changed, q)
    PROVE  Fits(d, changed, p)
BY DEF SameRequest, Fits

\* The change of a device's or a tag's parameters: there is one, and the entity is there.
LEMMA ParamsChange ==
    ASSUME NEW v \in [Keys -> Row], NEW q \in Request, Kinds(q), NEW s \in {"device_params", "tag_params"},
           Belongs(q, s), NEW c, c = Changes(s, v, q), ~Refused(q, s, c)
    PROVE  <<"params", q.id>> \in DOMAIN c
<1>1. DOMAIN c # {}
  BY DEF Refused, Required
<1>2. \A k \in DOMAIN c : k = <<"params", q.id>>
  BY NothingFacts DEF Changes, UpsertDeviceParams, UpsertTagParams, Write
<1> QED BY <1>1, <1>2

\* A statement keeps a new entity and its parameters together.
LEMMA TogetherExecute ==
    ASSUME Base, NEW r \in Requests, NEW q, NEW s, NEW v, NEW c, NEW p, NEW u,
           Ran(r, q, s, v, c, p, u), Together(q, tx[r])
    PROVE  Together(p, u)
<1> PICK t : t = tx[r]
  OBVIOUS
<1>1. q \in Request /\ Well(db, q, t) /\ db \in [Keys -> Row]
  BY ApartFacts DEF Ran
<1>2. /\ q.phase = "run" /\ q.todo # <<>> /\ Kinds(q) /\ Belongs(q, s) /\ s = NextOf(q.todo)
      /\ c = Changes(s, v, q) /\ Effect(s, v, q, c) /\ Advanced(q, p, s, v, c) /\ u = Adding(t, c)
      /\ v = Over(db, t) /\ ~Refused(q, s, c)
  BY DEF Ran
<1>3. Left(q, q.todo) /\ \A i \in Creates(q) : IsAbsent(db, i)
  BY <1>1, <1>2 DEF Well, Planned, Active
<1>4. p.todo = RestOf(q.todo) /\ p.op = q.op /\ p.id = q.id /\ p.config = q.config /\ p.phase = q.phase
  BY <1>2 DEF Advanced, SameRequest
<1>5. DOMAIN u = DOMAIN c \cup DOMAIN t
  BY <1>2 DEF Adding
<1>6. v \in [Keys -> Row] /\ \A k \in Keys : v[k] = IF k \in DOMAIN t THEN t[k] ELSE db[k]
  BY <1>1, <1>2, ViewRow DEF Well
<1>7. ASSUME p.op = "create_device", p.todo = <<>> PROVE <<"params", p.id>> \in DOMAIN u
  <2>1a. q.todo # <<>> /\ RestOf(q.todo) = <<>> /\ q.op = "create_device" /\ s = NextOf(q.todo)
    BY <1>2, <1>4, <1>7
  <2>1b. q.todo \in {Device2, One("device_params")}
    BY <1>3, <2>1a DEF Left
  <2>1. s = "device_params"
    BY <2>1a, <2>1b, PlanSteps DEF Plans
  <2>2. <<"params", q.id>> \in DOMAIN c
    BY <1>1, <1>2, <1>6, <2>1, ParamsChange
  <2> QED BY <2>2, <1>4, <1>5
<1>8. ASSUME p.op = "create_tag", <<"params", p.id>> \in DOMAIN u
      PROVE  <<"row", p.id>> \in DOMAIN u /\ p.config # None
  <2> PICK k : k = <<"params", q.id>>
    OBVIOUS
  <2> PICK l : l = <<"row", q.id>>
    OBVIOUS
  <2>1. k[1] = "params" /\ k[2] = q.id
    OBVIOUS
  <2>2. q.id \in Ids
    BY <1>2, <1>4, <1>8, KeyFacts DEF Kinds, TagOps
  <2>3. CASE k \in DOMAIN t
    <3>1. l \in DOMAIN t /\ q.config # None
      BY <1>2, <1>4, <1>8, <2>3 DEF Together
    <3> QED BY <3>1, <1>4, <1>5
  <2>4. CASE k \in DOMAIN c
    <3>1. Change(s, v, q, k, c[k])
      BY <1>2, <2>4 DEF Effect
    <3>2. Settings(s, v, q, q.id, c[k])
      BY <2>1, <3>1 DEF Change
    <3>3. s \notin {"device_params", "insert_figures", "update_kept", "delete_rest_params"}
      BY <1>2, <1>4, <1>8 DEF Belongs, Drawing
    <3>4. s = "tag_params" /\ Live(v, q.id)
      BY <3>2, <3>3 DEF Settings
    <3>5. q.config # None
      BY <1>2, <1>4, <1>8, <3>4 DEF Belongs
    <3>6. l \in Keys
      BY <2>2, KeyFacts
    <3>7. IsAbsent(db, q.id)
      BY <1>3, <1>4, <1>8, CreatesFacts
    <3>8. l \in DOMAIN t
      BY <1>6, <3>4, <3>6, <3>7 DEF Live, IsAbsent
    <3> QED BY <3>5, <3>8, <1>4, <1>5
  <2> QED BY <2>3, <2>4, <1>4, <1>5, <1>8
<1> QED BY <1>7, <1>8 DEF Together

\* A request was compared with the type when its use case checked it.
LEMMA FitsBegun ==
    ASSUME NEW r, NEW p, Begun(r, p), Fits(db, retyped, req[r])
    PROVE  Fits(db, retyped, p)
<1> PICK q : q = req[r]
  OBVIOUS
<1>1. Allowed(q) /\ SameRequest(q, p)
  BY DEF Begun
<1>2. /\ p.op = q.op /\ p.id = q.id /\ p.parent = q.parent /\ p.type = q.type
      /\ p.config = q.config
  BY <1>1 DEF SameRequest
<1>3. q.op = "create_device" => q.config = q.type
  BY DEF Fits
<1>4. q.op = "update_device_params" => q.config = TypeOf(db, q.id)
  BY <1>1 DEF Allowed, DeviceParamsAllowed, TypeOf
<1>5. q.op = "create_tag" => q.config \in {None, TypeOf(db, q.parent)}
  BY <1>1 DEF Allowed, TagAllowed, TypeOf
<1>6. q.op = "update_tag_params" => q.config = TypeOf(db, Parent(db, q.id))
  BY <1>1 DEF Allowed, TagParamsAllowed, DeviceTypeOf, TypeOf
<1> QED BY <1>2, <1>3, <1>4, <1>5, <1>6 DEF Fits

\* A new request: only a new device has its type already.
LEMMA FitsNew ==
    ASSUME NEW q, NewRequest(q) PROVE Fits(db, retyped, q)
<1>1. /\ q.phase = IF q.op \in Checking THEN "check" ELSE "run"
      /\ q.op = "create_device" => q.config = q.type
  BY DEF NewRequest
<1> QED BY <1>1 DEF Fits, Checking

\* While nothing is committed.
LEMMA TypingLives ==
    ASSUME Base, NEW r \in Requests, Lives(r), Fits(db, retyped, req[r]), Together(req[r], tx[r]),
           ~Commit(r)
    PROVE  Fits(db, retyped, req'[r]) /\ Together(req'[r], tx'[r])
<1>1. CASE req'[r] = req[r] /\ tx'[r] = tx[r]
  BY <1>1
<1>2. CASE req'[r] = Idle
  BY <1>2, IdleFacts DEF Fits, Together
<1>3. CASE NewRequest(req'[r]) /\ DOMAIN tx'[r] = {}
  <2>1. Fits(db, retyped, req'[r])
    BY <1>3, FitsNew
  <2>2. req'[r].todo # <<>>
    BY <1>3 DEF NewRequest, Whole
  <2> QED BY <1>3, <2>1, <2>2 DEF Together
<1>4. CASE Begun(r, req'[r]) /\ DOMAIN tx'[r] = {}
  <2>1. Fits(db, retyped, req'[r])
    BY <1>4, FitsBegun
  <2>2. Whole(req[r])
    BY <1>4, ApartFacts DEF Begun, Well, Planned
  <2>3. req'[r].todo # <<>>
    BY <1>4, <2>2 DEF Begun, Whole
  <2> QED BY <1>4, <2>1, <2>3 DEF Together
<1>5. ASSUME NEW s, NEW v, NEW c, Ran(r, req[r], s, v, c, req'[r], tx'[r])
      PROVE  Fits(db, retyped, req'[r]) /\ Together(req'[r], tx'[r])
  <2>1. SameRequest(req[r], req'[r]) /\ req'[r].phase = req[r].phase
    BY <1>5 DEF Ran, Advanced
  <2>2. Fits(db, retyped, req'[r])
    BY <2>1, FitsFacts
  <2> QED BY <1>5, <2>2, TogetherExecute
<1>6. CASE Refreshed(r, req'[r])
  <2>1. SameRequest(req[r], req'[r]) /\ req'[r].phase = "publish"
    BY <1>6 DEF Refreshed
  <2> QED BY <2>1 DEF SameRequest, Fits, Together
<1> QED BY <1>1, <1>2, <1>3, <1>4, <1>5, <1>6 DEF Lives

\* The settings of a device after a commit.
LEMMA DeviceFits ==
    ASSUME Base, Typing, NEW r \in Requests, Commit(r), NEW d \in Devices, d \notin retyped', Live(db', d)
    PROVE  db'[<<"params", d>>].type = TypeOf(db', d)
<1> PICK q : q = req[r]
  OBVIOUS
<1>1. q.phase = "run" /\ q.todo = <<>> /\ Kinds(q) /\ q \in Request
  BY CommitFacts, ApartFacts
<1>2. d \in Ids /\ d \notin retyped /\ d \notin Tags
  BY KeyFacts, KindFacts DEF Commit
<1>3. Fits(db, retyped, q) /\ Together(q, tx[r])
  BY DEF Typing
<1>4. CASE ~IsAbsent(db, d)
  <2>1. TypeOf(db', d) = TypeOf(db, d) /\ Live(db, d)
    BY <1>2, <1>4, CommitKeeps
  <2>2. CASE db'[<<"params", d>>] = db[<<"params", d>>]
    BY <1>2, <2>1, <2>2 DEF Typing, ConfigFitsType, TypeOf
  <2>3. CASE /\ d = q.id /\ db'[<<"params", d>>].type = q.config
             /\ q.op \in {"create_device", "update_device_params", "create_tag", "update_tag_params"}
    <3>1. q.op \notin {"create_tag", "update_tag_params"}
      BY <1>1, <1>2, <2>3 DEF Kinds, TagOps
    <3>2. q.op # "create_device"
      BY <1>1, <1>4, <2>3, CreatesFacts, ApartFacts DEF Well, Planned, Active
    <3>3. q.config = TypeOf(db, d)
      BY <1>1, <1>2, <1>3, <2>3, <3>1, <3>2 DEF Fits
    <3> QED BY <2>1, <2>3, <3>3
  <2> QED BY <2>2, <2>3, CommitParams
<1>5. CASE IsAbsent(db, d)
  <2>1. ~IsAbsent(db', d)
    BY DEF IsAbsent, Live
  <2>2. /\ d \in Creates(q)
        /\ TypeOf(db', d) = IF q.op = "create_device" THEN q.type ELSE None
    BY <1>2, <1>5, <2>1, CommitCreates
  <2>3. q.op = "create_device" /\ d = q.id
    BY <1>1, <1>2, <2>2, CreatedKinds, KindFacts
  <2>4. <<"params", d>> \in DOMAIN tx[r]
    BY <1>1, <1>3, <2>3 DEF Together
  <2>5. db'[<<"params", d>>].type = q.config
    BY <2>4, CommitParams
  <2>6. q.config = q.type
    BY <1>3, <2>3 DEF Fits
  <2> QED BY <2>2, <2>3, <2>5, <2>6
<1> QED BY <1>4, <1>5

\* The address of a tag after a commit.
LEMMA TagFits ==
    ASSUME Base, Typing, NEW r \in Requests, Commit(r), NEW d \in Devices, d \notin retyped',
           NEW i \in Tags, Live(db', i), Parent(db', i) = d, db'[<<"params", i>>].state = "live"
    PROVE  db'[<<"params", i>>].type = TypeOf(db', d)
<1> PICK q : q = req[r]
  OBVIOUS
<1>1. q.phase = "run" /\ q.todo = <<>> /\ Kinds(q) /\ q \in Request
  BY CommitFacts, ApartFacts
<1>2. d \in Ids /\ d \notin retyped /\ i \in Ids /\ i \notin Devices /\ i \in Inside /\ d # None
  BY KeyFacts, KindFacts DEF Commit, Inside
<1>3. Fits(db, retyped, q) /\ Together(q, tx[r]) /\ Addressed(db)
  BY DEF Typing
<1>4. Well(db, q, tx[r]) /\ References(db)
  BY ApartFacts
<1>5. CASE ~IsAbsent(db, i)
  <2>1. Parent(db, i) = d /\ Live(db, i)
    BY <1>2, <1>5, CommitKeeps
  <2>2. ~IsAbsent(db, d)
    BY <1>2, <1>4, <2>1 DEF References
  <2>3. TypeOf(db', d) = TypeOf(db, d)
    BY <1>2, <2>2, CommitKeeps
  <2>4. CASE db'[<<"params", i>>] = db[<<"params", i>>]
    BY <1>2, <2>1, <2>3, <2>4 DEF Typing, ConfigFitsType, TypeOf
  <2>5. CASE /\ i = q.id /\ db'[<<"params", i>>].type = q.config
             /\ q.op \in {"create_device", "update_device_params", "create_tag", "update_tag_params"}
    <3>1. q.op \notin {"create_device", "update_device_params"}
      BY <1>1, <1>2, <2>5 DEF Kinds, DeviceOps
    <3>2. q.op # "create_tag"
      BY <1>1, <1>4, <1>5, <2>5, CreatesFacts DEF Well, Planned, Active
    <3>3. q.config = TypeOf(db, d)
      BY <1>1, <1>2, <1>3, <2>1, <2>5, <3>1, <3>2 DEF Fits
    <3> QED BY <2>3, <2>5, <3>3
  <2> QED BY <2>4, <2>5, CommitParams
<1>6. CASE IsAbsent(db, i)
  <2>1. ~IsAbsent(db', i)
    BY DEF IsAbsent, Live
  <2>2. /\ i \in Creates(q)
        /\ Parent(db', i) = IF q.op \in Drawing THEN q.id ELSE q.parent
    BY <1>2, <1>6, <2>1, CommitCreates
  <2>3. q.op = "create_tag" /\ i = q.id
    BY <1>1, <1>2, <2>2, CreatedKinds, KindFacts
  <2>4. q.parent = d
    BY <2>2, <2>3 DEF Drawing
  <2>5. ~IsAbsent(db, d)
    BY <1>1, <1>2, <1>4, <2>4 DEF Well, Planned, Active
  <2>6. TypeOf(db', d) = TypeOf(db, d)
    BY <1>2, <2>5, CommitKeeps
  <2>7. db[<<"params", i>>].state # "live"
    BY <1>3, <1>6 DEF Addressed
  <2>8. <<"params", i>> \in DOMAIN tx[r] /\ db'[<<"params", i>>].type = q.config
    BY <2>7, CommitParams
  <2>9. q.config # None
    BY <1>1, <1>3, <2>3, <2>8 DEF Together
  <2>10. q.config = TypeOf(db, d)
    BY <1>1, <1>2, <1>3, <2>3, <2>4, <2>9 DEF Fits
  <2> QED BY <2>6, <2>8, <2>10
<1> QED BY <1>5, <1>6

\* A tag that is not there has no address after a commit either.
LEMMA AddressedCommit ==
    ASSUME Base, Typing, NEW r \in Requests, Commit(r)
    PROVE  Addressed(db')
<1> SUFFICES ASSUME NEW i \in Tags, IsAbsent(db', i) PROVE db'[<<"params", i>>].state # "live"
  BY DEF Addressed
<1> PICK q : q = req[r]
  OBVIOUS
<1>1. q.phase = "run" /\ q.todo = <<>> /\ Kinds(q) /\ q \in Request
  BY CommitFacts, ApartFacts
<1>2. i \in Ids /\ i \notin Devices
  BY KeyFacts, KindFacts
<1>3. IsAbsent(db, i)
  BY <1>2, CommitKeeps
<1>4. CASE db'[<<"params", i>>] = db[<<"params", i>>]
  BY <1>3, <1>4 DEF Typing, Addressed
<1>5. CASE /\ <<"params", i>> \in DOMAIN tx[r] /\ i = q.id
           /\ q.op \in {"create_device", "update_device_params", "create_tag", "update_tag_params"}
  <2>1. q.op \notin {"create_device", "update_device_params"}
    BY <1>1, <1>2, <1>5 DEF Kinds, DeviceOps
  <2>2. q.op # "update_tag_params"
    BY <1>1, <1>3, <1>5, ApartFacts DEF Well, Planned, Active, Creating
  <2> PICK k : k = <<"row", i>>
    OBVIOUS
  <2>3. k \in DOMAIN tx[r]
    BY <1>1, <1>5, <2>1, <2>2 DEF Typing, Together
  <2>4. k \in Keys /\ k[1] = "row" /\ k[2] = i
    BY <1>2, KeyFacts
  <2>5. db' = Over(db, tx[r])
    BY CommitFacts
  <2>6. db'[k] = tx[r][k]
    BY <2>3, <2>4, <2>5 DEF Over
  <2>7. RowWritten(db, q, i, tx[r][k])
    BY <2>3, <2>4, ApartFacts DEF Well, Written, KeyWritten
  <2> QED BY <2>6, <2>7 DEF RowWritten, IsAbsent
<1> QED BY <1>4, <1>5, CommitParams

\* Every step keeps settings and addresses fitting.
LEMMA TypingStep == ASSUME Base, Typing, [Next]_vars PROVE Typing'
<1>0. \A r \in Requests : Lives(r)
  BY AllLive
<1>1. CASE \E r \in Requests : Commit(r)
  <2> PICK r \in Requests : Commit(r)
    BY <1>1
  <2>1. ASSUME NEW o \in Requests PROVE Fits(db', retyped', req'[o]) /\ Together(req'[o], tx'[o])
    <3>1. CASE o = r
      <4>1. PICK p : req' = [req EXCEPT ![r] = p] /\ Committed(req[r], p, db')
        BY CommitFacts
      <4>2. req'[r] = p /\ p.phase # "run" /\ p.op = req[r].op /\ p.config = req[r].config /\ p.type = req[r].type
        BY <4>1 DEF Committed, SameRequest, Base
      <4>3. req[r].op = "create_device" => req[r].config = req[r].type
        BY DEF Typing, Fits
      <4> QED BY <3>1, <4>2, <4>3 DEF Fits, Together
    <3>2. CASE o # r
      <4>1. req'[o] = req[o] /\ tx'[o] = tx[o]
        BY <3>2, OthersStay, CommitFacts
      <4>2. Fits(db, retyped, req[o]) /\ Together(req[o], tx[o])
        BY DEF Typing
      <4> QED BY <4>1, <4>2, FitsOthers
    <3> QED BY <3>1, <3>2
  <2>2. Addressed(db')
    BY AddressedCommit
  <2>3. ConfigFitsType'
    BY DeviceFits, TagFits DEF ConfigFitsType, TypeOf
  <2> QED BY <2>1, <2>2, <2>3 DEF Typing
<1>2. CASE ~\E r \in Requests : Commit(r)
  <2>1. db' = db
    BY <1>2, OnlyCommits
  <2>2. retyped' = retyped
    <3>1. ASSUME NEW r \in Requests,
             InventoryRequest(r) \/ MimicRequest(r) \/ \E o \in Objects : DeleteMonitoringObject(r, o)
          PROVE  retyped' = retyped
      BY <3>1, RequestIsNew DEF Accept
    <3>2. CASE UNCHANGED store \/ Rest \/ Crash
      BY <3>2 DEF Rest, Crash, vars, store, history
    <3>3. ASSUME NEW r \in Requests, Check(r) \/ Execute(r) \/ Fail(r) PROVE retyped' = retyped
      BY <3>3 DEF Check, Execute, Fail, history
    <3>4. ASSUME NEW r \in Requests, NEW works \in BOOLEAN, Reread(r, works) PROVE retyped' = retyped
      BY <3>4 DEF Reread
    <3>5. ASSUME NEW r \in Requests, NEW sent \in SUBSET Announcements(req[r]), Publish(r, sent)
          PROVE  retyped' = retyped
      BY <3>5 DEF Publish
    <3> QED BY <1>2, <3>1, <3>2, <3>3, <3>4, <3>5, LockingOnly DEF Next, vars
  <2>3. ASSUME NEW r \in Requests PROVE Fits(db, retyped, req'[r]) /\ Together(req'[r], tx'[r])
    BY <1>0, <1>2, TypingLives DEF Typing
  <2>4. Addressed(db')
    BY <2>1 DEF Typing
  <2>5. ConfigFitsType'
    BY <2>1, <2>2 DEF Typing, ConfigFitsType, Live, Parent
  <2> QED BY <2>1, <2>2, <2>3, <2>4, <2>5 DEF Typing
<1> QED BY <1>1, <1>2

\* What is there from the start has the one type.
LEMMA InitialTyping == Init => Typing
<1> SUFFICES ASSUME Init PROVE Typing
  OBVIOUS
<1>1. req = [r \in Requests |-> Idle] /\ retyped = {}
  BY DEF Init
<1>2. \A r \in Requests : Fits(db, retyped, req[r]) /\ Together(req[r], tx[r])
  BY <1>1, IdleFacts DEF Fits, Together
<1> DEFINE Row0(k) == [state |-> "live", version |-> 0,
                     parent |-> IF k[1] = "row" /\ k[2] \notin Objects THEN HomeOf[k[2]] ELSE None,
                     type |-> IF k[2] \in Devices \/ (k[2] \in Tags /\ k[1] = "params")
                              THEN TheType ELSE None]
<1>3. db = [k \in Keys |-> IF k[2] \notin Initial \/ k[1] \in Extras THEN Absent ELSE Row0(k)]
  BY DEF Init
<1>4. ASSUME NEW k \in Keys, k[1] \in {"row", "params"}
      PROVE  IF k[2] \in Initial THEN db[k].state = "live" /\ (k[2] \in Devices \/ (k[2] \in Tags /\ k[1] = "params") => db[k].type = TheType)
             ELSE db[k].state = "absent"
  <2>1. db[k] = IF k[2] \notin Initial THEN Absent ELSE Row0(k)
    BY <1>3, <1>4 DEF Extras
  <2>2. Row0(k).state = "live" /\ (k[2] \in Devices \/ (k[2] \in Tags /\ k[1] = "params") => Row0(k).type = TheType)
    OBVIOUS
  <2>3. Absent.state = "absent"
    BY DEF Absent
  <2> HIDE DEF Row0
  <2> QED BY <2>1, <2>2, <2>3
<1> HIDE DEF Row0
<1>5. ASSUME NEW i \in Devices \cup Tags
      PROVE  /\ (i \in Initial => db[<<"params", i>>].type = TheType /\ db[<<"row", i>>].state = "live"
                                  /\ (i \in Devices => db[<<"row", i>>].type = TheType))
             /\ (i \notin Initial => db[<<"params", i>>].state = "absent" /\ db[<<"row", i>>].state = "absent")
  <2> PICK k : k = <<"params", i>>
    OBVIOUS
  <2> PICK l : l = <<"row", i>>
    OBVIOUS
  <2>1. k \in Keys /\ k[1] = "params" /\ k[2] = i /\ l \in Keys /\ l[1] = "row" /\ l[2] = i
    BY KeyFacts
  <2> QED BY <1>4, <2>1
<1>6. Addressed(db)
  BY <1>5 DEF Addressed, IsAbsent
<1>7. ConfigFitsType
  <2> SUFFICES ASSUME NEW d \in Devices
               PROVE  /\ Live(db, d) => db[<<"params", d>>].type = db[<<"row", d>>].type
                      /\ \A t \in Tags : Live(db, t) /\ Parent(db, t) = d /\ db[<<"params", t>>].state = "live"
                           => db[<<"params", t>>].type = db[<<"row", d>>].type
    BY DEF ConfigFitsType
  <2>1. Live(db, d) => db[<<"params", d>>].type = db[<<"row", d>>].type
    BY <1>5 DEF Live
  <2>2. ASSUME NEW t \in Tags, Live(db, t), Parent(db, t) = d
        PROVE  db[<<"params", t>>].type = db[<<"row", d>>].type
    <3>1. t \in Initial
      BY <1>5, <2>2 DEF Live
    <3>2. t \in Inside /\ d # None
      BY KeyFacts, KindFacts DEF Inside
    <3>3. References(db)
      BY InitialBase DEF Base
    <3>4. ~IsAbsent(db, d)
      BY <2>2, <3>2, <3>3 DEF References
    <3>5. d \in Initial
      BY <1>5, <3>4 DEF IsAbsent
    <3> QED BY <1>5, <3>1, <3>5
  <2> QED BY <2>1, <2>2
<1> QED BY <1>2, <1>6, <1>7 DEF Typing

\* Settings and addresses fit the device's type unless it was changed.
THEOREM ConfigCorrect == Spec => []ConfigFitsType
<1>1. Typing => ConfigFitsType
  BY DEF Typing
<1> QED BY <1>1, BaseHolds, InitialTyping, TypingStep, PTL DEF Spec

-----------------------------------------------------------------------------
(* What the statements of a request have deleted, and what they still see. *)

GoneIn(t, i) == <<"row", i>> \in DOMAIN t /\ t[<<"row", i>>].state = "deleted"

\* A transaction's view of an entity that is there.
LEMMA Seen ==
    ASSUME NEW d \in [Keys -> Row], NEW q \in Request, NEW t, Well(d, q, t),
           NEW v, v = Over(d, t), NEW i \in Ids, ~IsAbsent(d, i), q.phase = "run"
    PROVE  /\ Live(d, i) => Live(v, i) \/ GoneIn(t, i)
           /\ Live(v, i) => Live(d, i) /\ ~GoneIn(t, i)
           /\ q.op # "assign_device" => Parent(v, i) = Parent(d, i)
<1> PICK k : k = <<"row", i>>
  OBVIOUS
<1>1. \/ k \notin DOMAIN t /\ v[k] = d[k]
      \/ k \in DOMAIN t /\ v[k] = t[k] /\ RowWritten(d, q, i, v[k])
  BY OverFacts
<1>2. CASE k \notin DOMAIN t
  BY <1>1, <1>2 DEF Live, Parent, GoneIn
<1>3. CASE k \in DOMAIN t
  <2>1. /\ Live(d, i) /\ v[k].state \in {"live", "deleted"}
        /\ v[k].parent = IF q.op = "assign_device" THEN q.parent ELSE Parent(d, i)
    BY <1>1, <1>3 DEF RowWritten
  <2> QED BY <1>1, <1>3, <2>1 DEF Live, Parent, GoneIn
<1> QED BY <1>2, <1>3

\* What a statement deletes is gone in its transaction.
LEMMA Falls ==
    ASSUME Base, NEW r \in Requests, NEW q, NEW s, NEW v, NEW c, NEW p, NEW u,
           Ran(r, q, s, v, c, p, u), s \in Deleting, NEW i, Dooms(s, v, q, i)
    PROVE  GoneIn(u, i)
<1> PICK k : k = <<"row", i>>
  OBVIOUS
<1>1. q \in Request /\ Well(db, q, tx[r]) /\ db \in [Keys -> Row]
  BY ApartFacts DEF Ran
<1>2. v = Over(db, tx[r]) /\ c = Changes(s, v, q) /\ u = Adding(tx[r], c)
  BY DEF Ran
<1>3. v \in [Keys -> Row]
  BY <1>1, <1>2, ViewRow DEF Well
<1>4. Burial(s, v, q, c)
  BY <1>1, <1>2, <1>3, DeletingFacts
<1>5. k \in DOMAIN c /\ c[k] = Buried(v[k])
  BY <1>4 DEF Burial
<1>6. i \in Ids
  BY DEF Dooms
<1>7. v[k] \in Row
  BY <1>3, <1>6, KeyFacts
<1>8. c[k].state = "deleted"
  BY <1>5, <1>7, BuriedFacts
<1> QED BY <1>2, <1>5, <1>8 DEF GoneIn, Adding

\* What is gone in a transaction stays so.
LEMMA StaysGone ==
    ASSUME Base, NEW r \in Requests, NEW q, NEW s, NEW v, NEW c, NEW p, NEW u,
           Ran(r, q, s, v, c, p, u), NEW i \in Ids, GoneIn(tx[r], i)
    PROVE  GoneIn(u, i)
<1> PICK t : t = tx[r]
  OBVIOUS
<1> PICK k : k = <<"row", i>>
  OBVIOUS
<1>0. k \in Keys /\ k[1] = "row" /\ k[2] = i
  BY KeyFacts
<1>1. q \in Request /\ Well(db, q, t) /\ db \in [Keys -> Row]
  BY ApartFacts DEF Ran
<1>2. /\ v = Over(db, t) /\ u = Adding(t, c) /\ Effect(s, v, q, c) /\ q.phase = "run"
      /\ s = NextOf(q.todo) /\ q.todo # <<>> /\ Belongs(q, s)
  BY DEF Ran
<1>3. k \in DOMAIN t /\ t[k].state = "deleted"
  BY DEF GoneIn
<1>4. v[k] = t[k]
  BY <1>0, <1>2, <1>3 DEF Over
<1>5. RowWritten(db, q, i, t[k])
  BY <1>0, <1>1, <1>3 DEF Well, Written, KeyWritten
<1>6. i \notin Creates(q)
  BY <1>3, <1>5 DEF RowWritten
<1>7. k \in DOMAIN u /\ u[k] = IF k \in DOMAIN c THEN c[k] ELSE t[k]
  BY <1>2, <1>3 DEF Adding
<1>8. CASE k \in DOMAIN c
  <2>1. Change(s, v, q, k, c[k])
    BY <1>2, <1>8 DEF Effect
  <2>2. Insertion(s, q, i, c[k]) \/ Update(s, v, q, i, c[k]) \/ Deletion(s, v, q, i, c[k])
    BY <1>0, <2>1 DEF Change
  <2>3. ~Insertion(s, q, i, c[k])
    BY <1>6 DEF Insertion
  <2>4. ~Live(v, i)
    BY <1>3, <1>4 DEF Live
  <2>5. ASSUME Update(s, v, q, i, c[k]) PROVE FALSE
    <3>1. s = "update_kept" /\ i \in q.found
      BY <2>4, <2>5 DEF Update
    <3>2. q.op = "bulk" /\ Left(q, q.todo)
      BY <1>1, <1>2, <3>1 DEF Belongs, Well, Planned, Active
    <3>3. q.todo = Bulk3
      BY <1>2, <3>1, <3>2, BulkTodo
    <3>4. t[k].state = "live"
      BY <1>1, <1>2, <3>1, <3>2, <3>3 DEF Well, BulkHeld
    <3> QED BY <3>4, <1>3
  <2>6. c[k] = Buried(v[k])
    BY <2>2, <2>3, <2>5 DEF Deletion
  <2>7. v[k] \in Row
    BY <1>0, <1>1, <1>2, ViewRow DEF Well
  <2>8. c[k].state = "deleted"
    BY <2>6, <2>7, BuriedFacts
  <2> QED BY <2>8, <1>7, <1>8 DEF GoneIn
<1>9. CASE k \notin DOMAIN c
  BY <1>3, <1>7, <1>9 DEF GoneIn
<1> QED BY <1>8, <1>9

\* What is newly gone was deleted by the statement.
LEMMA NewlyGone ==
    ASSUME Base, NEW r \in Requests, NEW q, NEW s, NEW v, NEW c, NEW p, NEW u,
           Ran(r, q, s, v, c, p, u), NEW i \in Ids, GoneIn(u, i), ~GoneIn(tx[r], i)
    PROVE  s \in Deleting /\ Dooms(s, v, q, i) /\ <<"row", i>> \in DOMAIN c
<1> PICK t : t = tx[r]
  OBVIOUS
<1> PICK k : k = <<"row", i>>
  OBVIOUS
<1>0. k \in Keys /\ k[1] = "row" /\ k[2] = i
  BY KeyFacts
<1>2. u = Adding(t, c) /\ Effect(s, v, q, c)
  BY DEF Ran
<1>3. k \in DOMAIN c /\ c[k].state = "deleted"
  BY <1>2 DEF GoneIn, Adding
<1>4. Change(s, v, q, k, c[k])
  BY <1>2, <1>3 DEF Effect
<1>5. Insertion(s, q, i, c[k]) \/ Update(s, v, q, i, c[k]) \/ Deletion(s, v, q, i, c[k])
  BY <1>0, <1>4 DEF Change
<1>6. Deletion(s, v, q, i, c[k])
  BY <1>3, <1>5 DEF Insertion, Update
<1> QED BY <1>3, <1>6 DEF Deletion

-----------------------------------------------------------------------------
(* Bulk saves. *)

\* Where a bulk save stands; others have committed the figures mw since it began.
Saving(d, q, t, mw) ==
    q.op = "bulk" /\ q.phase = "run" =>
        /\ \A k \in DOMAIN t : k[2] \in q.found \cup q.new
        /\ q.todo # BulkPlan => LiveUnder(d, q.id, Figures) \subseteq q.found \cup mw
        /\ q.todo \in {Bulk2, One("delete_rest_params"), <<>>} => q.keep \subseteq q.found
        /\ q.todo \in {Bulk3, Bulk2, One("delete_rest_params"), <<>>} =>
             \A f \in q.new : <<"row", f>> \in DOMAIN t
        /\ q.todo \in {One("delete_rest_params"), <<>>} =>
             /\ \A f \in q.found \ q.keep : GoneIn(t, f)
             /\ \A f \in q.found \cap q.keep : ~GoneIn(t, f)

\* A statement of a bulk save takes it to its next stage.
LEMMA SavingExecute ==
    ASSUME Base, NEW r \in Requests, NEW q, NEW s, NEW v, NEW c, NEW p, NEW u,
           Ran(r, q, s, v, c, p, u), NEW mw, Saving(db, q, tx[r], mw)
    PROVE  Saving(db, p, u, mw)
<1> PICK t : t = tx[r]
  OBVIOUS
<1>1. q \in Request /\ Well(db, q, t) /\ db \in [Keys -> Row]
  BY ApartFacts DEF Ran
<1>2. /\ v = Over(db, t) /\ u = Adding(t, c) /\ Effect(s, v, q, c) /\ q.phase = "run"
      /\ s = NextOf(q.todo) /\ q.todo # <<>> /\ Belongs(q, s) /\ c = Changes(s, v, q)
      /\ Advanced(q, p, s, v, c) /\ ~Refused(q, s, c)
  BY DEF Ran
<1>3. /\ p.op = q.op /\ p.id = q.id /\ p.keep = q.keep /\ p.new = q.new /\ p.todo = RestOf(q.todo)
      /\ p.found = (IF s = "snapshot_figures" THEN LiveUnder(v, q.id, Figures)
                    ELSE IF s = "lock_figures" THEN {f \in q.found : Live(v, f)}
                    ELSE q.found)
  BY <1>2 DEF Advanced, SameRequest
<1> SUFFICES ASSUME q.op = "bulk" PROVE Saving(db, p, u, mw)
  BY <1>3 DEF Saving
<1>4. Left(q, q.todo)
  BY <1>1, <1>2 DEF Well, Planned, Active
<1>5. /\ (q.todo \in {BulkPlan, Bulk5} => DOMAIN t = {})
      /\ (q.todo \notin {BulkPlan, Bulk5} => \A f \in q.found : <<"row", f>> \in DOMAIN t)
      /\ (q.todo \in {Bulk4, Bulk3, Bulk2} => \A f \in q.found : t[<<"row", f>>].state = "live")
  BY <1>1, <1>2 DEF Well, BulkHeld
<1>6. /\ \A k \in DOMAIN t : k[2] \in q.found \cup q.new
      /\ q.todo # BulkPlan => LiveUnder(db, q.id, Figures) \subseteq q.found \cup mw
      /\ q.todo \in {Bulk2, One("delete_rest_params"), <<>>} => q.keep \subseteq q.found
      /\ q.todo \in {Bulk3, Bulk2, One("delete_rest_params"), <<>>} =>
           \A f \in q.new : <<"row", f>> \in DOMAIN t
      /\ q.todo \in {One("delete_rest_params"), <<>>} =>
           /\ \A f \in q.found \ q.keep : GoneIn(t, f)
           /\ \A f \in q.found \cap q.keep : ~GoneIn(t, f)
  BY <1>2 DEF Saving
<1>7. DOMAIN u = DOMAIN c \cup DOMAIN t
  BY <1>2 DEF Adding
<1>8. q.new \subseteq Figures /\ q.found \subseteq Figures /\ q.keep \subseteq Figures /\ Figures \subseteq Ids
  BY <1>1, KeyFacts DEF Request
<1>9. \A k \in Keys : v[k] = IF k \in DOMAIN t THEN t[k] ELSE db[k]
  BY <1>1, <1>2, ViewRow DEF Well
<1>10. ASSUME NEW k \in DOMAIN c PROVE k[2] \in q.new \/ (k[2] \in q.found /\ (s = "lock_figures" => Live(v, k[2])))
  <2> PICK i : i = k[2]
    OBVIOUS
  <2>1. Change(s, v, q, k, c[k])
    BY <1>2 DEF Effect
  <2>2. k[1] \in {"row", "params", "setpoints", "scaling"}
    BY <2>1, KeyFacts DEF Change
  <2>3. s \in {"snapshot_figures", "lock_figures", "insert_figures", "update_kept", "delete_rest", "delete_rest_params"}
    BY <1>2, <1>4, BulkTodo
  <2>4. k[1] \in {"row", "params"}
    BY <2>1, <2>2, <2>3 DEF Change, Extras, ExtraSteps
  <2>5. CASE k[1] = "row"
    <3>1. Insertion(s, q, i, c[k]) \/ Update(s, v, q, i, c[k]) \/ Deletion(s, v, q, i, c[k])
      BY <2>1, <2>5 DEF Change
    <3>2. Insertion(s, q, i, c[k]) => i \in q.new
      BY CreatesFacts DEF Insertion, Drawing
    <3>3. Update(s, v, q, i, c[k]) => i \in q.found /\ (s = "lock_figures" => Live(v, i))
      BY <2>3 DEF Update, Updating
    <3>4. Deletion(s, v, q, i, c[k]) => i \in q.found /\ s # "lock_figures"
      BY <2>3 DEF Deletion, Deleting, Cascading, Dooms
    <3> QED BY <3>1, <3>2, <3>3, <3>4
  <2>6. CASE k[1] = "params"
    BY <2>1, <2>3, <2>6 DEF Change, Settings
  <2> QED BY <2>4, <2>5, <2>6
<1>11. CASE q.todo = BulkPlan
  <2>1. s = "snapshot_figures" /\ p.todo = Bulk5
    BY <1>2, <1>3, <1>4, <1>11, BulkTodo
  <2>2. c = Nothing
    BY <1>2, <2>1 DEF Changes
  <2>3. DOMAIN u = {}
    BY <1>5, <1>7, <1>11, <2>2, NothingFacts
  <2>4. \A f \in Figures : Live(v, f) = Live(db, f) /\ Parent(v, f) = Parent(db, f)
    BY <1>5, <1>8, <1>9, <1>11, KeyFacts DEF Live, Parent
  <2>5. p.found = LiveUnder(db, q.id, Figures)
    BY <1>3, <2>1, <2>4 DEF LiveUnder
  <2>6. Bulk5 \notin {Bulk3, Bulk2, One("delete_rest_params"), <<>>}
    BY PlanSteps DEF Plans
  <2> QED BY <1>3, <2>1, <2>3, <2>5, <2>6 DEF Saving
<1>12. CASE q.todo = Bulk5
  <2>1. s = "lock_figures" /\ p.todo = Bulk4
    BY <1>2, <1>3, <1>4, <1>12, BulkTodo
  <2>2. p.found = {f \in q.found : Live(v, f)}
    BY <1>3, <2>1
  <2>3. \A f \in Figures : Live(v, f) = Live(db, f)
    BY <1>5, <1>8, <1>9, <1>12, KeyFacts DEF Live
  <2>4. LiveUnder(db, q.id, Figures) \subseteq p.found \cup mw
    BY <1>6, <1>12, <2>2, <2>3, BulkDistinct DEF LiveUnder
  <2>5. \A k \in DOMAIN u : k[2] \in p.found \cup q.new
    BY <1>5, <1>7, <1>10, <1>12, <2>1, <2>2
  <2>6. Bulk4 \notin {Bulk3, Bulk2, One("delete_rest_params"), <<>>}
    BY PlanSteps DEF Plans
  <2> QED BY <1>3, <2>1, <2>4, <2>5, <2>6 DEF Saving
<1>13. ASSUME q.todo \notin {BulkPlan, Bulk5}
       PROVE  /\ p.found = q.found
              /\ \A k \in DOMAIN u : k[2] \in p.found \cup q.new
              /\ LiveUnder(db, q.id, Figures) \subseteq p.found \cup mw
  <2>1. s \notin {"snapshot_figures", "lock_figures"}
    BY <1>2, <1>4, <1>13, BulkTodo
  <2> QED BY <1>3, <1>6, <1>7, <1>10, <1>13, <2>1
<1>14. CASE q.todo = Bulk4
  <2>1. s = "insert_figures" /\ p.todo = Bulk3
    BY <1>2, <1>3, <1>4, <1>14, BulkTodo
  <2>2. \A f \in q.new : <<"row", f>> \in DOMAIN u
    BY <1>2, <1>7, <2>1, InsertedFigures
  <2>3. Bulk3 \notin {Bulk2, One("delete_rest_params"), <<>>}
    BY PlanSteps DEF Plans
  <2>4. q.todo \notin {BulkPlan, Bulk5}
    BY <1>14, BulkDistinct
  <2> QED BY <1>3, <1>13, <2>1, <2>2, <2>3, <2>4 DEF Saving
<1>15. CASE q.todo = Bulk3
  <2>1. s = "update_kept" /\ p.todo = Bulk2
    BY <1>2, <1>3, <1>4, <1>15, BulkTodo
  <2>2. \A f \in q.new : <<"row", f>> \in DOMAIN u
    BY <1>6, <1>7, <1>15
  <2>3. q.keep \subseteq q.found
    BY <1>2, <2>1 DEF Refused
  <2>4. Bulk2 \notin {One("delete_rest_params"), <<>>}
    BY PlanSteps DEF Plans
  <2>5. q.todo \notin {BulkPlan, Bulk5}
    BY <1>15, BulkDistinct
  <2> QED BY <1>3, <1>13, <2>1, <2>2, <2>3, <2>4, <2>5 DEF Saving
<1>16. CASE q.todo = Bulk2
  <2>1. s = "delete_rest" /\ p.todo = One("delete_rest_params")
    BY <1>2, <1>3, <1>4, <1>16, BulkTodo
  <2>2. \A f \in q.new : <<"row", f>> \in DOMAIN u
    BY <1>6, <1>7, <1>16
  <2>3. q.keep \subseteq q.found
    BY <1>6, <1>16
  <2>4. ASSUME NEW f \in q.found \ q.keep PROVE GoneIn(u, f)
    <3>1. Dooms(s, v, q, f)
      BY <1>8, <2>1 DEF Dooms
    <3> QED BY <2>1, <3>1, Falls DEF Deleting
  <2>5. ASSUME NEW f \in q.found \cap q.keep, GoneIn(u, f) PROVE FALSE
    <3>1. ~GoneIn(t, f)
      BY <1>5, <1>16 DEF GoneIn
    <3>2. Dooms(s, v, q, f)
      BY <1>8, <2>5, <3>1, NewlyGone
    <3> QED BY <2>1, <2>5, <3>2 DEF Dooms
  <2>6. q.todo \notin {BulkPlan, Bulk5}
    BY <1>16, BulkDistinct
  <2> QED BY <1>3, <1>13, <2>1, <2>2, <2>3, <2>4, <2>5, <2>6 DEF Saving
<1>17. CASE q.todo = One("delete_rest_params")
  <2>1. s = "delete_rest_params" /\ p.todo = <<>>
    BY <1>2, <1>3, <1>4, <1>17, BulkTodo
  <2>2. \A f \in q.new : <<"row", f>> \in DOMAIN u
    BY <1>6, <1>7, <1>17
  <2>3. q.keep \subseteq q.found
    BY <1>6, <1>17
  <2>4. ASSUME NEW f \in q.found \ q.keep PROVE GoneIn(u, f)
    BY <1>6, <1>8, <1>17, StaysGone
  <2>5. ASSUME NEW f \in q.found \cap q.keep, GoneIn(u, f) PROVE FALSE
    <3>1. ~GoneIn(t, f)
      BY <1>6, <1>17
    <3>2. s \in Deleting
      BY <1>8, <2>5, <3>1, NewlyGone
    <3> QED BY <2>1, <3>2 DEF Deleting, Cascading
  <2>6. q.todo \notin {BulkPlan, Bulk5}
    BY <1>17, BulkDistinct
  <2> QED BY <1>3, <1>13, <2>1, <2>2, <2>3, <2>4, <2>5, <2>6 DEF Saving
<1> QED BY <1>2, <1>4, <1>11, <1>12, <1>14, <1>15, <1>16, <1>17, BulkTodo

Saves == \A r \in Requests : Saving(db, req[r], tx[r], meanwhile[r])

\* Figures of other requests are counted by commits, from the start of a request.
LEMMA MeanwhileSteps ==
    ASSUME Base, Histories, [Next]_vars, ~\E r \in Requests : Commit(r), NEW o \in Requests
    PROVE  meanwhile'[o] = meanwhile[o] \/ NewRequest(req'[o])
<1>1. CASE UNCHANGED store
  BY <1>1 DEF vars, store, history
<1>2. CASE Crash \/ Rest
  BY <1>2 DEF Crash, Rest, vars, store, history
<1>3. ASSUME NEW r \in Requests, NEW q, NewRequest(q), Accept(r, q)
      PROVE  meanwhile'[o] = meanwhile[o] \/ NewRequest(req'[o])
  <2>1. meanwhile' = [meanwhile EXCEPT ![r] = {}] /\ req' = [req EXCEPT ![r] = q]
    BY <1>3 DEF Accept
  <2>2. CASE o = r
    BY <1>3, <2>1, <2>2 DEF Base
  <2>3. CASE o # r
    BY <2>1, <2>3 DEF Histories
  <2> QED BY <2>2, <2>3
<1>4. ASSUME NEW r \in Requests, Check(r) \/ Execute(r) \/ Fail(r) PROVE meanwhile' = meanwhile
  BY <1>4 DEF Check, Execute, Fail, history
<1>5. ASSUME NEW r \in Requests, NEW works \in BOOLEAN, Reread(r, works) PROVE meanwhile' = meanwhile
  BY <1>5 DEF Reread
<1>6. ASSUME NEW r \in Requests, NEW sent \in SUBSET Announcements(req[r]), Publish(r, sent)
      PROVE  meanwhile' = meanwhile
  BY <1>6 DEF Publish
<1>7. ASSUME NEW r \in Requests,
             InventoryRequest(r) \/ MimicRequest(r) \/ \E x \in Objects : DeleteMonitoringObject(r, x)
      PROVE  meanwhile'[o] = meanwhile[o] \/ NewRequest(req'[o])
  BY <1>3, <1>7, RequestIsNew
<1> QED BY <1>1, <1>2, <1>4, <1>5, <1>6, <1>7, LockingOnly DEF Next, vars

\* A bulk save that begins.
LEMMA SavingNew ==
    ASSUME NEW q, NewRequest(q), NEW t, DOMAIN t = {}, NEW d, NEW mw
    PROVE  Saving(d, q, t, mw)
<1>1. q.op = "bulk" => q.todo = BulkPlan
  BY DEF NewRequest, Whole
<1>2. BulkPlan \notin {Bulk3, Bulk2, One("delete_rest_params"), <<>>}
  BY PlanSteps DEF Plans
<1> QED BY <1>1, <1>2 DEF Saving

\* A commit of another request: the figures it brings are counted.
LEMMA SavingCommit ==
    ASSUME Base, Histories, NEW r \in Requests, Commit(r), NEW o \in Requests, o # r,
           Saving(db, req[o], tx[o], meanwhile[o])
    PROVE  Saving(db', req[o], tx[o], meanwhile'[o])
<1> PICK q : q = req[o]
  OBVIOUS
<1>1. meanwhile'[o] = meanwhile[o] \cup {k[2] : k \in DOMAIN tx[r] \cap ({"row"} \X Figures)}
  BY DEF Commit
<1> SUFFICES ASSUME q.op = "bulk", q.phase = "run", q.todo # BulkPlan,
                    NEW f \in LiveUnder(db', q.id, Figures)
             PROVE  f \in q.found \cup meanwhile'[o]
  BY <1>1 DEF Saving
<1>2. f \in Ids /\ f \in Figures
  BY KeyFacts DEF LiveUnder
<1> PICK k : k = <<"row", f>>
  OBVIOUS
<1>3. CASE k \in DOMAIN tx[r]
  <2>1. k \in DOMAIN tx[r] \cap ({"row"} \X Figures) /\ k[2] = f
    BY <1>2, <1>3
  <2> QED BY <1>1, <2>1
<1>4. CASE k \notin DOMAIN tx[r]
  <2>1. k \in Keys
    BY <1>2, KeyFacts
  <2>2. db'[k] = db[k]
    BY <1>4, <2>1, CommitFacts DEF Over
  <2>3. f \in LiveUnder(db, q.id, Figures)
    BY <2>2 DEF LiveUnder, Live, Parent
  <2> QED BY <1>1, <2>3 DEF Saving
<1> QED BY <1>3, <1>4

\* Every step keeps the stages of the bulk saves.
LEMMA SavesStep == ASSUME Base, Histories, Saves, [Next]_vars PROVE Saves'
<1> SUFFICES ASSUME NEW o \in Requests PROVE Saving(db', req'[o], tx'[o], meanwhile'[o])
  BY DEF Saves
<1>1. Saving(db, req[o], tx[o], meanwhile[o]) /\ Lives(o)
  BY AllLive DEF Saves
<1>2. CASE NewRequest(req'[o]) /\ DOMAIN tx'[o] = {}
  BY <1>2, SavingNew
<1>3. CASE ~(req'[o].op = "bulk" /\ req'[o].phase = "run")
  BY <1>3 DEF Saving
<1>4. CASE req'[o] = req[o] /\ tx'[o] = tx[o]
  <2>1. CASE \E r \in Requests : Commit(r)
    <3>1. PICK r \in Requests : Commit(r)
      BY <2>1
    <3>2. CASE r = o
      <4>1. PICK p : req' = [req EXCEPT ![r] = p] /\ Committed(req[r], p, db')
        BY <3>1, CommitFacts
      <4>2. req'[o] = p /\ p.phase # "run"
        BY <3>2, <4>1 DEF Committed, Base
      <4> QED BY <4>2, <1>3
    <3>3. CASE r # o
      BY <1>1, <1>4, <3>1, <3>3, SavingCommit
    <3> QED BY <3>2, <3>3
  <2>2. CASE ~\E r \in Requests : Commit(r)
    <3>1. db' = db
      BY <2>2, OnlyCommits
    <3>2. CASE meanwhile'[o] = meanwhile[o]
      BY <1>1, <1>4, <3>1, <3>2
    <3>3. CASE NewRequest(req'[o])
      <4>1. DOMAIN tx[o] = {} \/ tx[o] = tx[o]
        OBVIOUS
      <4>2. req'[o].op = "bulk" => req'[o].todo = BulkPlan
        BY <3>3 DEF NewRequest, Whole
      <4>3. ASSUME req[o].op = "bulk", req[o].phase = "run" PROVE DOMAIN tx'[o] = {}
        <5>1. req[o].todo = BulkPlan
          BY <4>2, <4>3, <1>4
        <5> QED BY <1>4, <4>3, <5>1, ApartFacts DEF Well, BulkHeld
      <4> QED BY <1>3, <1>4, <3>3, <4>3, SavingNew
    <3> QED BY <2>2, <3>2, <3>3, MeanwhileSteps
  <2> QED BY <2>1, <2>2
<1>5. ASSUME NEW s, NEW v, NEW c, Ran(o, req[o], s, v, c, req'[o], tx'[o]), Execute(o)
      PROVE  Saving(db', req'[o], tx'[o], meanwhile'[o])
  <2>1. db' = db /\ meanwhile' = meanwhile
    BY <1>5 DEF Execute, history
  <2>2. Saving(db, req'[o], tx'[o], meanwhile[o])
    BY <1>1, <1>5, SavingExecute
  <2> QED BY <2>1, <2>2
<1>6. CASE Begun(o, req'[o])
  <2>1. Well(db, req[o], tx[o])
    BY ApartFacts
  <2>2. req[o].op \in Checking
    BY <1>6, <2>1 DEF Begun, Well, Planned
  <2>3. req'[o].op # "bulk"
    BY <1>6, <2>2 DEF Begun, SameRequest, Checking
  <2> QED BY <2>3, <1>3
<1>7. CASE Committed(req[o], req'[o], db')
  <2>1. req'[o].phase # "run"
    BY <1>7 DEF Committed
  <2> QED BY <2>1, <1>3
<1>8. CASE Refreshed(o, req'[o])
  <2>1. req'[o].phase # "run"
    BY <1>8 DEF Refreshed
  <2> QED BY <2>1, <1>3
<1>9. CASE req'[o] = Idle
  <2>1. req'[o].phase # "run"
    BY <1>9, IdleFacts
  <2> QED BY <2>1, <1>3
<1> QED BY <1>1, <1>2, <1>4, <1>5, <1>6, <1>7, <1>8, <1>9 DEF Lives

\* What a bulk save leaves.
LEMMA SavedFigures ==
    ASSUME Base, Saves, NEW r \in Requests, Commit(r), req[r].op = "bulk"
    PROVE  (LiveUnder(db', req[r].id, Figures) \ meanwhile[r])
              = (req[r].keep \cup req[r].new) \ meanwhile[r]
<1> PICK q : q = req[r]
  OBVIOUS
<1> PICK t : t = tx[r]
  OBVIOUS
<1>1. db' = Over(db, t) /\ q.phase = "run" /\ q.todo = <<>> /\ Kinds(q)
  BY CommitFacts
<1>2. q \in Request /\ Well(db, q, t) /\ db \in [Keys -> Row]
  BY ApartFacts
<1>3. <<>> # BulkPlan /\ <<>> \notin {BulkPlan, Bulk5}
  BY PlanSteps DEF Plans
<1>4. /\ \A k \in DOMAIN t : k[2] \in q.found \cup q.new
      /\ LiveUnder(db, q.id, Figures) \subseteq q.found \cup meanwhile[r]
      /\ q.keep \subseteq q.found
      /\ \A f \in q.new : <<"row", f>> \in DOMAIN t
      /\ \A f \in q.found \ q.keep : GoneIn(t, f)
      /\ \A f \in q.found \cap q.keep : ~GoneIn(t, f)
  BY <1>1, <1>3 DEF Saves, Saving
<1>5. /\ \A f \in q.found : <<"row", f>> \in DOMAIN t
      /\ \A f \in q.found : Parent(db, f) = q.id /\ ~IsAbsent(db, f)
      /\ \A f \in q.new : IsAbsent(db, f)
  BY <1>1, <1>2, <1>3, CreatesFacts DEF Well, BulkHeld, Planned, Active, Drawing
<1>6. q.new \subseteq Figures /\ q.found \subseteq Figures /\ Figures \subseteq Ids
  BY <1>2, KeyFacts DEF Request
<1>7. ASSUME NEW f \in Figures, <<"row", f>> \in DOMAIN t
      PROVE  Parent(db', f) = (IF f \in q.new THEN q.id ELSE Parent(db, f)) /\ (Live(db', f) <=> ~GoneIn(t, f))
  <2> PICK k : k = <<"row", f>>
    OBVIOUS
  <2>1. k \in Keys /\ k[1] = "row" /\ k[2] = f
    BY <1>6, KeyFacts
  <2>2. db'[k] = t[k]
    BY <1>1, <1>7, <2>1 DEF Over
  <2>3. RowWritten(db, q, f, t[k])
    BY <1>2, <1>7, <2>1 DEF Well, Written, KeyWritten
  <2>4. f \in Creates(q) <=> f \in q.new
    BY CreatesFacts DEF Drawing
  <2>5. t[k].state \in {"live", "deleted"} /\ t[k].parent = IF f \in q.new THEN q.id ELSE Parent(db, f)
    BY <2>3, <2>4 DEF RowWritten, Drawing
  <2> QED BY <1>7, <2>2, <2>5 DEF Live, Parent, GoneIn
<1>8. ASSUME NEW f \in LiveUnder(db', q.id, Figures), f \notin meanwhile[r]
      PROVE  f \in q.keep \cup q.new
  <2>1. f \in Figures /\ Live(db', f) /\ Parent(db', f) = q.id
    BY <1>8 DEF LiveUnder
  <2>2. CASE <<"row", f>> \in DOMAIN t
    <3>1. f \in q.found \cup q.new
      BY <1>4, <2>2
    <3>2. ~GoneIn(t, f)
      BY <1>7, <2>1, <2>2
    <3> QED BY <1>4, <3>1, <3>2
  <2>3. CASE <<"row", f>> \notin DOMAIN t
    <3>1. db'[<<"row", f>>] = db[<<"row", f>>]
      BY <1>1, <1>6, <2>1, <2>3, KeyFacts DEF Over
    <3>2. f \in LiveUnder(db, q.id, Figures)
      BY <2>1, <3>1 DEF LiveUnder, Live, Parent
    <3> QED BY <1>4, <1>5, <1>8, <2>3, <3>2
  <2> QED BY <2>2, <2>3
<1>9. ASSUME NEW f \in q.keep PROVE f \in LiveUnder(db', q.id, Figures)
  <2>1. f \in Figures /\ f \in q.found /\ <<"row", f>> \in DOMAIN t /\ ~GoneIn(t, f)
    BY <1>4, <1>5, <1>6
  <2>2. f \notin q.new /\ Parent(db, f) = q.id
    BY <1>5, <2>1
  <2> QED BY <1>7, <2>1, <2>2 DEF LiveUnder
<1>10. ASSUME NEW f \in q.new PROVE f \in LiveUnder(db', q.id, Figures)
  <2>1. f \in Figures /\ <<"row", f>> \in DOMAIN t /\ IsAbsent(db, f)
    BY <1>4, <1>5, <1>6
  <2> PICK k : k = <<"row", f>>
    OBVIOUS
  <2>2. k \in Keys /\ k[1] = "row" /\ k[2] = f
    BY <1>6, <2>1, KeyFacts
  <2>3. RowWritten(db, q, f, t[k])
    BY <1>2, <2>1, <2>2 DEF Well, Written, KeyWritten
  <2>4. t[k].state = "live"
    BY <2>1, <2>3 DEF RowWritten, IsAbsent, Live
  <2>5. ~GoneIn(t, f)
    BY <2>4 DEF GoneIn
  <2> QED BY <1>7, <2>1, <2>5 DEF LiveUnder
<1> QED BY <1>8, <1>9, <1>10

\* A bulk save leaves the figures it was given, and those others committed while it ran.
THEOREM BulkCorrect == Spec => BulkReplaces
<1>1. Init => Saves
  BY IdleFacts DEF Init, Saves, Saving
<1>2. Init => Histories
  BY RequestsAssumption DEF Init, Histories
<1>3. ASSUME Base, Saves, [Next]_vars, NEW r \in Requests,
             req[r].op = "bulk", req[r].phase = "run", req'[r].phase = "publish"
      PROVE  (LiveUnder(db', req[r].id, Figures) \ meanwhile[r])
                = (req[r].keep \cup req[r].new) \ meanwhile[r]
  <2>1. Lives(r)
    BY <1>3, AllLive
  <2>2. ~Refreshed(r, req'[r]) /\ ~Begun(r, req'[r]) /\ req'[r] # Idle
    BY <1>3, IdleFacts DEF Refreshed, Begun
  <2>3. ~Accept(r, req'[r])
    BY <1>3 DEF Accept
  <2>4. ASSUME NEW s, NEW v, NEW c, Ran(r, req[r], s, v, c, req'[r], tx'[r]) PROVE FALSE
    BY <1>3, <2>4 DEF Ran, Advanced
  <2>5. Commit(r)
    BY <1>3, <2>1, <2>2, <2>3, <2>4 DEF Lives
  <2> QED BY <1>3, <2>5, SavedFigures
<1>4. Base /\ Saves /\ [Next]_vars =>
        \A r \in Requests :
           req[r].op = "bulk" /\ req[r].phase = "run" /\ req'[r].phase = "publish" =>
             (LiveUnder(db', req[r].id, Figures) \ meanwhile[r])
                = (req[r].keep \cup req[r].new) \ meanwhile[r]
  BY <1>3
<1> QED BY <1>1, <1>2, <1>4, BaseHolds, HistoriesStep, SavesStep, PTL DEF Spec, BulkReplaces

-----------------------------------------------------------------------------
(* What is announced, and who still has it to tell. *)

\* A request that will publish this state of an entity, or read it again.
Telling(q, i, entity) ==
    q.id = i /\ (q.phase = "reread" \/ (q.phase = "publish" /\ q.payload = entity))

Known(i) ==
    \/ \E e \in events : e.id = i /\ e.payload = Entity(db, i)
    \/ \E r \in Requests : Telling(req[r], i, Entity(db, i))

Edited(d, i) == \E k \in Keys : k[2] = i /\ d[k].version > 0

Told == \A i \in (Devices \cup Tags) \ unsent : Live(db, i) /\ Edited(db, i) => Known(i)

\* Nothing that was published or lost is forgotten.
LEMMA NothingTakenBack == ASSUME [Next]_vars PROVE events \subseteq events' /\ unsent \subseteq unsent'
<1>1. CASE UNCHANGED store \/ Rest
  BY <1>1 DEF vars, store, history, Rest
<1>2. CASE Crash
  BY <1>2 DEF Crash
<1>3. ASSUME NEW r \in Requests, NEW q, Accept(r, q) PROVE events' = events /\ unsent' = unsent
  BY <1>3 DEF Accept
<1>4. ASSUME NEW r \in Requests,
             InventoryRequest(r) \/ MimicRequest(r) \/ \E x \in Objects : DeleteMonitoringObject(r, x)
      PROVE  events' = events /\ unsent' = unsent
  BY <1>3, <1>4, RequestIsNew
<1>5. ASSUME NEW r \in Requests, Check(r) \/ Execute(r) \/ Fail(r) PROVE events' = events /\ unsent' = unsent
  BY <1>5 DEF Check, Execute, Fail, history
<1>6. ASSUME NEW r \in Requests, Commit(r) PROVE events' = events /\ unsent' = unsent
  BY <1>6 DEF Commit
<1>7. ASSUME NEW r \in Requests, NEW works \in BOOLEAN, Reread(r, works)
      PROVE  events' = events /\ unsent \subseteq unsent'
  BY <1>7 DEF Reread
<1>8. ASSUME NEW r \in Requests, NEW sent \in SUBSET Announcements(req[r]), Publish(r, sent)
      PROVE  events \subseteq events' /\ unsent \subseteq unsent'
  BY <1>8 DEF Publish
<1> QED BY <1>1, <1>2, <1>4, <1>5, <1>6, <1>7, <1>8, LockingOnly DEF Next, vars

\* What a step makes of a request that has committed: it still has to tell, or has
\* told, or what it had to tell is lost or gone.
Done(r) ==
    \/ req'[r] = req[r]
    \/ Refreshed(r, req'[r]) /\ db' = db
    \/ req[r].phase = "reread" /\ db' = db /\ (req[r].id \in unsent' \/ ~Live(db, req[r].id))
    \/ req[r].phase = "publish" /\ db' = db
       /\ \A e \in Announcements(req[r]) : e \in events' \/ e.id \in unsent'

\* What any step makes of a request that has committed.
LEMMA CommittedOnes ==
    ASSUME Base, [Next]_vars, NEW r \in Requests, req[r].phase \in {"reread", "publish"}
    PROVE  Done(r)
<1>1. CASE UNCHANGED store \/ Rest
  BY <1>1 DEF vars, store, Rest, Done
<1>2. CASE Crash
  <2> DEFINE lost(s) == IF req[s].phase = "reread" THEN {req[s].id}
                        ELSE IF req[s].phase = "publish" THEN {e.id : e \in Announcements(req[s])}
                        ELSE {}
  <2>1. unsent' = unsent \cup UNION {lost(s) : s \in Requests} /\ db' = db
    BY <1>2 DEF Crash
  <2>2. lost(r) \subseteq unsent'
    <3> HIDE DEF lost
    <3> QED BY <2>1
  <2>3. CASE req[r].phase = "reread"
    BY <2>1, <2>2, <2>3 DEF Done
  <2>4. CASE req[r].phase = "publish"
    <3>1. \A e \in Announcements(req[r]) : e.id \in unsent'
      BY <2>2, <2>4
    <3> QED BY <2>1, <2>4, <3>1 DEF Done
  <2> QED BY <2>3, <2>4
<1>3. ASSUME NEW o \in Requests, o # r, NEW p, req' = [req EXCEPT ![o] = p] PROVE Done(r)
  BY <1>3 DEF Done, Base
<1>4. ASSUME NEW o \in Requests, NEW q, Accept(o, q) PROVE Done(r)
  BY <1>3, <1>4 DEF Accept
<1>5. ASSUME NEW o \in Requests,
             InventoryRequest(o) \/ MimicRequest(o) \/ \E x \in Objects : DeleteMonitoringObject(o, x)
      PROVE  Done(r)
  BY <1>4, <1>5, RequestIsNew
<1>6. ASSUME NEW o \in Requests, Check(o) \/ Fail(o) PROVE Done(r)
  <2>1. o # r
    BY <1>6 DEF Check, Fail
  <2>2. \E p : req' = [req EXCEPT ![o] = p]
    BY <1>6 DEF Check, Fail, Reply
  <2> QED BY <2>1, <2>2, <1>3
<1>7. ASSUME NEW o \in Requests, Execute(o) PROVE Done(r)
  <2>1. o # r
    BY <1>7 DEF Execute
  <2>2. \E p : req' = [req EXCEPT ![o] = p]
    <3>1. CASE Reply(o)
      BY <3>1 DEF Reply
    <3>2. CASE \E q, s, v, c, p, u : Ran(o, q, s, v, c, p, u)
      <4>1. PICK q, s, v, c, p, u : Ran(o, q, s, v, c, p, u)
        BY <3>2
      <4>2. req' = [req EXCEPT ![o] = p]
        BY <4>1 DEF Ran
      <4> QED BY <4>2
    <3> QED BY <3>1, <3>2, <1>7, ExecuteCases
  <2> QED BY <2>1, <2>2, <1>3
<1>8. ASSUME NEW o \in Requests, Commit(o) PROVE Done(r)
  <2>1. o # r
    BY <1>8 DEF Commit
  <2>2. \E p : req' = [req EXCEPT ![o] = p]
    BY <1>8, CommitFacts
  <2> QED BY <2>1, <2>2, <1>3
<1>9. ASSUME NEW o \in Requests, NEW works \in BOOLEAN, Reread(o, works) PROVE Done(r)
  <2>1. req[o].phase = "reread" /\ db' = db
    BY <1>9 DEF Reread
  <2>2. CASE ~Reply(o)
    <3>1. PICK p : /\ p \in Request /\ SameRequest(req[o], p) /\ p.phase = "publish"
                   /\ p.payload = Entity(db, req[o].id) /\ p.payload # None
                   /\ req' = [req EXCEPT ![o] = p] /\ works /\ Live(db, req[o].id)
      BY <1>9, <2>2, RereadFacts
    <3>2. CASE o = r
      <4>1. req'[r] = p
        BY <3>1, <3>2 DEF Base
      <4> QED BY <2>1, <3>1, <3>2, <4>1 DEF Done, Refreshed
    <3>3. CASE o # r
      BY <1>3, <3>1, <3>3
    <3> QED BY <3>2, <3>3
  <2>3. CASE Reply(o)
    <3>1. CASE o # r
      BY <1>3, <2>3, <3>1 DEF Reply
    <3>2. CASE o = r
      <4>1. CASE ~works
        <5>1. req[r].id \in unsent'
          BY <1>9, <3>2, <4>1 DEF Reread
        <5> QED BY <2>1, <3>2, <5>1 DEF Done
      <4>2. CASE ~Live(db, req[r].id)
        BY <2>1, <3>2, <4>2 DEF Done
      <4>3. CASE works /\ Live(db, req[r].id)
        <5> PICK payload : payload = Entity(db, req[r].id)
          OBVIOUS
        <5> PICK q : q = req[r]
          OBVIOUS
        <5>1. req' = [req EXCEPT ![r] = [q EXCEPT !.phase = "publish", !.payload = payload]]
          BY <1>9, <3>2, <4>3 DEF Reread
        <5>2. q \in Request /\ req \in [Requests -> Request]
          BY DEF Base
        <5>3. [q EXCEPT !.phase = "publish", !.payload = payload].phase = "publish"
          BY <5>2 DEF Request
        <5>4. req'[r] = Idle
          BY <2>3, <3>2, <5>2 DEF Reply
        <5>5. req'[r] = [q EXCEPT !.phase = "publish", !.payload = payload]
          BY <5>1, <5>2
        <5> QED BY <5>3, <5>4, <5>5, IdleFacts
      <4> QED BY <4>1, <4>2, <4>3
    <3> QED BY <3>1, <3>2
  <2> QED BY <2>2, <2>3
<1>10. ASSUME NEW o \in Requests, NEW sent \in SUBSET Announcements(req[o]), Publish(o, sent) PROVE Done(r)
  <2>1. CASE o # r
    BY <1>3, <1>10, <2>1 DEF Publish, Reply
  <2>2. CASE o = r
    <3>1. /\ events' = events \cup sent
          /\ unsent' = unsent \cup {e.id : e \in Announcements(req[r]) \ sent}
          /\ req[r].phase = "publish" /\ db' = db
      BY <1>10, <2>2 DEF Publish
    <3>2. \A e \in Announcements(req[r]) : e \in events' \/ e.id \in unsent'
      BY <3>1
    <3> QED BY <3>1, <3>2 DEF Done
  <2> QED BY <2>1, <2>2
<1> QED BY <1>1, <1>2, <1>5, <1>6, <1>7, <1>8, <1>9, <1>10, LockingOnly DEF Next, vars

\* What a commit changes of a device or a tag, it changes of the entity of its
\* request, and that is announced next.
LEMMA OwnEdit ==
    ASSUME Base, NEW r \in Requests, Commit(r), NEW k \in DOMAIN tx[r], k[2] \in Devices \cup Tags,
           Live(db', k[2])
    PROVE  k[2] = req[r].id /\ req[r].op \in Creating \cup Announcing
<1> PICK q : q = req[r]
  OBVIOUS
<1> PICK t : t = tx[r]
  OBVIOUS
<1> PICK i : i = k[2]
  OBVIOUS
<1>1. db' = Over(db, t) /\ Kinds(q)
  BY CommitFacts
<1>2. q \in Request /\ Well(db, q, t) /\ db \in [Keys -> Row]
  BY ApartFacts
<1>3. KeyWritten(db, q, t, k, t[k])
  BY <1>2 DEF Well, Written
<1>4. k \in Keys /\ k = <<k[1], i>> /\ i \in Devices \cup Tags /\ i \notin Figures
      /\ k[1] \in {"row", "params", "setpoints", "scaling"}
  BY <1>3, KeyFacts, KindFacts DEF KeyWritten
<1>5. CASE k[1] = "row"
  <2>1. RowWritten(db, q, i, t[k])
    BY <1>3, <1>5 DEF KeyWritten
  <2>2. db'[k] = t[k] /\ k = <<"row", i>>
    BY <1>1, <1>4, <1>5 DEF Over
  <2>3. t[k].state = "live"
    BY <2>2 DEF Live
  <2>4. CASE i \in Creates(q)
    <3>1. i = q.id /\ q.op \in {"create_device", "create_tag"}
      BY <1>1, <1>2, <1>4, <2>4, CreatedKinds
    <3> QED BY <3>1 DEF Creating
  <2>5. CASE i \notin Creates(q)
    BY <1>4, <2>1, <2>3, <2>5 DEF RowWritten
  <2> QED BY <2>4, <2>5
<1>6. CASE k[1] = "params"
  <2>1. ParamsWritten(q, t, i, t[k])
    BY <1>3, <1>6 DEF KeyWritten
  <2> QED BY <1>4, <2>1 DEF ParamsWritten, Creating, Announcing
<1>7. CASE k[1] \in {"setpoints", "scaling"}
  BY <1>3, <1>7 DEF KeyWritten, Extras, Creating, Announcing
<1> QED BY <1>4, <1>5, <1>6, <1>7

\* What an entity's payload shows depends on its keys only.
LEMMA SameEntity ==
    ASSUME NEW d, NEW e, NEW i \in Devices \cup Tags, \A k \in Keys : k[2] = i => e[k] = d[k]
    PROVE  /\ Live(e, i) = Live(d, i) /\ Edited(e, i) = Edited(d, i) /\ Entity(e, i) = Entity(d, i)
<1>1. <<"row", i>> \in Keys /\ <<"params", i>> \in Keys /\ <<"row", i>>[2] = i /\ <<"params", i>>[2] = i
  BY KeyFacts
<1>2. e[<<"row", i>>] = d[<<"row", i>>] /\ e[<<"params", i>>] = d[<<"params", i>>]
  BY <1>1
<1>3. Live(e, i) = Live(d, i) /\ Parent(e, i) = Parent(d, i) /\ Joined(e, "params", i) = Joined(d, "params", i)
  BY <1>2 DEF Live, Parent, Joined
<1>4. Edited(e, i) = Edited(d, i)
  BY DEF Edited
<1>5. CASE i \in Devices
  <2>1. DeviceWithParams(e, i) = DeviceWithParams(d, i)
    BY <1>2, <1>3 DEF DeviceWithParams
  <2> QED BY <1>3, <1>4, <1>5, <2>1 DEF Entity, GetDevice
<1>6. CASE i \in Tags
  <2>1. <<"setpoints", i>> \in Keys /\ <<"scaling", i>> \in Keys
    BY <1>6, KeyFacts
  <2>2. e[<<"setpoints", i>>] = d[<<"setpoints", i>>] /\ e[<<"scaling", i>>] = d[<<"scaling", i>>]
    BY <2>1
  <2>3. TagFull(e, i) = TagFull(d, i)
    BY <1>2, <1>3, <2>2 DEF TagFull, Joined
  <2> QED BY <1>3, <1>4, <1>6, <2>3, KindFacts DEF Entity, GetTag
<1> QED BY <1>5, <1>6

\* Every step keeps the last state of each device and tag told, or with a request that will.
LEMMA ToldStep == ASSUME Base, Told, [Next]_vars PROVE Told'
<1> SUFFICES ASSUME NEW i \in Devices \cup Tags, i \notin unsent', Live(db', i), Edited(db', i)
             PROVE  Known(i)'
  BY DEF Told
<1>1. events \subseteq events' /\ i \notin unsent
  BY NothingTakenBack
<1>2. CASE ~\E r \in Requests : Commit(r)
  <2>1. db' = db
    BY <1>2, OnlyCommits
  <2>2. Known(i)
    BY <1>1, <2>1 DEF Told
  <2>3. ASSUME NEW e \in events, e.id = i, e.payload = Entity(db, i) PROVE Known(i)'
    BY <1>1, <2>1, <2>3 DEF Known
  <2>4. ASSUME NEW r \in Requests, Telling(req[r], i, Entity(db, i)) PROVE Known(i)'
    <3>1. Done(r) /\ req[r].id = i /\ req[r].phase \in {"reread", "publish"}
      BY <2>4, CommittedOnes DEF Telling
    <3>2. CASE req'[r] = req[r]
      BY <2>1, <2>4, <3>2 DEF Known
    <3>3. CASE Refreshed(r, req'[r])
      <4>1. Telling(req'[r], i, Entity(db, i))
        BY <3>1, <3>3 DEF Refreshed, SameRequest, Telling
      <4> QED BY <2>1, <4>1 DEF Known
    <3>4. CASE req[r].phase = "reread" /\ (req[r].id \in unsent' \/ ~Live(db, req[r].id))
      BY <2>1, <3>1, <3>4
    <3>5. CASE req[r].phase = "publish" /\ \A e \in Announcements(req[r]) : e \in events' \/ e.id \in unsent'
      <4>1. req[r].payload = Entity(db, i)
        BY <2>4, <3>5 DEF Telling
      <4>2. Entity(db, i) # None
        BY <2>1, EntityTyped DEF Base
      <4>3. PICK e \in Announcements(req[r]) : e.id = i /\ e.payload = Entity(db, i)
        BY <3>1, <4>1, <4>2 DEF Announcements
      <4>4. e \in events'
        BY <3>5, <4>3
      <4> QED BY <2>1, <4>3, <4>4 DEF Known
    <3> QED BY <3>1, <3>2, <3>3, <3>4, <3>5 DEF Done
  <2> QED BY <2>2, <2>3, <2>4 DEF Known
<1>3. ASSUME NEW o \in Requests, Commit(o) PROVE Known(i)'
  <2>1. PICK p : req' = [req EXCEPT ![o] = p] /\ Committed(req[o], p, db')
    BY <1>3, CommitFacts
  <2>2. req'[o] = p
    BY <2>1 DEF Base
  <2>3. CASE \E k \in DOMAIN tx[o] : k[2] = i
    <3>1. i = req[o].id /\ req[o].op \in Creating \cup Announcing
      BY <1>3, <2>3, OwnEdit
    <3>2. req[o].rereads <=> req[o].op \in Announcing
      BY <1>3, CommitFacts DEF Kinds
    <3>3. Telling(p, i, Entity(db', i))
      BY <2>1, <3>1, <3>2 DEF Committed, SameRequest, Telling, Creating
    <3> QED BY <2>2, <3>3 DEF Known
  <2>4. CASE ~\E k \in DOMAIN tx[o] : k[2] = i
    <3>1. db' = Over(db, tx[o])
      BY <1>3, CommitFacts
    <3>2. \A k \in Keys : k[2] = i => db'[k] = db[k]
      BY <2>4, <3>1 DEF Over
    <3>3. Live(db, i) /\ Edited(db, i) /\ Entity(db', i) = Entity(db, i)
      BY <3>2, SameEntity
    <3>4. Known(i)
      BY <1>1, <3>3 DEF Told
    <3>5. ASSUME NEW r \in Requests, Telling(req[r], i, Entity(db, i)) PROVE Known(i)'
      <4>1. req[o].phase = "run"
        BY <1>3, CommitFacts
      <4>2. r # o
        BY <3>5, <4>1 DEF Telling
      <4>3. req'[r] = req[r]
        BY <2>1, <4>2 DEF Base
      <4> QED BY <3>3, <3>5, <4>3 DEF Known
    <3> QED BY <1>1, <3>3, <3>4, <3>5 DEF Known
  <2> QED BY <2>3, <2>4
<1> QED BY <1>2, <1>3

\* Nothing is edited at the start.
LEMMA InitialTold == Init => Told
<1> SUFFICES ASSUME Init, NEW i, NEW k \in Keys PROVE ~(db[k].version > 0)
  BY DEF Told, Edited
<1> QED BY DEF Init, Absent

-----------------------------------------------------------------------------
(* What a transaction deletes, and with what. *)

\* A row that a transaction deletes is the entity of its request, lies under it, or is
\* a figure the request will announce.
Deletes(d, q, t) ==
    q.phase = "run" => \A i \in Ids : GoneIn(t, i) =>
        /\ i \in Devices => \/ q.op = "delete_device" /\ i = q.id
                            \/ q.op = "delete_object" /\ Parent(d, i) = q.id
        /\ i \in Diagrams => \/ q.op = "delete_diagram" /\ i = q.id
                             \/ q.op = "delete_object" /\ Parent(d, i) = q.id
        /\ i \in Objects => q.op = "delete_object" /\ i = q.id
        /\ i \in Figures =>
             \/ q.op \in {"bulk", "delete_figure"} /\ [id |-> i, op |-> "deleted"] \in q.touched
             \/ q.op = "delete_diagram" /\ Parent(d, i) = q.id
             \/ q.op = "delete_object" /\ Parent(d, i) \in Diagrams /\ Parent(d, Parent(d, i)) = q.id

\* A deleted row was committed, and keeps its parent.
LEMMA GoneFacts ==
    ASSUME NEW d \in [Keys -> Row], NEW q, NEW t, Well(d, q, t), NEW i \in Ids, GoneIn(t, i)
    PROVE  Live(d, i) /\ ~IsAbsent(d, i) /\ i \notin Creates(q)
<1> PICK k : k = <<"row", i>>
  OBVIOUS
<1>1. k \in DOMAIN t /\ k[1] = "row" /\ k[2] = i /\ t[k].state = "deleted"
  BY DEF GoneIn
<1>2. RowWritten(d, q, i, t[k])
  BY <1>1 DEF Well, Written, KeyWritten
<1>3. Live(d, i) /\ i \notin Creates(q)
  BY <1>1, <1>2 DEF RowWritten
<1> QED BY <1>3 DEF Live, IsAbsent

\* What a request that runs a deletion sees of what is committed.
LEMMA SeenByDeletion ==
    ASSUME Base, NEW r \in Requests, NEW q, NEW s, NEW v, NEW c, NEW p, NEW u,
           Ran(r, q, s, v, c, p, u), s \in Deleting, NEW i \in Ids, ~IsAbsent(db, i)
    PROVE  /\ Live(db, i) => Live(v, i) \/ GoneIn(tx[r], i)
           /\ Live(v, i) => Live(db, i)
           /\ Parent(v, i) = Parent(db, i)
<1>1. Well(db, q, tx[r]) /\ q \in Request /\ db \in [Keys -> Row] /\ v = Over(db, tx[r]) /\ q.phase = "run"
  BY ApartFacts DEF Ran
<1>2. q.op # "assign_device"
  BY DEF Ran, Belongs, Deleting, Cascading
<1> QED BY <1>1, <1>2, Seen

\* A step of a request keeps what its transaction deletes within its reach.
LEMMA DeletesExecute ==
    ASSUME Base, NEW r \in Requests, NEW q, NEW s, NEW v, NEW c, NEW p, NEW u,
           Ran(r, q, s, v, c, p, u), Deletes(db, q, tx[r])
    PROVE  Deletes(db, p, u)
<1>1. /\ SameRequest(q, p) /\ p.phase = "run" /\ q.phase = "run"
      /\ p.touched = q.touched \cup Touched(s, q, {k[2] : k \in DOMAIN c})
      /\ Belongs(q, s) /\ Kinds(q) /\ Well(db, p, u)
  BY DEF Ran, Advanced
<1>2. p.op = q.op /\ p.id = q.id
  BY <1>1 DEF SameRequest
<1> SUFFICES ASSUME NEW i \in Ids, GoneIn(u, i)
             PROVE  /\ i \in Devices => \/ q.op = "delete_device" /\ i = q.id
                                        \/ q.op = "delete_object" /\ Parent(db, i) = q.id
                    /\ i \in Diagrams => \/ q.op = "delete_diagram" /\ i = q.id
                                         \/ q.op = "delete_object" /\ Parent(db, i) = q.id
                    /\ i \in Objects => q.op = "delete_object" /\ i = q.id
                    /\ i \in Figures =>
                         \/ q.op \in {"bulk", "delete_figure"} /\ [id |-> i, op |-> "deleted"] \in p.touched
                         \/ q.op = "delete_diagram" /\ Parent(db, i) = q.id
                         \/ /\ q.op = "delete_object"
                            /\ Parent(db, i) \in Diagrams /\ Parent(db, Parent(db, i)) = q.id
  BY <1>2 DEF Deletes
<1>3. CASE GoneIn(tx[r], i)
  BY <1>1, <1>3 DEF Deletes
<1>4. CASE ~GoneIn(tx[r], i)
  <2>1. s \in Deleting /\ Dooms(s, v, q, i) /\ <<"row", i>> \in DOMAIN c
    BY <1>4, NewlyGone
  <2>2. ~IsAbsent(db, i) /\ Live(db, i)
    BY <1>1, ApartFacts, GoneFacts
  <2>3. Parent(v, i) = Parent(db, i)
    BY <2>1, <2>2, SeenByDeletion
  <2>4. CASE s \in {"self", "delete_rest"}
    <3>1. i \in {k[2] : k \in DOMAIN c}
      <4> PICK k : k = <<"row", i>>
        OBVIOUS
      <4>1. k \in DOMAIN c /\ i = k[2]
        BY <2>1
      <4> QED BY <4>1
    <3>2. [id |-> i, op |-> "deleted"] \in Touched(s, q, {k[2] : k \in DOMAIN c})
      BY <2>4, <3>1 DEF Touched
    <3>3. [id |-> i, op |-> "deleted"] \in p.touched
      BY <1>1, <3>2
    <3>4. CASE s = "self"
      <4>1. i = q.id /\ q.op \in {"delete_device", "delete_object", "delete_diagram", "delete_tag", "delete_figure"}
        BY <1>1, <2>1, <3>4 DEF Dooms, Belongs
      <4>2. /\ q.op = "delete_device" => i \in Devices
            /\ q.op = "delete_tag" => i \in Tags
            /\ q.op = "delete_object" => i \in Objects
            /\ q.op = "delete_diagram" => i \in Diagrams
            /\ q.op = "delete_figure" => i \in Figures
        BY <1>1, <4>1 DEF Kinds, DeviceOps, TagOps, ObjectOps, DiagramOps, FigureOps
      <4> QED BY <3>3, <4>1, <4>2, KindFacts DEF Inside
    <3>5. CASE s = "delete_rest"
      <4>1. q.op = "bulk" /\ i \in q.found
        BY <1>1, <2>1, <3>5 DEF Dooms, Belongs
      <4>2. i \in Figures
        BY <4>1 DEF Ran, Base, Request
      <4> QED BY <3>3, <4>1, <4>2, KindFacts DEF Inside
    <3> QED BY <2>4, <3>4, <3>5
  <2>5. CASE s \in {"tags_of_device", "tags_of_object"}
    BY <2>1, <2>5, KindFacts DEF Dooms, Inside
  <2>6. CASE s = "devices_of_object"
    BY <1>1, <2>1, <2>3, <2>6, KindFacts DEF Dooms, Inside, Belongs
  <2>7. CASE s = "diagrams_of_object"
    BY <1>1, <2>1, <2>3, <2>7, KindFacts DEF Dooms, Inside, Belongs
  <2>8. CASE s = "figures_of_diagram"
    BY <1>1, <2>1, <2>3, <2>8, KindFacts DEF Dooms, Inside, Belongs
  <2>9. CASE s = "figures_of_object"
    <3>1. i \in Figures /\ Parent(db, i) \in Diagrams /\ Parent(v, Parent(db, i)) = q.id /\ q.op = "delete_object"
      BY <1>1, <2>1, <2>3, <2>9 DEF Dooms, Belongs
    <3> PICK g : g = Parent(db, i)
      OBVIOUS
    <3>2. References(db) /\ i \in Inside /\ g # None /\ g \in Ids
      BY <3>1, KindFacts, KeyFacts, ApartFacts DEF Inside
    <3>3. ~IsAbsent(db, g)
      BY <3>2 DEF References
    <3>4. Parent(v, g) = Parent(db, g)
      BY <2>1, <3>2, <3>3, SeenByDeletion
    <3> QED BY <3>1, <3>4, KindFacts DEF Inside
  <2> QED BY <2>1, <2>4, <2>5, <2>6, <2>7, <2>8, <2>9 DEF Deleting, Cascading
<1> QED BY <1>3, <1>4

\* What is left of a deletion's plan once a statement has run.
After(s) ==
    IF s = "tags_of_object" THEN {Object4, Object3, Object2, One("self"), <<>>}
    ELSE IF s = "devices_of_object" THEN {Object3, Object2, One("self"), <<>>}
    ELSE IF s = "figures_of_object" THEN {Object2, One("self"), <<>>}
    ELSE IF s \in Cascading THEN {One("self"), <<>>}
    ELSE {<<>>}

HasRun(q, s) == s \in Cascading \cup {"self"} /\ Belongs(q, s) /\ q.todo \in After(s)

\* What a statement that has run was to delete is deleted, or was put there later, or
\* is a tag of a device that was; a tag that was inserted saw its device.
Cascades(d, l, q, t) ==
    q.phase = "run" =>
        /\ \A s, i : HasRun(q, s) /\ Dooms(s, d, q, i) =>
             \/ GoneIn(t, i)
             \/ i \in l \ Diagrams
             \/ s = "tags_of_object" /\ Parent(d, i) \in l
        /\ q.op = "create_tag" /\ <<"row", q.id>> \in DOMAIN t => q.began

\* A statement of a deletion that has run had run before, or is the one that ran.
LEMMA JustRun ==
    ASSUME NEW q, Kinds(q), Left(q, q.todo), q.todo # <<>>, NEW s \in Cascading \cup {"self"},
           Belongs(q, s), RestOf(q.todo) \in After(s)
    PROVE  q.todo \in After(s) \/ s = NextOf(q.todo)
<1> PICK todo : todo = q.todo
  OBVIOUS
<1> PICK rest : rest = RestOf(todo)
  OBVIOUS
<1>1. q.op \in {"delete_device", "delete_diagram", "delete_object", "delete_tag", "delete_figure"}
  BY DEF Belongs, Cascading
<1>2. /\ Object4 \notin {Object3, Object2, One("self"), <<>>}
      /\ Object3 \notin {Object2, One("self"), <<>>}
      /\ Object2 \notin {One("self"), <<>>}
      /\ One("self") # <<>>
  BY PlanSteps DEF Plans
<1>3. CASE q.op \in {"delete_device", "delete_diagram"}
  <2>1. s \in {"tags_of_device", "figures_of_diagram", "self"}
    BY <1>3 DEF Belongs, Cascading
  <2>2. \/ todo \in {DeleteDevicePlan, DeleteDiagramPlan} /\ NextOf(todo) \in {"tags_of_device", "figures_of_diagram"}
           /\ rest = One("self")
        \/ todo = One("self") /\ NextOf(todo) = "self" /\ rest = <<>>
    BY <1>3, PlanSteps DEF Left, Plans
  <2>3. q.op = "delete_device" => NextOf(todo) # "figures_of_diagram" /\ s # "figures_of_diagram"
    BY <1>3, PlanSteps DEF Left, Plans, Belongs
  <2>4. q.op = "delete_diagram" => NextOf(todo) # "tags_of_device" /\ s # "tags_of_device"
    BY <1>3, PlanSteps DEF Left, Plans, Belongs
  <2> QED BY <1>2, <1>3, <2>1, <2>2, <2>3, <2>4 DEF After, Cascading
<1>4. CASE q.op \in {"delete_tag", "delete_figure"}
  <2>1. s = "self"
    BY <1>4 DEF Belongs, Cascading
  <2>2. NextOf(todo) = "self"
    BY <1>4, PlanSteps DEF Left, Plans
  <2> QED BY <2>1, <2>2
<1>5. CASE q.op = "delete_object"
  <2>1. s \in {"tags_of_object", "devices_of_object", "figures_of_object", "diagrams_of_object", "self"}
    BY <1>5 DEF Belongs, Cascading
  <2>2. \/ NextOf(todo) = "tags_of_object" /\ rest = Object4
        \/ todo = Object4 /\ NextOf(todo) = "devices_of_object" /\ rest = Object3
        \/ todo = Object3 /\ NextOf(todo) = "figures_of_object" /\ rest = Object2
        \/ todo = Object2 /\ NextOf(todo) = "diagrams_of_object" /\ rest = One("self")
        \/ todo = One("self") /\ NextOf(todo) = "self" /\ rest = <<>>
    BY <1>5, PlanSteps DEF Left, Plans
  <2>3. CASE s = "tags_of_object"
    BY <2>2, <2>3 DEF After
  <2>4. CASE s = "devices_of_object"
    BY <1>2, <2>2, <2>4 DEF After
  <2>5. CASE s = "figures_of_object"
    BY <1>2, <2>2, <2>5 DEF After
  <2>6. CASE s = "diagrams_of_object"
    BY <1>2, <2>2, <2>6 DEF After, Cascading
  <2>7. CASE s = "self"
    BY <1>2, <2>2, <2>7 DEF After, Cascading
  <2> QED BY <2>1, <2>3, <2>4, <2>5, <2>6, <2>7
<1> QED BY <1>1, <1>3, <1>4, <1>5

\* A request that has just started has run nothing.
LEMMA NothingHasRun ==
    ASSUME NEW q, Whole(q), NEW s PROVE ~HasRun(q, s)
<1> SUFFICES ASSUME HasRun(q, s) PROVE FALSE
  OBVIOUS
<1>1. s \in Cascading \cup {"self"} /\ Belongs(q, s) /\ q.todo \in After(s)
  BY DEF HasRun
<1>2. /\ DeleteDevicePlan \notin {One("self"), <<>>}
      /\ DeleteDiagramPlan \notin {One("self"), <<>>}
      /\ DeleteObjectPlan \notin {Object4, Object3, Object2, One("self"), <<>>}
      /\ One("self") # <<>>
  BY PlanSteps DEF Plans
<1>3. q.todo # <<>>
  BY DEF Whole
<1>4. q.op \in {"delete_device", "delete_diagram", "delete_object", "delete_tag", "delete_figure"}
  BY <1>1 DEF Belongs, Cascading
<1>5. CASE q.op \in {"delete_device", "delete_diagram"}
  <2>1. q.todo \in {DeleteDevicePlan, DeleteDiagramPlan}
    BY <1>5 DEF Whole
  <2>2. After(s) \subseteq {One("self"), <<>>}
    BY <1>1, <1>5 DEF After, Belongs
  <2> QED BY <1>1, <1>2, <2>1, <2>2
<1>6. CASE q.op = "delete_object"
  <2>1. q.todo = DeleteObjectPlan
    BY <1>6 DEF Whole
  <2>2. After(s) \subseteq {Object4, Object3, Object2, One("self"), <<>>}
    BY DEF After
  <2> QED BY <1>1, <1>2, <2>1, <2>2
<1>7. CASE q.op \in {"delete_tag", "delete_figure"}
  <2>1. s = "self"
    BY <1>1, <1>7 DEF Belongs, Cascading
  <2> QED BY <1>1, <1>3, <2>1 DEF After, Cascading
<1> QED BY <1>4, <1>5, <1>6, <1>7

\* What a statement is to delete of what is committed, it deletes, unless it is gone.
LEMMA Reaches ==
    ASSUME Base, NEW r \in Requests, NEW q, NEW s, NEW v, NEW c, NEW p, NEW u,
           Ran(r, q, s, v, c, p, u), s \in Cascading \cup {"self"}, NEW i, Dooms(s, db, q, i)
    PROVE  GoneIn(u, i)
<1>1. i \in Ids /\ Live(db, i) /\ s \in Deleting
  BY DEF Dooms, Cascading, Deleting
<1>2. ~IsAbsent(db, i)
  BY <1>1 DEF Live, IsAbsent
<1>3. CASE GoneIn(tx[r], i)
  BY <1>1, <1>3, StaysGone
<1>4. CASE ~GoneIn(tx[r], i)
  <2>1. Live(v, i) /\ Parent(v, i) = Parent(db, i)
    BY <1>1, <1>2, <1>4, SeenByDeletion
  <2>2. ASSUME i \in Tags \cup Figures PROVE Parent(v, Parent(db, i)) = Parent(db, Parent(db, i))
    <3> PICK g : g = Parent(db, i)
      OBVIOUS
    <3>1. References(db) /\ i \in Inside /\ i \notin Devices
      BY <2>2, ApartFacts, KindFacts DEF Inside
    <3>2. g # None /\ g \in MayHold(i) \cup {None}
      BY <1>2, <3>1 DEF References
    <3>3. g \in Ids /\ ~IsAbsent(db, g)
      BY <3>1, <3>2, KindFacts DEF References
    <3> QED BY <1>1, <3>3, SeenByDeletion
  <2>3. Dooms(s, v, q, i)
    BY <1>1, <2>1, <2>2 DEF Dooms
  <2> QED BY <1>1, <2>3, Falls
<1> QED BY <1>3, <1>4

\* What a request remembers of the parent it looked for.
LEMMA BeganFacts ==
    ASSUME NEW q \in Request, NEW s, s # "insert_figures", NEW v, NEW c, NEW p, p = Knows(q, s, v, c)
    PROVE  /\ s \in Attaches /\ q.parent # None => p.began = Live(db, q.parent)
           /\ s \notin Attaches => p.began = q.began
<1> PICK todo : todo = Tail(q.todo)
  OBVIOUS
<1> PICK found : found = IF s = "snapshot_figures" THEN LiveUnder(v, q.id, Figures)
                         ELSE IF s = "lock_figures" THEN {f \in q.found : Live(v, f)}
                         ELSE q.found
  OBVIOUS
<1> PICK began : began = IF s \in Attaches /\ q.parent # None THEN Live(db, q.parent) ELSE q.began
  OBVIOUS
<1> PICK touched : touched = q.touched \cup Touched(s, q, {k[2] : k \in DOMAIN c})
  OBVIOUS
<1>1. p = [q EXCEPT !.todo = todo, !.found = found, !.began = began, !.touched = touched]
  BY DEF Knows
<1>2. p.began = began
  BY <1>1 DEF Request
<1> QED BY <1>2

\* A step of a request takes its deletion one statement further.
LEMMA CascadesExecute ==
    ASSUME Base, NEW r \in Requests, NEW q, NEW s, NEW v, NEW c, NEW p, NEW u,
           Ran(r, q, s, v, c, p, u), NEW l, Cascades(db, l, q, tx[r])
    PROVE  Cascades(db, l, p, u)
<1> PICK t : t = tx[r]
  OBVIOUS
<1>1. /\ SameRequest(q, p) /\ p.phase = "run" /\ q.phase = "run" /\ p.todo = RestOf(q.todo)
      /\ Belongs(q, s) /\ Kinds(q) /\ s = NextOf(q.todo) /\ q.todo # <<>>
      /\ q = req[r] /\ v = Over(db, t) /\ c = Changes(s, v, q) /\ u = Adding(t, c)
      /\ p = Knows(q, s, v, c) /\ Effect(s, v, q, c)
  BY DEF Ran, Advanced
<1>2. Well(db, q, t) /\ q \in Request /\ db \in [Keys -> Row]
  BY <1>1, ApartFacts
<1>3. Left(q, q.todo)
  BY <1>1, <1>2 DEF Well, Planned, Active
<1>4. p.op = q.op /\ p.id = q.id /\ p.parent = q.parent /\ p.config = q.config
  BY <1>1 DEF SameRequest
<1>5. ASSUME NEW z, NEW i, HasRun(p, z), Dooms(z, db, p, i), ~GoneIn(u, i)
      PROVE  i \in l \ Diagrams \/ (z = "tags_of_object" /\ Parent(db, i) \in l)
  <2>1. z \in Cascading \cup {"self"} /\ Belongs(q, z) /\ RestOf(q.todo) \in After(z)
    BY <1>1, <1>4, <1>5 DEF HasRun, Belongs
  <2>2. Dooms(z, db, q, i) /\ i \in Ids
    BY <1>4, <1>5, <2>1 DEF Dooms, Cascading
  <2>3. z # s
    BY <1>5, <2>1, <2>2, Reaches
  <2>4. HasRun(q, z)
    BY <1>1, <1>3, <2>1, <2>3, JustRun DEF HasRun
  <2>5. ~GoneIn(t, i)
    BY <1>5, <2>2, StaysGone
  <2> QED BY <1>1, <2>2, <2>4, <2>5 DEF Cascades
<1>6. ASSUME q.op = "create_tag", <<"row", q.id>> \in DOMAIN u PROVE p.began
  <2>1. /\ s \in Attaches /\ q.parent # None => p.began = Live(db, q.parent)
        /\ s \notin Attaches => p.began = q.began
    <3>1. s # "insert_figures"
      BY <1>1, <1>6 DEF Belongs, Drawing
    <3>2. p = Knows(q, s, v, c)
      BY <1>1
    <3> QED BY <1>2, <3>1, <3>2, BeganFacts
  <2>2. q.parent \in Devices /\ q.id \in Tags /\ q.id \in Ids /\ q.parent \in Ids
    BY <1>1, <1>6, KeyFacts DEF Kinds, TagOps
  <2>3. q.parent # None
    BY <2>2, KindFacts
  <2>4. CASE s = "insert_tag"
    <3>1. ~Refused(q, s, c)
      BY DEF Ran
    <3>2. DOMAIN c # {}
      BY <2>4, <3>1 DEF Refused, Required
    <3>3. c = InsertTag(v, q)
      BY <1>1, <2>4 DEF Changes
    <3>4. Live(v, q.parent)
      BY <3>2, <3>3, NothingFacts DEF InsertTag
    <3>5. ~IsAbsent(db, q.parent)
      BY <1>1, <1>2, <2>3 DEF Well, Planned, Active
    <3>6. Live(db, q.parent)
      BY <1>1, <1>2, <2>2, <3>4, <3>5, Seen
    <3> QED BY <2>1, <2>3, <2>4, <3>6 DEF Attaches
  <2>5. CASE s # "insert_tag"
    <3>1. s \notin Attaches
      BY <1>1, <1>6, <2>5 DEF Belongs, Attaches, Drawing
    <3> PICK k : k = <<"row", q.id>>
      OBVIOUS
    <3>2. k[1] = "row" /\ k[2] = q.id
      OBVIOUS
    <3>3. k \notin DOMAIN c
      <4> SUFFICES ASSUME k \in DOMAIN c PROVE FALSE
        OBVIOUS
      <4>1. \/ Insertion(s, q, q.id, c[k]) \/ Update(s, v, q, q.id, c[k])
            \/ Deletion(s, v, q, q.id, c[k])
        BY <1>1, <3>2 DEF Effect, Change
      <4>2. s \in {"tag_params"} \cup ExtraSteps
        BY <1>1, <1>6, <2>5 DEF Belongs, Statements, Drawing
      <4> QED BY <4>1, <4>2 DEF Insertion, Update, Deletion, Inserting, Updating, Deleting, Cascading, ExtraSteps
    <3>4. k \in DOMAIN t
      BY <1>1, <1>6, <3>3 DEF Adding
    <3>5. q.began
      BY <1>1, <1>6, <3>4 DEF Cascades
    <3> QED BY <2>1, <3>1, <3>5
  <2> QED BY <2>4, <2>5
<1>7. ASSUME p.op = "create_tag", <<"row", p.id>> \in DOMAIN u PROVE p.began
  BY <1>4, <1>6, <1>7
<1> QED BY <1>5, <1>7 DEF Cascades

\* An entity that a commit puts somewhere is one its request attaches there.
LEMMA Entered ==
    ASSUME Base, NEW r \in Requests, Commit(r), NEW i \in Inside, ~IsAbsent(db', i),
           IsAbsent(db, i) \/ Parent(db', i) # Parent(db, i)
    PROVE  /\ i \notin Diagrams
           /\ i \in Attached(r) /\ req[r].op \in Creating \cup Drawing \cup {"assign_device"}
           /\ Parent(db', i) = IF req[r].op \in Drawing THEN req[r].id ELSE req[r].parent
           /\ req[r].op = "create_tag" => <<"row", i>> \in DOMAIN tx[r] /\ i = req[r].id
<1> PICK q : q = req[r]
  OBVIOUS
<1> PICK t : t = tx[r]
  OBVIOUS
<1>1. q \in Request /\ Well(db, q, t) /\ db \in [Keys -> Row]
  BY ApartFacts
<1>2. Kinds(q) /\ db' = Over(db, t)
  BY CommitFacts
<1>3. i \in Ids
  BY KindFacts
<1>4. CASE IsAbsent(db, i)
  <2>1. /\ i \in Creates(q) /\ <<"row", i>> \in DOMAIN t
        /\ Parent(db', i) = IF q.op \in Drawing THEN q.id ELSE q.parent
    BY <1>3, <1>4, CommitCreates
  <2>2. q.op \in Creating \cup Drawing
    BY <2>1 DEF Creates
  <2>3. q.op \in Creating => i = q.id
    BY <2>1 DEF Creates
  <2>4. i \in Attached(r)
    BY <2>1, <2>2 DEF Attached, Creates, Creating, Drawing
  <2>5. i \notin Diagrams
    BY <1>1, <1>2, <2>1, CreatedKinds, KindFacts
  <2> QED BY <2>1, <2>2, <2>3, <2>4, <2>5 DEF Creating
<1>5. CASE ~IsAbsent(db, i)
  <2>1. Parent(db', i) # Parent(db, i)
    BY <1>5
  <2>2. i \in Devices
    BY <1>3, <1>5, <2>1, CommitKeeps
  <2> PICK k : k = <<"row", i>>
    OBVIOUS
  <2>3. k \in Keys /\ k[1] = "row" /\ k[2] = i
    BY <1>3, KeyFacts
  <2>4. k \in DOMAIN t /\ db'[k] = t[k]
    BY <1>2, <2>1, <2>3 DEF Over, Parent
  <2>5. RowWritten(db, q, i, t[k])
    BY <1>1, <2>3, <2>4 DEF Well, Written, KeyWritten
  <2>6. /\ t[k].parent = IF q.op = "assign_device" THEN q.parent ELSE Parent(db, i)
        /\ (q.op \in Updating => i = q.id)
    BY <1>5, <2>5 DEF RowWritten
  <2>7. q.op = "assign_device" /\ i = q.id /\ Parent(db', i) = q.parent
    BY <2>1, <2>4, <2>6 DEF Parent, Updating
  <2>8. i \in Attached(r)
    BY <2>7 DEF Attached
  <2> QED BY <2>2, <2>7, <2>8, KindFacts DEF Drawing
<1> QED BY <1>4, <1>5

\* Put where it is too late, it is late.
LEMMA EntersLate ==
    ASSUME Base, NEW r \in Requests, Commit(r), NEW i \in Inside, ~IsAbsent(db', i),
           IsAbsent(db, i) \/ Parent(db', i) # Parent(db, i),
           Parent(db', i) # None, TooLate(req[r], Parent(db', i))
    PROVE  i \in late'
<1> PICK q : q = req[r]
  OBVIOUS
<1> PICK g : g = Parent(db', i)
  OBVIOUS
<1>1. i \in Attached(r) /\ g = IF q.op \in Drawing THEN q.id ELSE q.parent
  BY Entered
<1>2. late' = IF Attached(r) # {} /\ g # None /\ TooLate(q, g) THEN late \cup Attached(r) ELSE late
  BY <1>1 DEF Commit, Drawing
<1> QED BY <1>1, <1>2

\* Only a commit makes an entity late, and it stays late.
LEMMA LateStays ==
    ASSUME [Next]_vars
    PROVE  /\ late \subseteq late' /\ moved \subseteq moved'
           /\ (late' = late /\ moved' = moved) \/ \E r \in Requests : Commit(r)
<1>1. CASE UNCHANGED store \/ Rest
  BY <1>1 DEF vars, store, history, Rest
<1>2. CASE Crash
  BY <1>2 DEF Crash
<1>3. ASSUME NEW r \in Requests, NEW q, Accept(r, q) PROVE late' = late /\ moved' = moved
  BY <1>3 DEF Accept
<1>4. ASSUME NEW r \in Requests,
             InventoryRequest(r) \/ MimicRequest(r) \/ \E x \in Objects : DeleteMonitoringObject(r, x)
      PROVE  late' = late /\ moved' = moved
  BY <1>3, <1>4, RequestIsNew
<1>5. ASSUME NEW r \in Requests, Check(r) \/ Execute(r) \/ Fail(r) PROVE late' = late /\ moved' = moved
  BY <1>5 DEF Check, Execute, Fail, history
<1>6. ASSUME NEW r \in Requests, Commit(r) PROVE late \subseteq late' /\ moved \subseteq moved'
  BY <1>6 DEF Commit
<1>7. ASSUME NEW r \in Requests, NEW works \in BOOLEAN, Reread(r, works) PROVE late' = late /\ moved' = moved
  BY <1>7 DEF Reread
<1>8. ASSUME NEW r \in Requests, NEW sent \in SUBSET Announcements(req[r]), Publish(r, sent)
      PROVE  late' = late /\ moved' = moved
  BY <1>8 DEF Publish
<1> QED BY <1>1, <1>2, <1>4, <1>5, <1>6, <1>7, <1>8, LockingOnly DEF Next, vars

Fates == \A r \in Requests : Deletes(db, req[r], tx[r]) /\ Cascades(db, late, req[r], tx[r])

\* A row a transaction has written keeps its parent while others commit.
LEMMA DeletesCommit ==
    ASSUME Base, NEW r \in Requests, Commit(r), NEW o \in Requests, o # r, Deletes(db, req[o], tx[o])
    PROVE  Deletes(db', req[o], tx[o])
<1> PICK q : q = req[o]
  OBVIOUS
<1> PICK t : t = tx[o]
  OBVIOUS
<1> SUFFICES ASSUME q.phase = "run", NEW i \in Ids, GoneIn(t, i)
             PROVE  /\ Parent(db', i) = Parent(db, i)
                    /\ i \in Figures /\ Parent(db, i) \in Diagrams =>
                         Parent(db', Parent(db, i)) = Parent(db, Parent(db, i))
  BY DEF Deletes
<1>1. Well(db, q, t) /\ db \in [Keys -> Row] /\ References(db) /\ DOMAIN tx[r] \cap DOMAIN t = {}
  BY ApartFacts
<1>2. db' = Over(db, tx[r])
  BY CommitFacts
<1>3. <<"row", i>> \in DOMAIN t /\ <<"row", i>> \in Keys
  BY KeyFacts DEF GoneIn
<1>4. db'[<<"row", i>>] = db[<<"row", i>>]
  BY <1>1, <1>2, <1>3 DEF Over
<1>5. ~IsAbsent(db, i)
  BY <1>1, GoneFacts
<1>6. ASSUME i \in Figures, Parent(db, i) \in Diagrams
      PROVE  Parent(db', Parent(db, i)) = Parent(db, Parent(db, i))
  <2> PICK g : g = Parent(db, i)
    OBVIOUS
  <2>1. i \in Inside /\ g \in Ids /\ g # None /\ g \notin Devices
    BY <1>6, KindFacts, KeyFacts DEF Inside
  <2>2. ~IsAbsent(db, g)
    BY <1>1, <2>1 DEF References
  <2> QED BY <2>1, <2>2, CommitKeeps
<1> QED BY <1>4, <1>6 DEF Parent

\* What is there has a parent that is there.
LEMMA ParentFacts ==
    ASSUME NEW d, References(d), NEW i \in Inside, ~IsAbsent(d, i), i \notin Devices
    PROVE  Parent(d, i) \in MayHold(i) /\ Parent(d, i) \in Ids /\ ~IsAbsent(d, Parent(d, i))
<1>1. Parent(d, i) \in MayHold(i) /\ ~IsAbsent(d, Parent(d, i))
  BY DEF References
<1> QED BY <1>1, KindFacts

\* Where a deletion is under way, it is too late.
LEMMA Doomed ==
    ASSUME Base, NEW r \in Requests, NEW o \in Requests, req[o].phase = "run",
           req[o].op \in {"delete_object", "delete_device", "delete_diagram"}, NEW g,
           g = req[o].id \/ (g \in Devices \cup Diagrams /\ Parent(db, g) = req[o].id /\ req[o].id \in Objects)
    PROVE  TooLate(req[r], g)
<1>1. CASE g = req[o].id
  BY <1>1 DEF TooLate
<1>2. CASE g \in Devices \cup Diagrams /\ Parent(db, g) = req[o].id /\ req[o].id \in Objects
  <2>1. g \notin Objects /\ req[o].id # None
    BY <1>2, KindFacts, KeyFacts DEF Inside
  <2>2. Ancestors(g) = {req[o].id}
    BY <1>2, <2>1 DEF Ancestors
  <2>3. req[o].id \in {g} \cup Ancestors(g)
    BY <2>2
  <2> QED BY <2>3 DEF TooLate
<1> QED BY <1>1, <1>2

\* What another's commit puts in the way of a deletion is late.
LEMMA CascadesCommit ==
    ASSUME Base, NEW r \in Requests, Commit(r), late \subseteq late',
           NEW o \in Requests, o # r, Cascades(db, late, req[o], tx[o])
    PROVE  Cascades(db', late', req[o], tx[o])
<1> PICK q : q = req[o]
  OBVIOUS
<1> PICK t : t = tx[o]
  OBVIOUS
<1> PICK e : e = db'
  OBVIOUS
<1> SUFFICES ASSUME q.phase = "run", NEW s, NEW i, HasRun(q, s), Dooms(s, e, q, i), ~GoneIn(t, i)
             PROVE  i \in late' \ Diagrams \/ (s = "tags_of_object" /\ Parent(e, i) \in late')
  BY DEF Cascades
<1>1. Well(db, q, t) /\ db \in [Keys -> Row] /\ References(db) /\ Kinds(q)
  BY ApartFacts DEF Well, Planned
<1>2. References(e)
  BY CommitFacts
<1>3. s \in Cascading \cup {"self"} /\ Belongs(q, s)
  BY DEF HasRun
<1>4. i \in Ids /\ Live(e, i) /\ ~IsAbsent(e, i)
  BY <1>3 DEF Dooms, Cascading, Live, IsAbsent
<1>5. Dooms(s, db, q, i) => i \in late \ Diagrams \/ (s = "tags_of_object" /\ Parent(db, i) \in late)
  BY DEF Cascades
<1>6. ~IsAbsent(db, i) => Live(db, i)
  BY <1>4, CommitKeeps
<1>7. ASSUME NEW g \in Inside, ~IsAbsent(e, g), IsAbsent(db, g) \/ Parent(e, g) # Parent(db, g),
             Parent(e, g) # None, TooLate(req[r], Parent(e, g))
      PROVE  g \in late' \ Diagrams
  BY <1>7, EntersLate, Entered
<1>8. CASE s = "self"
  <2>1. i = q.id /\ q.op \notin Creating
    BY <1>3, <1>8 DEF Dooms, Belongs, Creating
  <2>2. Live(db, i)
    BY <1>1, <1>6, <2>1 DEF Well, Planned, Active
  <2>3. Dooms(s, db, q, i)
    BY <1>4, <1>8, <2>1, <2>2 DEF Dooms
  <2> QED BY <1>5, <1>8, <2>3
<1>9. CASE s \in {"tags_of_device", "devices_of_object", "diagrams_of_object", "figures_of_diagram"}
  <2>1. i \in Inside /\ Parent(e, i) = q.id /\ q.op \in {"delete_object", "delete_device", "delete_diagram"}
    BY <1>3, <1>9 DEF Dooms, Inside, Belongs
  <2>2. q.id \in Ids /\ q.id # None
    BY <1>1, <2>1, KeyFacts, KindFacts DEF Kinds, ObjectOps, DeviceOps, DiagramOps
  <2>3. CASE IsAbsent(db, i) \/ Parent(e, i) # Parent(db, i)
    <3>1. TooLate(req[r], q.id)
      BY <2>1, Doomed
    <3> QED BY <1>4, <1>7, <2>1, <2>2, <2>3, <3>1
  <2>4. CASE ~IsAbsent(db, i) /\ Parent(e, i) = Parent(db, i)
    <3>1. Dooms(s, db, q, i)
      BY <1>6, <1>9, <2>4 DEF Dooms
    <3> QED BY <1>5, <1>9, <3>1
  <2> QED BY <2>3, <2>4
<1>10. CASE s \in {"tags_of_object", "figures_of_object"}
  <2> PICK g : g = Parent(e, i)
    OBVIOUS
  <2>1. /\ i \in Tags \cup Figures /\ i \in Inside /\ g \in Devices \cup Diagrams /\ g \in Inside
        /\ Parent(e, g) = q.id /\ q.op = "delete_object"
        /\ s = "tags_of_object" => i \in Tags /\ g \in Devices
        /\ s = "figures_of_object" => i \in Figures /\ g \in Diagrams
    BY <1>3, <1>10 DEF Dooms, Inside, Belongs
  <2>2. q.id \in Objects /\ q.id \in Ids /\ q.id # None /\ g # None /\ i \notin Devices
    BY <1>1, <2>1, KeyFacts, KindFacts DEF Kinds, ObjectOps
  <2>3. ~IsAbsent(e, g)
    BY <1>2, <1>4, <2>1, <2>2, ParentFacts
  <2>4. CASE IsAbsent(db, g) \/ Parent(e, g) # Parent(db, g)
    <3>1. TooLate(req[r], q.id)
      BY <2>1, Doomed
    <3>2. g \in late' \ Diagrams
      BY <1>7, <2>1, <2>2, <2>3, <2>4, <3>1
    <3> QED BY <1>10, <2>1, <3>2
  <2>5. CASE ~IsAbsent(db, g) /\ Parent(e, g) = Parent(db, g)
    <3>1. CASE IsAbsent(db, i)
      <4>1. TooLate(req[r], g)
        BY <2>1, <2>2, <2>5, Doomed
      <4> QED BY <1>4, <1>7, <2>1, <2>2, <3>1, <4>1
    <3>2. CASE ~IsAbsent(db, i)
      <4>1. Parent(db, i) = g /\ Live(db, i)
        BY <1>4, <1>6, <2>2, <3>2, CommitKeeps
      <4>2. Dooms(s, db, q, i)
        BY <1>4, <1>10, <2>1, <2>5, <4>1 DEF Dooms
      <4> QED BY <1>5, <4>1, <4>2
    <3> QED BY <3>1, <3>2
  <2> QED BY <2>4, <2>5
<1> QED BY <1>3, <1>8, <1>9, <1>10 DEF Cascading

\* A request that is new, or has only been checked, has deleted nothing.
LEMMA FatesIdle ==
    ASSUME NEW q, NEW t, DOMAIN t = {}, NEW d, NEW l, q.phase # "run" \/ Whole(q)
    PROVE  Deletes(d, q, t) /\ Cascades(d, l, q, t)
BY NothingHasRun DEF Deletes, Cascades, GoneIn

\* Every step keeps what the transactions delete within reach, and the cascades whole.
LEMMA FatesStep == ASSUME Base, Fates, [Next]_vars PROVE Fates'
<1> SUFFICES ASSUME NEW o \in Requests
             PROVE  Deletes(db', req'[o], tx'[o]) /\ Cascades(db', late', req'[o], tx'[o])
  BY DEF Fates
<1>1. Deletes(db, req[o], tx[o]) /\ Cascades(db, late, req[o], tx[o])
  BY DEF Fates
<1>2. Lives(o)
  BY AllLive
<1>3. late \subseteq late' /\ (late' = late \/ \E r \in Requests : Commit(r))
  BY LateStays
<1>4. CASE req'[o] = req[o] /\ tx'[o] = tx[o]
  <2>1. CASE \E r \in Requests : Commit(r)
    <3>1. PICK r \in Requests : Commit(r)
      BY <2>1
    <3>2. CASE r = o
      <4>1. PICK p : req' = [req EXCEPT ![r] = p] /\ Committed(req[r], p, db')
        BY <3>1, CommitFacts
      <4>2. req'[o] = p /\ p.phase # "run"
        BY <3>2, <4>1 DEF Committed, Base
      <4> QED BY <4>2 DEF Deletes, Cascades
    <3>3. CASE r # o
      BY <1>1, <1>3, <1>4, <3>1, <3>3, DeletesCommit, CascadesCommit
    <3> QED BY <3>2, <3>3
  <2>2. CASE ~\E r \in Requests : Commit(r)
    BY <1>1, <1>3, <1>4, <2>2, OnlyCommits
  <2> QED BY <2>1, <2>2
<1>5. ASSUME NEW s, NEW v, NEW c, Ran(o, req[o], s, v, c, req'[o], tx'[o]), Execute(o)
      PROVE  Deletes(db', req'[o], tx'[o]) /\ Cascades(db', late', req'[o], tx'[o])
  <2>1. db' = db /\ late' = late
    BY <1>5 DEF Execute, history
  <2>2. Deletes(db, req'[o], tx'[o]) /\ Cascades(db, late, req'[o], tx'[o])
    BY <1>1, <1>5, DeletesExecute, CascadesExecute
  <2> QED BY <2>1, <2>2
<1>6. CASE Begun(o, req'[o]) /\ DOMAIN tx'[o] = {}
  <2>1. Whole(req[o])
    BY <1>6, ApartFacts DEF Begun, Well, Planned
  <2>2. Whole(req'[o])
    BY <1>6, <2>1, SameFacts DEF Begun, SameRequest, Whole
  <2> QED BY <1>6, <2>2, FatesIdle
<1>7. CASE Committed(req[o], req'[o], db')
  <2>1. req'[o].phase # "run"
    BY <1>7 DEF Committed
  <2> QED BY <2>1 DEF Deletes, Cascades
<1>8. CASE Refreshed(o, req'[o])
  <2>1. req'[o].phase # "run"
    BY <1>8 DEF Refreshed
  <2> QED BY <2>1 DEF Deletes, Cascades
<1>9. CASE req'[o] = Idle
  <2>1. req'[o].phase # "run"
    BY <1>9, IdleFacts
  <2> QED BY <2>1 DEF Deletes, Cascades
<1>10. CASE NewRequest(req'[o]) /\ DOMAIN tx'[o] = {}
  BY <1>10, FatesIdle DEF NewRequest
<1> QED BY <1>2, <1>4, <1>5, <1>6, <1>7, <1>8, <1>9, <1>10 DEF Lives

\* What is under something that is not there is late, or is the tag of a device that is.
Orphans == \A i \in Inside :
    Live(db, i) /\ Parent(db, i) # None /\ ~Live(db, Parent(db, i)) =>
        i \in late \/ (i \in Tags /\ Parent(db, i) \in late)

\* A row that a commit takes away is one its transaction deletes.
LEMMA TakenAway ==
    ASSUME Base, NEW r \in Requests, Commit(r), NEW i \in Ids, Live(db, i), ~Live(db', i)
    PROVE  GoneIn(tx[r], i)
<1> PICK k : k = <<"row", i>>
  OBVIOUS
<1>1. k \in Keys /\ k[1] = "row" /\ k[2] = i
  BY KeyFacts
<1>2. Well(db, req[r], tx[r]) /\ db' = Over(db, tx[r])
  BY ApartFacts, CommitFacts
<1>3. k \in DOMAIN tx[r] /\ db'[k] = tx[r][k]
  BY <1>1, <1>2 DEF Over, Live
<1>4. RowWritten(db, req[r], i, tx[r][k])
  BY <1>1, <1>2, <1>3 DEF Well, Written, KeyWritten
<1>5. tx[r][k].state = "deleted"
  BY <1>3, <1>4 DEF RowWritten, Live
<1> QED BY <1>3, <1>5 DEF GoneIn

\* A row that a transaction deletes is not live once it has committed.
LEMMA GoneIsGone ==
    ASSUME Base, NEW r \in Requests, Commit(r), NEW i \in Ids, GoneIn(tx[r], i)
    PROVE  ~Live(db', i)
<1>1. db' = Over(db, tx[r]) /\ <<"row", i>> \in Keys
  BY CommitFacts, KeyFacts
<1>2. db'[<<"row", i>>] = tx[r][<<"row", i>>]
  BY <1>1 DEF Over, GoneIn
<1> QED BY <1>2 DEF GoneIn, Live

\* A deletion that commits takes what was under it.
LEMMA CommitTakes ==
    ASSUME Base, Fates, NEW r \in Requests, Commit(r), NEW i \in Inside, Live(db, i),
           NEW g, g = Parent(db, i), g # None, Parent(db', i) = g, GoneIn(tx[r], g)
    PROVE  GoneIn(tx[r], i) \/ i \in late \ Diagrams \/ (i \in Tags /\ g \in late)
<1> PICK q : q = req[r]
  OBVIOUS
<1> PICK t : t = tx[r]
  OBVIOUS
<1>1. q.phase = "run" /\ q.todo = <<>> /\ Kinds(q) /\ References(db)
  BY CommitFacts, ApartFacts
<1>2. Deletes(db, q, t) /\ Cascades(db, late, q, t)
  BY DEF Fates
<1>3. g \in MayHold(i) /\ g \in Ids /\ i \in Ids
  BY <1>1, KindFacts DEF References
<1>4. /\ g \in Devices => \/ q.op = "delete_device" /\ g = q.id
                          \/ q.op = "delete_object" /\ Parent(db, g) = q.id
      /\ g \in Diagrams => \/ q.op = "delete_diagram" /\ g = q.id
                           \/ q.op = "delete_object" /\ Parent(db, g) = q.id
      /\ g \in Objects => q.op = "delete_object" /\ g = q.id
  BY <1>1, <1>2, <1>3 DEF Deletes
<1>5. ASSUME NEW s \in Cascading, Belongs(q, s), Dooms(s, db, q, i)
      PROVE  GoneIn(t, i) \/ i \in late \ Diagrams \/ (s = "tags_of_object" /\ Parent(db, i) \in late)
  <2>1. <<>> \in After(s)
    BY DEF After, Cascading
  <2>2. HasRun(q, s)
    BY <1>1, <1>5, <2>1 DEF HasRun
  <2> QED BY <1>1, <1>2, <1>5, <2>2 DEF Cascades
<1>6. ASSUME NEW s \in Cascading,
             \/ s = "tags_of_device" /\ q.op = "delete_device"
             \/ s = "figures_of_diagram" /\ q.op = "delete_diagram"
             \/ s \in {"tags_of_object", "devices_of_object", "figures_of_object", "diagrams_of_object"}
                /\ q.op = "delete_object"
      PROVE  Belongs(q, s)
  BY <1>6 DEF Belongs, Statements, ExtraSteps, Cascading
<1>7. CASE i \in Tags
  <2>1. g \in Devices
    BY <1>3, <1>7, KindFacts
  <2>2. CASE q.op = "delete_device" /\ g = q.id
    <3>1. Dooms("tags_of_device", db, q, i)
      BY <1>3, <1>7, <2>2 DEF Dooms
    <3> QED BY <1>5, <1>6, <2>2, <3>1 DEF Cascading
  <2>3. CASE q.op = "delete_object" /\ Parent(db, g) = q.id
    <3>1. Dooms("tags_of_object", db, q, i)
      BY <1>3, <1>7, <2>1, <2>3 DEF Dooms
    <3> QED BY <1>5, <1>6, <1>7, <2>3, <3>1 DEF Cascading
  <2> QED BY <1>4, <2>1, <2>2, <2>3
<1>8. CASE i \in Figures
  <2>1. g \in Diagrams
    BY <1>3, <1>8, KindFacts
  <2>2. CASE q.op = "delete_diagram" /\ g = q.id
    <3>1. Dooms("figures_of_diagram", db, q, i)
      BY <1>3, <1>8, <2>2 DEF Dooms
    <3> QED BY <1>5, <1>6, <2>2, <3>1 DEF Cascading
  <2>3. CASE q.op = "delete_object" /\ Parent(db, g) = q.id
    <3>1. Dooms("figures_of_object", db, q, i)
      BY <1>3, <1>8, <2>1, <2>3 DEF Dooms
    <3> QED BY <1>5, <1>6, <2>3, <3>1 DEF Cascading
  <2> QED BY <1>4, <2>1, <2>2, <2>3
<1>9. CASE i \in Devices \cup Diagrams
  <2>1. g \in Objects
    BY <1>3, <1>9, KindFacts
  <2>2. q.op = "delete_object" /\ g = q.id
    BY <1>4, <2>1
  <2>3. CASE i \in Devices
    <3>1. Dooms("devices_of_object", db, q, i)
      BY <1>3, <2>2, <2>3 DEF Dooms
    <3> QED BY <1>5, <1>6, <2>2, <3>1 DEF Cascading
  <2>4. CASE i \in Diagrams
    <3>1. Dooms("diagrams_of_object", db, q, i)
      BY <1>3, <2>2, <2>4 DEF Dooms
    <3> QED BY <1>5, <1>6, <2>2, <3>1 DEF Cascading
  <2> QED BY <1>9, <2>3, <2>4
<1> QED BY <1>7, <1>8, <1>9 DEF Inside

\* Every step leaves under a deleted parent only what came too late.
LEMMA OrphansStep == ASSUME Base, Fates, Orphans, [Next]_vars PROVE Orphans'
<1> SUFFICES ASSUME NEW i \in Inside, Live(db', i), Parent(db', i) # None, ~Live(db', Parent(db', i))
             PROVE  i \in late' \/ (i \in Tags /\ Parent(db', i) \in late')
  BY DEF Orphans
<1>1. late \subseteq late'
  BY LateStays
<1>2. i \in Ids /\ ~IsAbsent(db', i)
  BY KindFacts DEF Live, IsAbsent
<1>3. CASE ~\E r \in Requests : Commit(r)
  BY <1>1, <1>3, OnlyCommits DEF Orphans
<1>4. ASSUME NEW r \in Requests, Commit(r)
      PROVE  i \in late' \/ (i \in Tags /\ Parent(db', i) \in late')
  <2> PICK q : q = req[r]
    OBVIOUS
  <2> PICK g : g = Parent(db', i)
    OBVIOUS
  <2>1. References(db') /\ Kinds(q) /\ q.phase = "run"
    BY <1>4, CommitFacts
  <2>2. g \in MayHold(i) /\ g \in Ids
    BY <2>1, KindFacts DEF References
  <2>3. CASE IsAbsent(db, i) \/ Parent(db', i) # Parent(db, i)
    <3>1. /\ q.op \in Creating \cup Drawing \cup {"assign_device"}
          /\ g = IF q.op \in Drawing THEN q.id ELSE q.parent
          /\ q.op = "create_tag" => <<"row", q.id>> \in DOMAIN tx[r]
      BY <1>2, <1>4, <2>3, Entered
    <3>2. ~GoneIn(tx[r], g)
      <4>1. Deletes(db, q, tx[r])
        BY DEF Fates
      <4>2. CASE g \in Figures
        BY <2>2, <4>2, KindFacts DEF Inside
      <4>3. g \notin Tags
        BY <2>2, KindFacts DEF Inside
      <4>4. q.op \notin {"delete_device", "delete_diagram", "delete_object"}
        BY <3>1 DEF Creating, Drawing
      <4> QED BY <2>1, <2>2, <4>1, <4>2, <4>3, <4>4 DEF Deletes, Ids
    <3>3. ~Live(db, g)
      BY <1>4, <2>2, <3>2, TakenAway
    <3>4. g \in Devices => q.began
      <4> SUFFICES ASSUME g \in Devices PROVE q.began
        OBVIOUS
      <4>1. q.op = "create_tag"
        BY <2>1, <3>1, KindFacts DEF Kinds, Creating, Drawing, DiagramOps, Inside
      <4> QED BY <2>1, <3>1, <4>1 DEF Fates, Cascades
    <3>5. TooLate(q, g)
      BY <3>3, <3>4 DEF TooLate
    <3> QED BY <1>2, <1>4, <2>3, <3>5, EntersLate
  <2>4. CASE ~IsAbsent(db, i) /\ Parent(db', i) = Parent(db, i)
    <3>1. Live(db, i)
      BY <1>2, <1>4, <2>4, CommitKeeps
    <3>2. CASE ~Live(db, g)
      BY <1>1, <2>4, <3>1, <3>2 DEF Orphans
    <3>3. CASE Live(db, g)
      <4>1. GoneIn(tx[r], g)
        BY <1>4, <2>2, <3>3, TakenAway
      <4>2. ~GoneIn(tx[r], i)
        BY <1>2, <1>4, GoneIsGone
      <4> QED BY <1>1, <1>4, <2>4, <3>1, <4>1, <4>2, CommitTakes
    <3> QED BY <3>2, <3>3
  <2> QED BY <2>3, <2>4
<1> QED BY <1>3, <1>4

\* What the lists show under a deleted parent is what no deletion could have taken.
LEMMA OrphansListed == ASSUME Orphans, References(db) PROVE CascadeComplete
<1>1. ASSUME NEW o \in Objects \ ListMonitoringObjects
      PROVE  /\ ListDevices(o) \cup ListDiagrams(o) \subseteq late
             /\ \A t \in ListTags(None, o) : Parent(db, t) \in late
  <2>1. o # None /\ ~Live(db, o)
    BY KindFacts, KeyFacts DEF ListMonitoringObjects
  <2>2. ASSUME NEW i \in ListDevices(o) \cup ListDiagrams(o) PROVE i \in late
    <3>1. i \in Inside /\ Live(db, i) /\ Parent(db, i) = o /\ i \notin Tags
      BY <2>1, KindFacts DEF ListDevices, ListDiagrams, Inside
    <3> QED BY <2>1, <3>1 DEF Orphans
  <2>3. ASSUME NEW t \in ListTags(None, o) PROVE Parent(db, t) \in late
    <3>1. t \in Tags /\ Live(db, Parent(db, t)) /\ Parent(db, Parent(db, t)) = o /\ Live(db, t)
      BY <2>1 DEF ListTags
    <3>2. ~IsAbsent(db, t) /\ t \in Inside /\ t \notin Devices
      BY <3>1, KindFacts DEF Live, IsAbsent, Inside
    <3>3. Parent(db, t) \in Devices
      BY <3>1, <3>2, ParentFacts, KindFacts
    <3>4. Parent(db, t) \in ListDevices(o)
      BY <3>1, <3>3 DEF ListDevices
    <3> QED BY <2>2, <3>4
  <2> QED BY <2>2, <2>3
<1>2. ASSUME NEW d \in Devices \ ListDevices(None), d \notin late, NEW t \in ListTags(d, None)
      PROVE  t \in late
  <2>1. d # None /\ ~Live(db, d)
    BY KindFacts, KeyFacts DEF ListDevices
  <2>2. t \in Inside /\ Live(db, t) /\ Parent(db, t) = d
    BY <2>1 DEF ListTags, Inside
  <2> QED BY <1>2, <2>1, <2>2 DEF Orphans
<1>3. ASSUME NEW g \in Diagrams \ ListDiagrams(None), NEW f \in ListFigures(g)
      PROVE  f \in late
  <2>1. g # None /\ ~Live(db, g)
    BY KindFacts, KeyFacts DEF ListDiagrams
  <2>2. f \in Inside /\ Live(db, f) /\ Parent(db, f) = g /\ f \notin Tags
    BY KindFacts DEF ListFigures, LiveUnder, Inside
  <2> QED BY <2>1, <2>2 DEF Orphans
<1> QED BY <1>1, <1>2, <1>3 DEF CascadeComplete

\* At the start nothing is deleted and every parent is there.
LEMMA InitialFates == Init => Fates /\ Orphans
<1> SUFFICES ASSUME Init PROVE Fates /\ Orphans
  OBVIOUS
<1>1. Fates
  <2> SUFFICES ASSUME NEW r \in Requests
               PROVE  Deletes(db, req[r], tx[r]) /\ Cascades(db, late, req[r], tx[r])
    BY DEF Fates
  <2>1. req[r].phase # "run" /\ DOMAIN tx[r] = {}
    BY IdleFacts, NothingFacts DEF Init
  <2> QED BY <2>1, FatesIdle
<1>2. Orphans
  <2> SUFFICES ASSUME NEW i \in Inside, Live(db, i), Parent(db, i) # None PROVE Live(db, Parent(db, i))
    BY DEF Orphans
  <2> PICK k : k = <<"row", i>>
    OBVIOUS
  <2>1. i \in Ids /\ k \in Keys /\ k[1] = "row" /\ k[2] = i /\ i \notin Objects
    BY KindFacts, KeyFacts
  <2>2. i \in Initial
    BY <2>1 DEF Init, Live, Absent
  <2>3. db[k].parent = HomeOf[i]
    BY <2>1, <2>2 DEF Init, Extras
  <2> PICK g : g = HomeOf[i]
    OBVIOUS
  <2>4. g \in Initial /\ g \in Ids /\ Parent(db, i) = g
    BY <2>2, <2>3, InitialAssumption DEF Parent
  <2> PICK j : j = <<"row", g>>
    OBVIOUS
  <2>5. j \in Keys /\ j[1] = "row" /\ j[2] = g
    BY <2>4, KeyFacts
  <2>6. db[j].state = "live"
    BY <2>4, <2>5 DEF Init, Extras
  <2> QED BY <2>4, <2>6 DEF Live
<1> QED BY <1>1, <1>2

\* A deletion takes everything below with it: what the lists still show under a deleted
\* parent was put there while the deletion ran or after it, or was moved there.
THEOREM CascadesCorrect == Spec => []CascadeComplete
<1>1. Base => References(db)
  BY DEF Base
<1> QED BY <1>1, BaseHolds, InitialFates, FatesStep, OrphansStep, OrphansListed, PTL DEF Spec

-----------------------------------------------------------------------------
(* Deletions and what is told of them. *)

\* A request that deletes its own entity will tell; a tag it deletes is its own, lies in its
\* device, or in a device of its object, unless that device has been moved.
Tells(d, m, q, t) ==
    q.phase = "run" => \A i \in Ids : GoneIn(t, i) =>
        /\ i = q.id => /\ q.op \in {"delete_device", "delete_object", "delete_diagram",
                                    "delete_tag", "delete_figure"}
                       /\ [id |-> i, op |-> "deleted"] \in q.touched
        /\ i \in Tags => \/ i = q.id
                         \/ q.op = "delete_device" /\ Parent(d, i) = q.id
                         \/ /\ q.op = "delete_object" /\ Parent(d, i) \in Devices
                            /\ Parent(d, i) \in m \/ Parent(d, Parent(d, i)) = q.id

\* A step of a request keeps to that.
LEMMA TellsExecute ==
    ASSUME Base, NEW r \in Requests, NEW q, NEW s, NEW v, NEW c, NEW p, NEW u,
           Ran(r, q, s, v, c, p, u), NEW m, Tells(db, m, q, tx[r])
    PROVE  Tells(db, m, p, u)
<1>1. /\ SameRequest(q, p) /\ p.phase = "run" /\ q.phase = "run"
      /\ p.touched = q.touched \cup Touched(s, q, {k[2] : k \in DOMAIN c})
      /\ Belongs(q, s) /\ Kinds(q) /\ Well(db, p, u)
  BY DEF Ran, Advanced
<1>2. p.op = q.op /\ p.id = q.id
  BY <1>1 DEF SameRequest
<1> SUFFICES ASSUME NEW i \in Ids, GoneIn(u, i)
             PROVE  /\ i = q.id =>
                         /\ q.op \in {"delete_device", "delete_object", "delete_diagram",
                                      "delete_tag", "delete_figure"}
                         /\ [id |-> i, op |-> "deleted"] \in p.touched
                    /\ i \in Tags =>
                         \/ i = q.id
                         \/ q.op = "delete_device" /\ Parent(db, i) = q.id
                         \/ /\ q.op = "delete_object" /\ Parent(db, i) \in Devices
                            /\ Parent(db, i) \in m \/ Parent(db, Parent(db, i)) = q.id
  BY <1>2 DEF Tells
<1>3. CASE GoneIn(tx[r], i)
  BY <1>1, <1>3 DEF Tells
<1>4. CASE ~GoneIn(tx[r], i)
  <2>1. s \in Deleting /\ Dooms(s, v, q, i) /\ <<"row", i>> \in DOMAIN c
    BY <1>4, NewlyGone
  <2>2. ~IsAbsent(db, i) /\ Live(db, i)
    BY <1>1, ApartFacts, GoneFacts
  <2>3. Parent(v, i) = Parent(db, i)
    BY <2>1, <2>2, SeenByDeletion
  <2>4. CASE s = "self"
    <3>1. i = q.id /\ q.op \in {"delete_device", "delete_object", "delete_diagram", "delete_tag",
                                "delete_figure"}
      BY <1>1, <2>1, <2>4 DEF Dooms, Belongs
    <3>2. i \in {k[2] : k \in DOMAIN c}
      <4> PICK k : k = <<"row", i>>
        OBVIOUS
      <4>1. k \in DOMAIN c /\ i = k[2]
        BY <2>1
      <4> QED BY <4>1
    <3>3. [id |-> i, op |-> "deleted"] \in Touched(s, q, {k[2] : k \in DOMAIN c})
      BY <2>4, <3>2 DEF Touched
    <3> QED BY <1>1, <3>1, <3>3
  <2>5. CASE s = "delete_rest"
    <3>1. q.op = "bulk" /\ i \in q.found
      BY <1>1, <2>1, <2>5 DEF Dooms, Belongs
    <3>2. i \in Figures
      BY <3>1 DEF Ran, Base, Request
    <3>3. q.id \in Diagrams
      BY <1>1, <3>1 DEF Kinds, DiagramOps
    <3> QED BY <3>2, <3>3, KindFacts
  <2>6. CASE s = "tags_of_device"
    <3>1. i \in Tags /\ Parent(db, i) = q.id /\ q.op = "delete_device"
      BY <1>1, <2>1, <2>3, <2>6 DEF Dooms, Belongs
    <3>2. q.id \in Devices
      BY <1>1, <3>1 DEF Kinds, DeviceOps
    <3> QED BY <3>1, <3>2, KindFacts
  <2>7. CASE s = "tags_of_object"
    <3>1. i \in Tags /\ Parent(db, i) \in Devices /\ Parent(v, Parent(db, i)) = q.id /\ q.op = "delete_object"
      BY <1>1, <2>1, <2>3, <2>7 DEF Dooms, Belongs
    <3> PICK g : g = Parent(db, i)
      OBVIOUS
    <3>2. References(db) /\ i \in Inside /\ g # None /\ g \in Ids /\ q.id \in Objects
      BY <1>1, <3>1, KindFacts, KeyFacts, ApartFacts DEF Inside, Kinds, ObjectOps
    <3>3. ~IsAbsent(db, g)
      BY <3>2 DEF References
    <3>4. Parent(v, g) = Parent(db, g)
      BY <2>1, <3>2, <3>3, SeenByDeletion
    <3> QED BY <3>1, <3>2, <3>4, KindFacts
  <2>8. CASE s \in {"devices_of_object", "diagrams_of_object", "figures_of_object"}
    <3>1. i \in Devices \cup Diagrams \cup Figures /\ q.op = "delete_object"
      BY <1>1, <2>1, <2>8 DEF Dooms, Belongs
    <3>2. q.id \in Objects
      BY <1>1, <3>1 DEF Kinds, ObjectOps
    <3> QED BY <3>1, <3>2, KindFacts DEF Inside
  <2>9. CASE s = "figures_of_diagram"
    <3>1. i \in Figures /\ q.op = "delete_diagram"
      BY <1>1, <2>1, <2>9 DEF Dooms, Belongs
    <3>2. q.id \in Diagrams
      BY <1>1, <3>1 DEF Kinds, DiagramOps
    <3> QED BY <3>1, <3>2, KindFacts
  <2> QED BY <2>1, <2>4, <2>5, <2>6, <2>7, <2>8, <2>9 DEF Deleting, Cascading
<1> QED BY <1>3, <1>4

\* A device whose parent a commit changes was moved.
LEMMA CommitMoves ==
    ASSUME Base, NEW r \in Requests, Commit(r), NEW i \in Devices, ~IsAbsent(db, i),
           Parent(db', i) # Parent(db, i)
    PROVE  i \in moved'
<1> PICK q : q = req[r]
  OBVIOUS
<1> PICK e : e = Over(db, tx[r])
  OBVIOUS
<1>1. /\ db' = e /\ i \in Ids
      /\ moved' = IF q.op = "assign_device" THEN moved \cup {q.id} ELSE moved
  BY CommitFacts, KindFacts DEF Commit, Inside
<1>2. Well(db, q, tx[r]) /\ q \in Request /\ db \in [Keys -> Row]
  BY ApartFacts
<1>3. e[<<"row", i>>].parent # db[<<"row", i>>].parent
  BY <1>1 DEF Parent
<1>4. RowWritten(db, q, i, e[<<"row", i>>])
  BY <1>1, <1>2, <1>3, OverFacts
<1> PICK new : new = e[<<"row", i>>]
  OBVIOUS
<1>5. /\ new.parent = IF q.op = "assign_device" THEN q.parent ELSE Parent(db, i)
      /\ (q.op \in Updating => i = q.id)
  BY <1>4 DEF RowWritten
<1>6. q.op = "assign_device"
  BY <1>3, <1>5 DEF Parent
<1> QED BY <1>1, <1>5, <1>6 DEF Updating

\* While others commit, what a transaction deletes stays under its parents.
LEMMA TellsCommit ==
    ASSUME Base, NEW r \in Requests, Commit(r), NEW o \in Requests, o # r, moved \subseteq moved',
           Tells(db, moved, req[o], tx[o])
    PROVE  Tells(db', moved', req[o], tx[o])
<1> PICK q : q = req[o]
  OBVIOUS
<1> PICK t : t = tx[o]
  OBVIOUS
<1> SUFFICES ASSUME q.phase = "run", NEW i \in Ids, GoneIn(t, i)
             PROVE  /\ Parent(db', i) = Parent(db, i)
                    /\ i \in Tags /\ Parent(db, i) \in Devices =>
                         Parent(db, i) \in moved' \/ Parent(db', Parent(db, i)) = Parent(db, Parent(db, i))
  BY DEF Tells
<1>1. Well(db, q, t) /\ db \in [Keys -> Row] /\ References(db) /\ DOMAIN tx[r] \cap DOMAIN t = {}
  BY ApartFacts
<1>2. db' = Over(db, tx[r])
  BY CommitFacts
<1>3. <<"row", i>> \in DOMAIN t /\ <<"row", i>> \in Keys
  BY KeyFacts DEF GoneIn
<1>4. db'[<<"row", i>>] = db[<<"row", i>>]
  BY <1>1, <1>2, <1>3 DEF Over
<1>5. ASSUME i \in Tags, Parent(db, i) \in Devices
      PROVE  Parent(db, i) \in moved' \/ Parent(db', Parent(db, i)) = Parent(db, Parent(db, i))
  <2> PICK g : g = Parent(db, i)
    OBVIOUS
  <2>1. i \in Inside /\ g \in Devices /\ g # None
    BY <1>5, KindFacts DEF Inside
  <2>2. ~IsAbsent(db, g)
    BY <1>1, <2>1 DEF References
  <2> QED BY <2>1, <2>2, CommitMoves
<1> QED BY <1>4, <1>5 DEF Parent

\* No object is put under a parent.
TellsAll == /\ \A r \in Requests : Tells(db, moved, req[r], tx[r])
            /\ late \cap Objects = {}

\* A request that deletes nothing, or is over, keeps to it.
LEMMA TellsIdle ==
    ASSUME NEW q, NEW t, DOMAIN t = {} \/ q.phase # "run", NEW d, NEW m PROVE Tells(d, m, q, t)
BY DEF Tells, GoneIn

\* Every step keeps to what the requests will tell.
LEMMA TellsStep == ASSUME Base, TellsAll, [Next]_vars PROVE TellsAll'
<1>1. late \subseteq late' /\ moved \subseteq moved'
      /\ ((late' = late /\ moved' = moved) \/ \E r \in Requests : Commit(r))
  BY LateStays
<1>2. late' \cap Objects = {}
  <2>1. ASSUME NEW r \in Requests, Commit(r) PROVE late' \cap Objects = {}
    <3>1. req[r] \in Request /\ Kinds(req[r])
      BY <2>1, CommitFacts, ApartFacts
    <3>2. Attached(r) \cap Objects = {}
      <4>1. req[r].new \subseteq Figures
        BY <3>1 DEF Request
      <4>2. req[r].op \in {"create_device", "create_tag", "assign_device"} => req[r].id \in Devices \cup Tags
        BY <3>1 DEF Kinds, DeviceOps, TagOps
      <4> QED BY <4>1, <4>2, KindFacts DEF Attached, Inside
    <3>3. late' = late \/ late' = late \cup Attached(r)
      BY <2>1 DEF Commit
    <3> QED BY <3>2, <3>3 DEF TellsAll
  <2> QED BY <1>1, <2>1 DEF TellsAll
<1>3. ASSUME NEW o \in Requests PROVE Tells(db', moved', req'[o], tx'[o])
  <2>1. Lives(o) /\ Tells(db, moved, req[o], tx[o])
    BY AllLive DEF TellsAll
  <2>2. CASE req'[o] = req[o] /\ tx'[o] = tx[o]
    <3>1. CASE \E r \in Requests : Commit(r)
      <4>1. PICK r \in Requests : Commit(r)
        BY <3>1
      <4>2. CASE r = o
        <5>1. PICK p : req' = [req EXCEPT ![r] = p] /\ Committed(req[r], p, db')
          BY <4>1, CommitFacts
        <5>2. req'[o] = p /\ p.phase # "run"
          BY <4>2, <5>1 DEF Committed, Base
        <5> QED BY <5>2, TellsIdle
      <4>3. CASE r # o
        BY <1>1, <2>1, <2>2, <4>1, <4>3, TellsCommit
      <4> QED BY <4>2, <4>3
    <3>2. CASE ~\E r \in Requests : Commit(r)
      BY <1>1, <2>1, <2>2, <3>2, OnlyCommits
    <3> QED BY <3>1, <3>2
  <2>3. ASSUME NEW s, NEW v, NEW c, Ran(o, req[o], s, v, c, req'[o], tx'[o]), Execute(o)
        PROVE  Tells(db', moved', req'[o], tx'[o])
    <3>1. db' = db /\ moved' = moved
      BY <2>3 DEF Execute, history
    <3>2. Tells(db, moved, req'[o], tx'[o])
      BY <2>1, <2>3, TellsExecute
    <3> QED BY <3>1, <3>2
  <2>4. CASE DOMAIN tx'[o] = {}
    BY <2>4, TellsIdle
  <2> QED BY <2>1, <2>2, <2>3, <2>4 DEF Lives
<1> QED BY <1>2, <1>3 DEF TellsAll

\* The deletion of an entity that is told, or that a request still has to tell.
TellingGone(q, f) ==
    q.phase = "publish" /\ q.payload = None /\ [id |-> f, op |-> "deleted"] \in q.touched

KnownGone(f) ==
    \/ \E e \in events : e.id = f /\ e.op = "deleted"
    \/ \E r \in Requests : TellingGone(req[r], f)

Dead(d, i) == d[<<"row", i>>].state = "deleted"
ParentDead(d, i) == Parent(d, i) # None /\ Dead(d, Parent(d, i))
Missed(d, m, l, i) == i \in Tags /\ Parent(d, i) \in m \cup l

ToldGone ==
    \A i \in Ids \ unsent : Dead(db, i) /\ ~Missed(db, moved, late, i) => KnownGone(i) \/ ParentDead(db, i)

\* What is dead stays as it is.
LEMMA DeadStays ==
    ASSUME Base, NEW r \in Requests, Commit(r), NEW i \in Ids, Dead(db, i)
    PROVE  Dead(db', i)
<1>1. db' = Over(db, tx[r])
  BY CommitFacts
<1>2. Well(db, req[r], tx[r]) /\ req[r] \in Request /\ db \in [Keys -> Row]
  BY ApartFacts
<1>3. ~RowWritten(db, req[r], i, db'[<<"row", i>>])
  BY DEF RowWritten, IsAbsent, Live, Dead
<1>4. db'[<<"row", i>>] = db[<<"row", i>>]
  BY <1>1, <1>2, <1>3, OverFacts
<1> QED BY <1>4 DEF Dead

\* What a cascade that commits was to delete is dead, but for what was put there late.
LEMMA CascadeKills ==
    ASSUME Base, Fates, NEW r \in Requests, Commit(r),
           NEW s \in {"self", "devices_of_object", "diagrams_of_object"}, Belongs(req[r], s),
           NEW g \in Ids, ~IsAbsent(db, g), Live(db, g) => Dooms(s, db, req[r], g),
           g \notin late \ Diagrams
    PROVE  Dead(db', g)
<1> PICK q : q = req[r]
  OBVIOUS
<1>1. q.phase = "run" /\ q.todo = <<>> /\ db' \in [Keys -> Row]
  BY CommitFacts DEF Base
<1>2. ~IsAbsent(db', g)
  BY CommitKeeps
<1>3. CASE Live(db, g)
  <2>1. HasRun(q, s)
    BY <1>1 DEF HasRun, After, Cascading
  <2>2. GoneIn(tx[r], g)
    BY <1>1, <1>3, <2>1 DEF Fates, Cascades
  <2>3. ~Live(db', g)
    BY <2>2, GoneIsGone
  <2> PICK k : k = <<"row", g>>
    OBVIOUS
  <2>4. k \in Keys /\ db'[k] \in Row
    BY <1>1, KeyFacts
  <2> QED BY <1>2, <2>3, <2>4 DEF Dead, Live, IsAbsent, Row
<1>4. CASE ~Live(db, g)
  <2> PICK k : k = <<"row", g>>
    OBVIOUS
  <2>1. k \in Keys /\ db[k] \in Row
    BY KeyFacts, ApartFacts
  <2>2. Dead(db, g)
    BY <1>4, <2>1 DEF Dead, Live, IsAbsent, Row
  <2> QED BY <2>2, DeadStays
<1> QED BY <1>3, <1>4

\* What a transaction deletes it will tell, or the parent goes with it.
LEMMA GoneIsTold ==
    ASSUME Base, Fates, TellsAll, NEW r \in Requests, Commit(r), NEW i \in Ids, GoneIn(tx[r], i),
           ~Missed(db', moved', late', i), late \subseteq late', moved \subseteq moved'
    PROVE  \/ ~req[r].rereads /\ req[r].op \notin Creating /\ [id |-> i, op |-> "deleted"] \in req[r].touched
           \/ ParentDead(db', i)
<1> PICK q : q = req[r]
  OBVIOUS
<1> PICK t : t = tx[r]
  OBVIOUS
<1> PICK g : g = Parent(db, i)
  OBVIOUS
<1>1. q.phase = "run" /\ q.todo = <<>> /\ Kinds(q) /\ References(db)
  BY CommitFacts, ApartFacts
<1>2. /\ Deletes(db, q, t) /\ Tells(db, moved, q, t) /\ late \cap Objects = {}
  BY DEF Fates, TellsAll
<1>3. Live(db, i) /\ ~IsAbsent(db, i)
  BY ApartFacts, GoneFacts
<1>4. q.op \in {"delete_device", "delete_object", "delete_diagram", "delete_tag", "delete_figure", "bulk"}
      => ~q.rereads /\ q.op \notin Creating
  BY <1>1 DEF Kinds, Announcing, Creating
<1>5. CASE i = q.id
  BY <1>1, <1>2, <1>4, <1>5 DEF Tells
<1>6. CASE i \in Figures /\ q.op \in {"bulk", "delete_figure"} /\ [id |-> i, op |-> "deleted"] \in q.touched
  BY <1>4, <1>6
<1>7. ASSUME i # q.id, ~(i \in Figures /\ q.op \in {"bulk", "delete_figure"})
      PROVE  ParentDead(db', i)
  <2>1. i \in Inside
    BY <1>1, <1>2, <1>7 DEF Deletes, Ids, Inside
  <2>2. Parent(db', i) = g
    <3>1. CASE i \notin Devices
      BY <1>3, <3>1, CommitKeeps
    <3>2. CASE i \in Devices
      <4>1. q.op \in {"delete_device", "delete_object"}
        BY <1>1, <1>2, <3>2 DEF Deletes
      <4>2. Well(db, q, t) /\ q \in Request /\ db \in [Keys -> Row] /\ db' = Over(db, t)
        BY ApartFacts, CommitFacts
      <4>3. db'[<<"row", i>>] = db[<<"row", i>>] \/ RowWritten(db, q, i, db'[<<"row", i>>])
        BY <4>2, OverFacts
      <4>4. db'[<<"row", i>>].parent = Parent(db, i)
        BY <1>3, <4>1, <4>3 DEF RowWritten, Parent, Live, IsAbsent
      <4> QED BY <4>4 DEF Parent
    <3> QED BY <3>1, <3>2
  <2>3. ASSUME NEW s \in {"self", "devices_of_object", "diagrams_of_object"}, Belongs(q, s), g # None,
               Live(db, g) => Dooms(s, db, q, g), g \notin late \ Diagrams
        PROVE  ParentDead(db', i)
    <3>1. g \in Ids /\ ~IsAbsent(db, g)
      BY <1>1, <2>1, <2>3, KindFacts DEF References
    <3>2. Dead(db', g)
      BY <2>3, <3>1, CascadeKills
    <3> QED BY <2>2, <2>3, <3>2 DEF ParentDead
  <2>4. CASE g = q.id /\ q.op \in {"delete_device", "delete_object", "delete_diagram"}
    <3>1. q.id \in Ids /\ q.id # None /\ Belongs(q, "self")
      BY <1>1, <2>4, KeyFacts, KindFacts DEF Kinds, DeviceOps, ObjectOps, DiagramOps, Belongs, Statements,
         ExtraSteps, Ids
    <3>2. Live(db, g) => Dooms("self", db, q, g)
      BY <2>4, <3>1 DEF Dooms
    <3>3. g \notin late \ Diagrams
      <4>1. CASE q.op = "delete_device"
        <5>1. i \in Tags
          BY <1>1, <1>2, <1>7, <2>1, <2>4, <4>1 DEF Deletes, Inside
        <5> QED BY <2>2, <5>1 DEF Missed
      <4>2. CASE q.op \in {"delete_object", "delete_diagram"}
        BY <1>1, <1>2, <2>4, <4>2 DEF Kinds, ObjectOps, DiagramOps
      <4> QED BY <2>4, <4>1, <4>2
    <3> QED BY <2>3, <2>4, <3>1, <3>2, <3>3
  <2>5. CASE i \in Devices \cup Diagrams
    <3>1. g = q.id /\ q.op = "delete_object"
      BY <1>1, <1>2, <1>7, <2>5 DEF Deletes
    <3> QED BY <2>4, <3>1
  <2>6. CASE i \in Figures
    <3>1. \/ q.op = "delete_diagram" /\ g = q.id
          \/ q.op = "delete_object" /\ g \in Diagrams /\ Parent(db, g) = q.id
      BY <1>1, <1>2, <1>7, <2>6 DEF Deletes
    <3>2. CASE q.op = "delete_object" /\ g \in Diagrams /\ Parent(db, g) = q.id
      <4>1. Belongs(q, "diagrams_of_object")
        BY <3>2 DEF Belongs, Statements, ExtraSteps
      <4>2. Live(db, g) => Dooms("diagrams_of_object", db, q, g)
        BY <3>2, KindFacts DEF Dooms, Inside
      <4> QED BY <2>3, <3>2, <4>1, <4>2, KindFacts DEF Inside
    <3> QED BY <2>4, <3>1, <3>2
  <2>7. CASE i \in Tags
    <3>1. g \notin moved /\ g \notin late
      BY <2>2, <2>7 DEF Missed
    <3>2. \/ q.op = "delete_device" /\ g = q.id
          \/ q.op = "delete_object" /\ g \in Devices /\ Parent(db, g) = q.id
      BY <1>1, <1>2, <1>7, <2>7, <3>1 DEF Tells
    <3>3. CASE q.op = "delete_object" /\ g \in Devices /\ Parent(db, g) = q.id
      <4>1. Belongs(q, "devices_of_object")
        BY <3>3 DEF Belongs, Statements, ExtraSteps
      <4>2. Live(db, g) => Dooms("devices_of_object", db, q, g)
        BY <3>3, KindFacts DEF Dooms, Inside
      <4> QED BY <2>3, <3>1, <3>3, <4>1, <4>2, KindFacts DEF Inside
    <3> QED BY <2>4, <3>2, <3>3
  <2> QED BY <2>1, <2>5, <2>6, <2>7 DEF Inside
<1> QED BY <1>1, <1>2, <1>5, <1>6, <1>7 DEF Deletes

\* Every step keeps each deletion told, or with a request that will tell it, or with the
\* deletion of the parent.
LEMMA ToldGoneStep == ASSUME Base, Fates, TellsAll, ToldGone, [Next]_vars PROVE ToldGone'
<1>0. late \subseteq late' /\ moved \subseteq moved'
      /\ ((late' = late /\ moved' = moved) \/ \E r \in Requests : Commit(r))
  BY LateStays
<1> SUFFICES ASSUME NEW f \in Ids, f \notin unsent', Dead(db', f), ~Missed(db', moved', late', f)
             PROVE  KnownGone(f)' \/ ParentDead(db', f)
  BY DEF ToldGone
<1>1. events \subseteq events' /\ f \notin unsent
  BY NothingTakenBack
<1>2. ASSUME db' = db, KnownGone(f) PROVE KnownGone(f)'
  <2>1. ASSUME NEW r \in Requests, TellingGone(req[r], f) PROVE KnownGone(f)'
    <3>1. req[r].phase = "publish" /\ req[r].payload = None /\ [id |-> f, op |-> "deleted"] \in req[r].touched
      BY <2>1 DEF TellingGone
    <3>2. Done(r)
      BY <3>1, CommittedOnes
    <3>3. CASE req'[r] = req[r]
      BY <2>1, <3>3 DEF KnownGone
    <3>4. CASE \A e \in Announcements(req[r]) : e \in events' \/ e.id \in unsent'
      <4> PICK e : e = [id |-> f, op |-> "deleted", payload |-> None]
        OBVIOUS
      <4>1. e \in Announcements(req[r]) /\ e.id = f /\ e.op = "deleted"
        BY <3>1 DEF Announcements
      <4>2. e \in events'
        BY <3>4, <4>1
      <4> QED BY <4>1, <4>2 DEF KnownGone
    <3> QED BY <3>1, <3>2, <3>3, <3>4 DEF Done, Refreshed
  <2> QED BY <1>1, <1>2, <2>1 DEF KnownGone
<1>3. CASE ~\E r \in Requests : Commit(r)
  <2>1. db' = db /\ late' = late /\ moved' = moved
    BY <1>0, <1>3, OnlyCommits
  <2>2. KnownGone(f) \/ ParentDead(db, f)
    BY <1>1, <2>1 DEF ToldGone
  <2> QED BY <1>2, <2>1, <2>2
<1>4. ASSUME NEW o \in Requests, Commit(o) PROVE KnownGone(f)' \/ ParentDead(db', f)
  <2> PICK q : q = req[o]
    OBVIOUS
  <2> PICK t : t = tx[o]
    OBVIOUS
  <2>1. PICK p : req' = [req EXCEPT ![o] = p] /\ Committed(q, p, db')
    BY <1>4, CommitFacts
  <2>2. req'[o] = p /\ q.phase = "run" /\ db' = Over(db, t) /\ References(db)
    BY <1>4, <2>1, CommitFacts, ApartFacts DEF Base
  <2> PICK k : k = <<"row", f>>
    OBVIOUS
  <2>3. k \in Keys
    BY KeyFacts
  <2>4. CASE k \in DOMAIN t
    <3>1. GoneIn(t, f)
      BY <2>2, <2>3, <2>4 DEF Over, GoneIn, Dead
    <3>2. CASE ~q.rereads /\ q.op \notin Creating /\ [id |-> f, op |-> "deleted"] \in q.touched
      <4>1. TellingGone(p, f)
        BY <2>1, <3>2 DEF Committed, TellingGone, Creating
      <4> QED BY <2>2, <4>1 DEF KnownGone
    <3> QED BY <1>0, <1>4, <3>1, <3>2, GoneIsTold
  <2>5. CASE k \notin DOMAIN t
    <3>1. db[k] = db'[k]
      BY <2>2, <2>3, <2>5 DEF Over
    <3>2. Parent(db', f) = Parent(db, f) /\ Dead(db, f)
      BY <3>1 DEF Parent, Dead
    <3>3. KnownGone(f) \/ ParentDead(db, f)
      BY <1>0, <1>1, <3>2 DEF ToldGone, Missed
    <3>4. CASE KnownGone(f)
      <4>1. ASSUME NEW r \in Requests, TellingGone(req[r], f) PROVE KnownGone(f)'
        <5>1. r # o
          BY <2>2, <4>1 DEF TellingGone
        <5>2. req'[r] = req[r]
          BY <2>1, <5>1 DEF Base
        <5> QED BY <4>1, <5>2 DEF KnownGone
      <4> QED BY <1>1, <3>4, <4>1 DEF KnownGone
    <3>5. CASE ParentDead(db, f)
      <4> PICK g : g = Parent(db, f)
        OBVIOUS
      <4>1. g # None /\ Dead(db, g)
        BY <3>5 DEF ParentDead
      <4>2. g \in Ids
        <5>1. db[k] \in Row
          BY <1>4, <2>3, ApartFacts
        <5> QED BY <4>1, <5>1 DEF Parent, Row
      <4>3. Dead(db', g)
        BY <1>4, <4>1, <4>2, DeadStays
      <4> QED BY <3>2, <4>1, <4>3 DEF ParentDead
    <3> QED BY <3>3, <3>4, <3>5
  <2> QED BY <2>4, <2>5
<1> QED BY <1>3, <1>4

\* Nothing is deleted at the start.
LEMMA InitialToldGone == Init => TellsAll /\ ToldGone
<1> SUFFICES ASSUME Init PROVE TellsAll /\ ToldGone
  OBVIOUS
<1>1. ASSUME NEW r \in Requests PROVE Tells(db, moved, req[r], tx[r])
  <2>1. DOMAIN tx[r] = {}
    BY NothingFacts DEF Init
  <2> QED BY <2>1, TellsIdle
<1>2. ASSUME NEW f \in Ids PROVE ~Dead(db, f)
  <2>1. <<"row", f>> \in Keys
    BY KeyFacts
  <2> QED BY <2>1 DEF Init, Absent, Dead
<1> QED BY <1>1, <1>2 DEF TellsAll, ToldGone, Init

\* When nobody has anything left to tell, it has been told.
LEMMA QuietTold == ASSUME Told, ToldGone PROVE AnnouncedWhenQuiet
<1> SUFFICES ASSUME \A r \in Requests : req[r].phase = "idle"
             PROVE  /\ \A i \in (Devices \cup Tags) \ unsent :
                         Live(db, i) /\ (\E k \in Keys : k[2] = i /\ db[k].version > 0)
                             => \E e \in events : e.id = i /\ e.payload = Entity(db, i)
                    /\ \A i \in Ids \ unsent :
                         db[<<"row", i>>].state = "deleted"
                           /\ ~(i \in Tags /\ Parent(db, i) \in moved \cup late) => DeletionTold(i)
  BY DEF AnnouncedWhenQuiet
<1>1. \A i : Known(i) => \E e \in events : e.id = i /\ e.payload = Entity(db, i)
  BY DEF Known, Telling
<1>2. \A f : KnownGone(f) => \E e \in events : e.id = f /\ e.op = "deleted"
  BY DEF KnownGone, TellingGone
<1>3. ASSUME NEW i \in (Devices \cup Tags) \ unsent, Live(db, i), \E k \in Keys : k[2] = i /\ db[k].version > 0
      PROVE  \E e \in events : e.id = i /\ e.payload = Entity(db, i)
  BY <1>1, <1>3 DEF Told, Edited
<1>4. ASSUME NEW i \in Ids \ unsent, db[<<"row", i>>].state = "deleted",
             ~(i \in Tags /\ Parent(db, i) \in moved \cup late)
      PROVE  DeletionTold(i)
  <2>1. KnownGone(i) \/ ParentDead(db, i)
    BY <1>4 DEF ToldGone, Dead, Missed
  <2> QED BY <1>2, <2>1 DEF DeletionTold, ParentDead, Dead
<1> QED BY <1>3, <1>4

\* When no request is under way, the last state of every edited device and tag is on
\* config.changed, and every deletion is, itself or as that of its parent, unless an event was
\* lost, or the entity is a tag whose device was moved or came under its object late.
THEOREM Announced == Spec => []AnnouncedWhenQuiet
BY BaseHolds, InitialFates, FatesStep, InitialTold, ToldStep, TellsStep, InitialToldGone, ToldGoneStep,
   QuietTold, PTL DEF Spec
=============================================================================
