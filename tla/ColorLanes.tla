----------------------------- MODULE ColorLanes -----------------------------
(***************************************************************************)
(* What a light on a shelf means: the lane of a task type in a retailer's  *)
(* colour mapping (domain/task/color-lane.ts).                             *)
(***************************************************************************)
EXTENDS Naturals, Sequences, SequencesExt, FiniteSets

LedColors == {"red", "amber", "green", "blue", "purple", "cyan", "white", "pink", "teal"}

\* Green means "pick this for an order" on every tag.
ReservedLanes == {"green"}

IsReservedLane(color) == color \in ReservedLanes

TaskTypes == <<"restock_out_of_stock", "replenish_low_stock", "misplaced_product",
               "planogram_correction", "price_label_correction", "tag_maintenance",
               "spoilage_removal", "audit_count">>
TaskType == ToSet(TaskTypes)

StandardColors == <<"red", "amber", "blue", "purple", "cyan", "white", "pink", "teal">>

\* The mapping every retailer inherits.
StandardColorLanes ==
    [type \in TaskType |-> StandardColors[CHOOSE i \in 1..Len(TaskTypes) : TaskTypes[i] = type]]

----------------------------------------------------------------------------
Ok(value)  == [ok |-> TRUE, value |-> value]
Err(error) == [ok |-> FALSE, error |-> error]

\* The standard mapping with a retailer's deviations from it.
Merged(override) ==
    [type \in TaskType |-> IF type \in DOMAIN override THEN override[type]
                           ELSE StandardColorLanes[type]]

\* Mutant: the override is checked and not what it makes of the mapping.
MutantOverrideOnly(override) ==
    \A a, b \in DOMAIN override : a # b => override[a] # override[b]

\* A partial override can collide with a standard lane it never mentions.
Exclusive(override) ==
    \A a, b \in TaskType : a # b => Merged(override)[a] # Merged(override)[b]

\* override is a function on some of the task types, owned by a retailer.
ResolveColorLaneMap(retailer, owner, override) ==
    CASE owner # retailer                                     -> Err("foreign_override")
      [] \E t \in DOMAIN override : IsReservedLane(override[t]) -> Err("reserved")
      [] \E t \in DOMAIN override : override[t] \notin LedColors -> Err("unknown_color")
      [] ~Exclusive(override)                                 -> Err("shared_lane")
      [] OTHER -> Ok([lanes |-> Merged(override),
                      overriddenTypes |-> {t \in DOMAIN override :
                                             override[t] # StandardColorLanes[t]}])

LaneFor(mapping, type) == mapping.lanes[type]

\* The task type a lit lane stands for, the first in the order of TaskTypes.
TaskTypeForLane(mapping, color) ==
    LET at == {i \in 1..Len(TaskTypes) : mapping.lanes[TaskTypes[i]] = color}
    IN  IF at = {} THEN "none"
        ELSE TaskTypes[CHOOSE i \in at : \A j \in at : i <= j]
=============================================================================
