-------------------------- MODULE SettingsProofs --------------------------
(***************************************************************************)
(* Proofs about Postures, with Exits and Packs under it, for any number of  *)
(* requests, subscriptions, packs and profiles: whenever nobody is at work  *)
(* on a store, the data plane serves what the store and its file hold.  The *)
(* stores of the policy come first (PackInv, SettingsPoliciesAreServed), the*)
(* lists of the exits second (ExitInv, SettingsListsAreServed), and the sets*)
(* of the packs that are in force third (WantedInv,                        *)
(* SettingsPacksKeepTheirSets).  Last, a switch of the posture brings back *)
(* the policy the posture was left with (SwitchInv, SettingsSwitchesRestore).*)
(***************************************************************************)
EXTENDS Postures, TLAPS

-----------------------------------------------------------------------------
(***************************************************************************)
(* The plans of requests, and the stores they have to do with              *)
(***************************************************************************)
SwitchTails ==
    {<<"leave", "load", "plane", "alignSets", "alignRules", "settle">>,
     <<"load", "plane", "alignSets", "alignRules", "settle">>,
     <<"plane", "alignSets", "alignRules", "settle">>,
     <<"alignSets", "alignRules", "settle">>,
     <<"alignRules", "settle">>,
     <<"settle">>}
BackTails ==
    {<<"plane", "alignSets", "alignRules">>, <<"alignSets", "alignRules">>, <<"alignRules">>}
ActivateTails ==
    {<<"plane", "alignSets", "alignRules", "clear", "mark">>,
     <<"alignSets", "alignRules", "clear", "mark">>,
     <<"alignRules", "clear", "mark">>,
     <<"clear", "mark">>,
     <<"mark">>}

IsOp(o) ==
    o = [op |-> o.op, arg |-> o.arg, plan |-> o.plan, list |-> o.list, prev |-> o.prev,
         next |-> o.next]
IsPolicy(p) == p = [rules |-> p.rules, sets |-> p.sets]

\* What is left of a plan.
EditTails(step) == {<<step, "serveRules">>, <<"serveRules">>}
PackTails(first, second, third) ==
    {<<first, second, third, "serveRules">>, <<second, third, "serveRules">>,
     <<third, "serveRules">>}
UndoneTails ==
    {<<"restoreRules">>, <<"restoreSets">>, <<"reserveSets">>,
     <<"restoreRules", "restoreSets">>, <<"restoreSets", "reserveSets">>,
     <<"restoreRules", "restoreSets", "reserveSets">>}
Tails(op) ==
    CASE op = Nil -> {<<>>}
      [] op = "rule" -> EditTails("edit")
      [] op \in {"approve", "deny"} -> EditTails(op)
      [] op = "request" -> {<<"file">>}
      [] op = "set" -> {<<"import", "serveSets">>, <<"serveSets">>}
      [] op = "apply" -> PackTails("merge", "replace", "passSets") \cup EditTails("replace")
      [] op = "on" -> PackTails("enable", "merge", "passSets") \cup EditTails("enable")
      [] op = "off" -> PackTails("disable", "subtract", "passSets") \cup EditTails("disable")
      [] op = "delete" -> PackTails("remove", "withdraw", "passSets") \cup EditTails("remove")
      [] op = "undone" -> UndoneTails
      [] op = "switch" -> SwitchTails
      [] op = "back" -> BackTails
      [] op = "activate" -> ActivateTails
Operations ==
    {Nil, "rule", "approve", "deny", "request", "set", "undone"} \cup PackOps \cup Sweeps

OpStation(o) ==
    /\ IsOp(o) /\ o.op \in Operations /\ o.plan \in Tails(o.op)
    /\ o.op = Nil => o = Resting
    /\ o.op \in {"back", "activate"} => IsPolicy(o.next)
    /\ o.op = "switch" /\ Head(o.plan) \notin {"leave", "load"} => IsPolicy(o.next)
    /\ o.op = "switch" /\ Head(o.plan) = "plane" => IsPolicy(o.prev)

ArePolicies(x) ==
    /\ x = [mem |-> x.mem, file |-> x.file, held |-> x.held]
    /\ IsPolicy(x.mem) /\ IsPolicy(x.file) /\ IsPolicy(x.held)

OpTypes ==
    /\ ArePolicies(policy)
    /\ DOMAIN ops = PolicyRequest
    /\ \A r \in PolicyRequest : OpStation(ops[r])
    /\ \A r, q \in PolicyRequest : ops[r].op \in Sweeps /\ ops[q].op \in Sweeps => r = q

-----------------------------------------------------------------------------
(***************************************************************************)
(* The requests of Packs                                                   *)
(***************************************************************************)
Stores == {"rules", "sets"}

\* The stores a request still has to do with.
PlanStores(plan) == {StoreOf(plan[i]) : i \in DOMAIN plan}
Hands(o) == IF o.op = "undone" THEN PlanStores(o.plan) ELSE Touches(o.op)

Pending(plan, steps) == \E i \in DOMAIN plan : plan[i] \in steps
RuleEditing == {"edit", "replace", "enable", "disable", "remove"}
SetEditing == {"import", "merge", "subtract", "withdraw"}
Aligning == {"alignSets", "alignRules"}

\* The list a rollback goes back to is what the Manager enforces.
KeptHeld(o, x, store) == InForce(o.prev, store) = InForce(x.held, store)
Written(x, store) == x.mem[store] = x.file[store]

\* What holds of the rules with the stores x and a request o that has to do with
\* them, and of the rule sets.
RulesAt(o, x) ==
    CASE o.op \in {"approve", "deny", "request"} ->
            IF Head(o.plan) = "serveRules" THEN Written(x, "rules") /\ o.list = x.mem.rules
            ELSE Agree(x, "rules")
      [] o.op \in {"rule"} \cup PackOps ->
            /\ KeptHeld(o, x, "rules")
            /\ IF Pending(o.plan, RuleEditing) THEN Agree(x, "rules")
               ELSE Written(x, "rules") /\ o.list = x.mem.rules
      [] o.op = "undone" -> KeptHeld(o, x, "rules")
      [] OTHER ->
            IF Head(o.plan) \in Aligning THEN x.held.rules = o.next.rules ELSE Agree(x, "rules")

SetsAt(o, x) ==
    CASE o.op = "set" ->
            /\ KeptHeld(o, x, "sets")
            /\ IF Head(o.plan) = "import" THEN Agree(x, "sets")
               ELSE Written(x, "sets") /\ o.list = x.mem.sets
      [] o.op \in PackOps ->
            /\ Head(o.plan) # "serveRules" => KeptHeld(o, x, "sets")
            /\ IF Pending(o.plan, {"passSets"}) /\ ~Pending(o.plan, SetEditing)
               THEN Written(x, "sets") ELSE Agree(x, "sets")
      [] o.op = "undone" ->
            /\ Pending(o.plan, {"restoreSets"}) /\ ~Pending(o.plan, {"reserveSets"})
                => KeptHeld(o, x, "sets")
            /\ ~Pending(o.plan, {"restoreSets"}) => Written(x, "sets") /\ x.mem.sets = o.prev.sets
      [] OTHER ->
            IF Head(o.plan) = "alignSets" THEN x.held.sets = o.next.sets ELSE Agree(x, "sets")

Stage(o, x, store) == IF store = "rules" THEN RulesAt(o, x) ELSE SetsAt(o, x)

StoreCourse(store) ==
    /\ \A r, q \in PolicyRequest : store \in Hands(ops[r]) /\ store \in Hands(ops[q]) => r = q
    /\ (\A r \in PolicyRequest : store \notin Hands(ops[r])) => Agree(policy, store)
    /\ \A r \in PolicyRequest : store \in Hands(ops[r]) => Stage(ops[r], policy, store)

PackInv == OpTypes /\ \A store \in Stores \ loose : StoreCourse(store)

-----------------------------------------------------------------------------
(***************************************************************************)
(* Plans and stores                                                        *)
(***************************************************************************)
LEMMA InForceBy ==
    ASSUME NEW x, NEW y, NEW store \in Stores, x[store] = y[store]
    PROVE  InForce(x, store) = InForce(y, store)
BY Zenon DEF InForce, Stores

\* What is in force of one store does not depend on the other one.
LEMMA StageBy ==
    ASSUME NEW o, NEW x, NEW y, NEW store \in Stores, x.mem[store] = y.mem[store],
           x.file[store] = y.file[store], x.held[store] = y.held[store]
    PROVE  (Agree(x, store) <=> Agree(y, store)) /\ (Stage(o, x, store) <=> Stage(o, y, store))
<1>1. /\ InForce(x.mem, store) = InForce(y.mem, store)
      /\ InForce(x.file, store) = InForce(y.file, store)
      /\ InForce(x.held, store) = InForce(y.held, store)
    BY InForceBy
<1>2. Agree(x, store) <=> Agree(y, store)
    BY <1>1 DEF Agree
<1>3. KeptHeld(o, x, store) <=> KeptHeld(o, y, store)
    BY <1>1 DEF KeptHeld
<1>4. Written(x, store) <=> Written(y, store)
    BY DEF Written
<1>5. CASE store = "rules"
    BY <1>2, <1>3, <1>4, <1>5, SMT DEF Stage, RulesAt
<1>6. CASE store = "sets"
    BY <1>2, <1>3, <1>4, <1>6, SMT DEF Stage, SetsAt
<1>7. QED
    BY <1>2, <1>5, <1>6 DEF Stores

\* Equal stores and files agree with what the Manager holds of them.
LEMMA AgreeBy ==
    ASSUME NEW x, NEW store \in Stores, x.mem[store] = x.held[store], x.file[store] = x.held[store]
    PROVE  Agree(x, store)
BY InForceBy DEF Agree

LEMMA PlansBegin ==
    ASSUME NEW op \in {"rule", "approve", "deny", "request", "set"} \cup PackOps, NEW pack
    PROVE  Plan(op, pack) \in Tails(op) /\ Plan(op, pack) # <<>>
BY SMT DEF Plan, Tails, EditTails, PackTails, PackOps

LEMMA TailsOf ==
    ASSUME NEW a, NEW b, NEW c, NEW d
    PROVE  /\ Head(<<a>>) = a /\ Tail(<<a>>) = <<>>
           /\ Head(<<a, b>>) = a /\ Tail(<<a, b>>) = <<b>>
           /\ Head(<<a, b, c>>) = a /\ Tail(<<a, b, c>>) = <<b, c>>
           /\ Head(<<a, b, c, d>>) = a /\ Tail(<<a, b, c, d>>) = <<b, c, d>>
           /\ <<a>> # <<>> /\ <<a, b>> # <<>> /\ <<a, b, c>> # <<>> /\ <<a, b, c, d>> # <<>>
BY SMT

LEMMA PendingIn ==
    ASSUME NEW a, NEW b, NEW c, NEW d, NEW S
    PROVE  /\ Pending(<<a>>, S) <=> a \in S
           /\ Pending(<<a, b>>, S) <=> a \in S \/ b \in S
           /\ Pending(<<a, b, c>>, S) <=> a \in S \/ b \in S \/ c \in S
           /\ Pending(<<a, b, c, d>>, S) <=> a \in S \/ b \in S \/ c \in S \/ d \in S
BY SMT DEF Pending

\* The steps of the plans of packs.
PackPlan(op, plan) ==
    /\ plan # <<>>
    /\ Head(plan) \in RuleEditing \cup (SetEditing \ {"import"}) \cup {"passSets", "serveRules"}
    /\ op = "apply" => Head(plan) \in {"merge", "replace", "passSets", "serveRules"}
    /\ Head(plan) # "serveRules" => Tail(plan) \in Tails(op)
    /\ Head(plan) = "serveRules" => plan = <<"serveRules">>
    /\ Head(plan) \in RuleEditing =>
          /\ Pending(plan, RuleEditing) /\ ~Pending(Tail(plan), RuleEditing)
          /\ op # "apply" /\ Pending(plan, {"passSets"}) => Pending(plan, SetEditing)
          /\ Pending(Tail(plan), SetEditing) <=> Pending(plan, SetEditing)
          /\ Pending(Tail(plan), {"passSets"}) <=> Pending(plan, {"passSets"})
    /\ Head(plan) \in SetEditing =>
          /\ Pending(plan, SetEditing) /\ ~Pending(Tail(plan), SetEditing)
          /\ Pending(Tail(plan), {"passSets"})
          /\ op = "apply" => Pending(plan, RuleEditing)
          /\ Pending(Tail(plan), RuleEditing) <=> Pending(plan, RuleEditing)
          /\ Head(Tail(plan)) # "serveRules"
    /\ Head(plan) = "passSets" =>
          plan = <<"passSets", "serveRules">> /\ Tail(plan) = <<"serveRules">>
    /\ Head(plan) \in {"passSets", "serveRules"} =>
          /\ ~Pending(plan, RuleEditing) /\ ~Pending(plan, SetEditing)
          /\ Pending(plan, {"passSets"}) <=> Head(plan) = "passSets"

LEMMA PackPlans == ASSUME NEW op \in PackOps, NEW plan \in Tails(op) PROVE PackPlan(op, plan)
<1>1. PICK a, b, c : /\ a \in RuleEditing \cup SetEditing /\ b \in RuleEditing \cup SetEditing
                     /\ a \in SetEditing <=> b \in RuleEditing
                     /\ a \in SetEditing <=> op = "apply"
                     /\ a # "import" /\ b # "import"
                     /\ op = "apply" => {a, b, c} = {"merge", "replace"}
                     /\ c \in RuleEditing /\ c \in {a, b}
                     /\ Tails(op) = PackTails(a, b, "passSets") \cup EditTails(c)
    <2>1. CASE op = "apply"
        BY <2>1 DEF Tails, RuleEditing, SetEditing
    <2>2. CASE op = "on"
        BY <2>2 DEF Tails, RuleEditing, SetEditing
    <2>3. CASE op = "off"
        BY <2>3 DEF Tails, RuleEditing, SetEditing
    <2>4. CASE op = "delete"
        BY <2>4 DEF Tails, RuleEditing, SetEditing
    <2>5. QED
        BY <2>1, <2>2, <2>3, <2>4 DEF PackOps
<1>2. CASE plan = <<a, b, "passSets", "serveRules">>
    <2>1. plan # <<>> /\ Head(plan) = a /\ Tail(plan) = <<b, "passSets", "serveRules">>
        BY <1>2, SMT
    <2>2. \A S : Pending(plan, S) <=> a \in S \/ b \in S \/ "passSets" \in S \/ "serveRules" \in S
        BY <1>2, SMT DEF Pending
    <2>3. \A S : Pending(Tail(plan), S) <=> b \in S \/ "passSets" \in S \/ "serveRules" \in S
        BY <1>2, SMT DEF Pending
    <2>4. Head(Tail(plan)) = b
        BY <1>2, SMT
    <2>5. Tail(plan) \in Tails(op)
        BY <1>1, <2>1 DEF PackTails
    <2>6. QED
        BY <1>1, <2>1, <2>2, <2>3, <2>4, <2>5 DEF PackPlan, RuleEditing, SetEditing
<1>3. CASE plan = <<b, "passSets", "serveRules">>
    <2>1. plan # <<>> /\ Head(plan) = b /\ Tail(plan) = <<"passSets", "serveRules">>
        BY <1>3, SMT
    <2>2. \A S : Pending(plan, S) <=> b \in S \/ "passSets" \in S \/ "serveRules" \in S
        BY <1>3, SMT DEF Pending
    <2>3. \A S : Pending(Tail(plan), S) <=> "passSets" \in S \/ "serveRules" \in S
        BY <1>3, SMT DEF Pending
    <2>4. Head(Tail(plan)) = "passSets"
        BY <1>3, SMT
    <2>5. Tail(plan) \in Tails(op)
        BY <1>1, <2>1 DEF PackTails
    <2>6. QED
        BY <1>1, <2>1, <2>2, <2>3, <2>4, <2>5 DEF PackPlan, RuleEditing, SetEditing
<1>4. CASE plan = <<"passSets", "serveRules">>
    <2>1. plan # <<>> /\ Head(plan) = "passSets" /\ Tail(plan) = <<"serveRules">>
        BY <1>4, SMT
    <2>2. Tail(plan) \in Tails(op)
        BY <1>1, <2>1 DEF EditTails
    <2>3. /\ ~Pending(plan, RuleEditing) /\ ~Pending(plan, SetEditing)
          /\ Pending(plan, {"passSets"})
        BY <1>4, SMT DEF Pending, RuleEditing, SetEditing
    <2>4. QED
        BY <1>4, <2>1, <2>2, <2>3 DEF PackPlan, RuleEditing, SetEditing
<1>5. CASE plan = <<c, "serveRules">>
    <2>1. plan # <<>> /\ Head(plan) = c /\ Tail(plan) = <<"serveRules">>
        BY <1>5, SMT
    <2>2. \A S : Pending(plan, S) <=> c \in S \/ "serveRules" \in S
        BY <1>5, SMT DEF Pending
    <2>3. \A S : Pending(Tail(plan), S) <=> "serveRules" \in S
        BY <1>5, SMT DEF Pending
    <2>4. Tail(plan) \in Tails(op)
        BY <1>1, <2>1, Zenon DEF EditTails
    <2>5. QED
        BY <1>1, <2>1, <2>2, <2>3, <2>4 DEF PackPlan, RuleEditing, SetEditing
<1>6. CASE plan = <<"serveRules">>
    <2>1. plan # <<>> /\ Head(plan) = "serveRules"
        BY <1>6, SMT
    <2>2. /\ ~Pending(plan, RuleEditing) /\ ~Pending(plan, SetEditing)
          /\ ~Pending(plan, {"passSets"})
        BY <1>6, SMT DEF Pending, RuleEditing, SetEditing
    <2>3. QED
        BY <1>6, <2>1, <2>2 DEF PackPlan, RuleEditing, SetEditing
<1>7. QED
    BY <1>1, <1>2, <1>3, <1>4, <1>5, <1>6 DEF PackTails, EditTails

\* The steps of a rollback.
UndonePlan(plan) ==
    /\ plan # <<>> /\ Head(plan) \in {"restoreRules", "restoreSets", "reserveSets"}
    /\ PlanStores(plan) \subseteq Stores
    /\ Tail(plan) # <<>> => Tail(plan) \in UndoneTails
    /\ Head(plan) = "restoreRules" =>
          /\ "rules" \in PlanStores(plan) /\ "rules" \notin PlanStores(Tail(plan))
          /\ "sets" \in PlanStores(Tail(plan)) <=> "sets" \in PlanStores(plan)
          /\ Pending(Tail(plan), {"restoreSets"}) <=> Pending(plan, {"restoreSets"})
          /\ Pending(Tail(plan), {"reserveSets"}) <=> Pending(plan, {"reserveSets"})
    /\ Head(plan) = "restoreSets" =>
          /\ PlanStores(plan) = {"sets"}
          /\ Tail(plan) = <<>> => plan = <<"restoreSets">> /\ Pending(plan, {"restoreSets"})
                                    /\ ~Pending(plan, {"reserveSets"})
          /\ Tail(plan) # <<>> => "sets" \in PlanStores(Tail(plan)) /\ ~Pending(Tail(plan), {"restoreSets"})
                                    /\ "rules" \notin PlanStores(Tail(plan))
    /\ Head(plan) = "reserveSets" =>
          plan = <<"reserveSets">> /\ Tail(plan) = <<>> /\ PlanStores(plan) = {"sets"}
              /\ ~Pending(plan, {"restoreSets"})

LEMMA StoresIn ==
    ASSUME NEW a, NEW b, NEW c
    PROVE  /\ PlanStores(<<>>) = {} /\ PlanStores(<<a>>) = {StoreOf(a)}
           /\ PlanStores(<<a, b>>) = {StoreOf(a), StoreOf(b)}
           /\ PlanStores(<<a, b, c>>) = {StoreOf(a), StoreOf(b), StoreOf(c)}
BY SMT DEF PlanStores

LEMMA StoreOfSteps ==
    /\ StoreOf("restoreRules") = "rules" /\ StoreOf("restoreSets") = "sets"
    /\ StoreOf("reserveSets") = "sets"
BY DEF StoreOf, SetSteps

LEMMA UndonePlans == ASSUME NEW plan \in UndoneTails PROVE UndonePlan(plan)
<1>1. CASE plan = <<"restoreRules">>
    <2>1. plan # <<>> /\ Head(plan) = "restoreRules" /\ Tail(plan) = <<>>
        BY <1>1, SMT
    <2>2. PlanStores(plan) = {"rules"} /\ PlanStores(Tail(plan)) = {}
        BY <1>1, <2>1, StoreOfSteps, SMT DEF PlanStores
    <2>3. ~Pending(plan, {"restoreSets"}) /\ ~Pending(plan, {"reserveSets"})
        BY <1>1, SMT DEF Pending
    <2>4. ~Pending(Tail(plan), {"restoreSets"}) /\ ~Pending(Tail(plan), {"reserveSets"})
        BY <1>1, SMT DEF Pending
    <2>6. QED
        BY <1>1, <2>1, <2>2, <2>3, <2>4 DEF UndonePlan, Stores
<1>2. CASE plan = <<"restoreSets">>
    <2>1. plan # <<>> /\ Head(plan) = "restoreSets" /\ Tail(plan) = <<>>
        BY <1>2, SMT
    <2>2. PlanStores(plan) = {"sets"} /\ PlanStores(Tail(plan)) = {}
        BY <1>2, <2>1, StoreOfSteps, SMT DEF PlanStores
    <2>3. Pending(plan, {"restoreSets"}) /\ ~Pending(plan, {"reserveSets"})
        BY <1>2, SMT DEF Pending
    <2>4. ~Pending(Tail(plan), {"restoreSets"}) /\ ~Pending(Tail(plan), {"reserveSets"})
        BY <1>2, SMT DEF Pending
    <2>6. QED
        BY <1>2, <2>1, <2>2, <2>3, <2>4 DEF UndonePlan, Stores
<1>3. CASE plan = <<"reserveSets">>
    <2>1. plan # <<>> /\ Head(plan) = "reserveSets" /\ Tail(plan) = <<>>
        BY <1>3, SMT
    <2>2. PlanStores(plan) = {"sets"} /\ PlanStores(Tail(plan)) = {}
        BY <1>3, <2>1, StoreOfSteps, SMT DEF PlanStores
    <2>3. ~Pending(plan, {"restoreSets"}) /\ Pending(plan, {"reserveSets"})
        BY <1>3, SMT DEF Pending
    <2>4. ~Pending(Tail(plan), {"restoreSets"}) /\ ~Pending(Tail(plan), {"reserveSets"})
        BY <1>3, SMT DEF Pending
    <2>6. QED
        BY <1>3, <2>1, <2>2, <2>3, <2>4 DEF UndonePlan, Stores
<1>4. CASE plan = <<"restoreRules", "restoreSets">>
    <2>1. plan # <<>> /\ Head(plan) = "restoreRules" /\ Tail(plan) = <<"restoreSets">>
        BY <1>4, SMT
    <2>2. PlanStores(plan) = {"rules", "sets"} /\ PlanStores(Tail(plan)) = {"sets"}
        BY <1>4, <2>1, StoreOfSteps, SMT DEF PlanStores
    <2>3. Pending(plan, {"restoreSets"}) /\ ~Pending(plan, {"reserveSets"})
        BY <1>4, SMT DEF Pending
    <2>4. Pending(Tail(plan), {"restoreSets"}) /\ ~Pending(Tail(plan), {"reserveSets"})
        BY <1>4, SMT DEF Pending
    <2>5. Tail(plan) # <<>> => Tail(plan) \in UndoneTails
        BY <2>1 DEF UndoneTails
    <2>6. QED
        BY <1>4, <2>1, <2>2, <2>3, <2>4, <2>5 DEF UndonePlan, Stores
<1>5. CASE plan = <<"restoreSets", "reserveSets">>
    <2>1. plan # <<>> /\ Head(plan) = "restoreSets" /\ Tail(plan) = <<"reserveSets">>
        BY <1>5, SMT
    <2>2. PlanStores(plan) = {"sets"} /\ PlanStores(Tail(plan)) = {"sets"}
        BY <1>5, <2>1, StoreOfSteps, SMT DEF PlanStores
    <2>3. Pending(plan, {"restoreSets"}) /\ Pending(plan, {"reserveSets"})
        BY <1>5, SMT DEF Pending
    <2>4. ~Pending(Tail(plan), {"restoreSets"}) /\ Pending(Tail(plan), {"reserveSets"})
        BY <1>5, SMT DEF Pending
    <2>5. Tail(plan) # <<>> => Tail(plan) \in UndoneTails
        BY <2>1 DEF UndoneTails
    <2>6. QED
        BY <1>5, <2>1, <2>2, <2>3, <2>4, <2>5 DEF UndonePlan, Stores
<1>6. CASE plan = <<"restoreRules", "restoreSets", "reserveSets">>
    <2>1. plan # <<>> /\ Head(plan) = "restoreRules" /\ Tail(plan) = <<"restoreSets", "reserveSets">>
        BY <1>6, SMT
    <2>2. PlanStores(plan) = {"rules", "sets"} /\ PlanStores(Tail(plan)) = {"sets"}
        BY <1>6, <2>1, StoreOfSteps, SMT DEF PlanStores
    <2>3. Pending(plan, {"restoreSets"}) /\ Pending(plan, {"reserveSets"})
        BY <1>6, SMT DEF Pending
    <2>4. Pending(Tail(plan), {"restoreSets"}) /\ Pending(Tail(plan), {"reserveSets"})
        BY <1>6, SMT DEF Pending
    <2>5. Tail(plan) # <<>> => Tail(plan) \in UndoneTails
        BY <2>1 DEF UndoneTails
    <2>6. QED
        BY <1>6, <2>1, <2>2, <2>3, <2>4, <2>5 DEF UndonePlan, Stores
<1>7. QED
    BY <1>1, <1>2, <1>3, <1>4, <1>5, <1>6 DEF UndoneTails

\* The steps of switches and activations.
SweepPlan(op, plan) ==
    /\ plan # <<>>
    /\ Tail(plan) # <<>> => Tail(plan) \in Tails(op)
    /\ Head(plan) \in {"leave", "load", "settle"} => op = "switch"
    /\ Head(plan) \in {"clear", "mark"} => op = "activate"
    /\ Head(plan) = "leave" => Tail(plan) # <<>> /\ Head(Tail(plan)) = "load"
    /\ Head(plan) = "load" => Tail(plan) # <<>> /\ Head(Tail(plan)) = "plane"
    /\ Head(plan) = "plane" => Tail(plan) # <<>> /\ Head(Tail(plan)) = "alignSets"
    /\ Head(plan) = "alignSets" => Tail(plan) # <<>> /\ Head(Tail(plan)) = "alignRules"
    /\ Head(plan) = "alignRules" /\ Tail(plan) # <<>> => Head(Tail(plan)) \in {"settle", "clear"}
    /\ Head(plan) = "clear" => Tail(plan) # <<>> /\ Head(Tail(plan)) = "mark"
    /\ Head(plan) \in {"leave", "load", "plane", "alignSets", "alignRules", "settle", "clear", "mark"}

LEMMA SweepPlans == ASSUME NEW op \in Sweeps, NEW plan \in Tails(op) PROVE SweepPlan(op, plan)
<1>1. CASE op = "switch"
    <2>0. plan \in SwitchTails /\ Tails(op) = SwitchTails
        BY <1>1 DEF Tails, PackOps
    <2>1. CASE plan = <<"leave", "load", "plane", "alignSets", "alignRules", "settle">>
        <3>1. plan # <<>> /\ Head(plan) = "leave" /\ Tail(plan) = <<"load", "plane", "alignSets", "alignRules", "settle">>
            BY <2>1, SMT
        <3>2. Tail(plan) # <<>> /\ Head(Tail(plan)) = "load" /\ Tail(plan) \in Tails(op)
            BY <2>0, <3>1, SMT DEF SwitchTails
        <3>3. QED
            BY <1>1, <3>1, <3>2 DEF SweepPlan
    <2>2. CASE plan = <<"load", "plane", "alignSets", "alignRules", "settle">>
        <3>1. plan # <<>> /\ Head(plan) = "load" /\ Tail(plan) = <<"plane", "alignSets", "alignRules", "settle">>
            BY <2>2, SMT
        <3>2. Tail(plan) # <<>> /\ Head(Tail(plan)) = "plane" /\ Tail(plan) \in Tails(op)
            BY <2>0, <3>1, SMT DEF SwitchTails
        <3>3. QED
            BY <1>1, <3>1, <3>2 DEF SweepPlan
    <2>3. CASE plan = <<"plane", "alignSets", "alignRules", "settle">>
        <3>1. plan # <<>> /\ Head(plan) = "plane" /\ Tail(plan) = <<"alignSets", "alignRules", "settle">>
            BY <2>3, SMT
        <3>2. Tail(plan) # <<>> /\ Head(Tail(plan)) = "alignSets" /\ Tail(plan) \in Tails(op)
            BY <2>0, <3>1, SMT DEF SwitchTails
        <3>3. QED
            BY <1>1, <3>1, <3>2 DEF SweepPlan
    <2>4. CASE plan = <<"alignSets", "alignRules", "settle">>
        <3>1. plan # <<>> /\ Head(plan) = "alignSets" /\ Tail(plan) = <<"alignRules", "settle">>
            BY <2>4, SMT
        <3>2. Tail(plan) # <<>> /\ Head(Tail(plan)) = "alignRules" /\ Tail(plan) \in Tails(op)
            BY <2>0, <3>1, SMT DEF SwitchTails
        <3>3. QED
            BY <1>1, <3>1, <3>2 DEF SweepPlan
    <2>5. CASE plan = <<"alignRules", "settle">>
        <3>1. plan # <<>> /\ Head(plan) = "alignRules" /\ Tail(plan) = <<"settle">>
            BY <2>5, SMT
        <3>2. Tail(plan) # <<>> /\ Head(Tail(plan)) = "settle" /\ Tail(plan) \in Tails(op)
            BY <2>0, <3>1, SMT DEF SwitchTails
        <3>3. QED
            BY <1>1, <3>1, <3>2 DEF SweepPlan
    <2>6. CASE plan = <<"settle">>
        <3>1. plan # <<>> /\ Head(plan) = "settle" /\ Tail(plan) = <<>>
            BY <2>6, SMT
        <3>3. QED
            BY <1>1, <3>1 DEF SweepPlan
    <2>7. QED
        BY <2>0, <2>1, <2>2, <2>3, <2>4, <2>5, <2>6 DEF SwitchTails
<1>2. CASE op = "back"
    <2>0. plan \in BackTails /\ Tails(op) = BackTails
        BY <1>2 DEF Tails, PackOps
    <2>1. CASE plan = <<"plane", "alignSets", "alignRules">>
        <3>1. plan # <<>> /\ Head(plan) = "plane" /\ Tail(plan) = <<"alignSets", "alignRules">>
            BY <2>1, SMT
        <3>2. Tail(plan) # <<>> /\ Head(Tail(plan)) = "alignSets" /\ Tail(plan) \in Tails(op)
            BY <2>0, <3>1, SMT DEF BackTails
        <3>3. QED
            BY <1>2, <3>1, <3>2 DEF SweepPlan
    <2>2. CASE plan = <<"alignSets", "alignRules">>
        <3>1. plan # <<>> /\ Head(plan) = "alignSets" /\ Tail(plan) = <<"alignRules">>
            BY <2>2, SMT
        <3>2. Tail(plan) # <<>> /\ Head(Tail(plan)) = "alignRules" /\ Tail(plan) \in Tails(op)
            BY <2>0, <3>1, SMT DEF BackTails
        <3>3. QED
            BY <1>2, <3>1, <3>2 DEF SweepPlan
    <2>3. CASE plan = <<"alignRules">>
        <3>1. plan # <<>> /\ Head(plan) = "alignRules" /\ Tail(plan) = <<>>
            BY <2>3, SMT
        <3>3. QED
            BY <1>2, <3>1 DEF SweepPlan
    <2>4. QED
        BY <2>0, <2>1, <2>2, <2>3 DEF BackTails
<1>3. CASE op = "activate"
    <2>0. plan \in ActivateTails /\ Tails(op) = ActivateTails
        BY <1>3 DEF Tails, PackOps
    <2>1. CASE plan = <<"plane", "alignSets", "alignRules", "clear", "mark">>
        <3>1. plan # <<>> /\ Head(plan) = "plane" /\ Tail(plan) = <<"alignSets", "alignRules", "clear", "mark">>
            BY <2>1, SMT
        <3>2. Tail(plan) # <<>> /\ Head(Tail(plan)) = "alignSets" /\ Tail(plan) \in Tails(op)
            BY <2>0, <3>1, SMT DEF ActivateTails
        <3>3. QED
            BY <1>3, <3>1, <3>2 DEF SweepPlan
    <2>2. CASE plan = <<"alignSets", "alignRules", "clear", "mark">>
        <3>1. plan # <<>> /\ Head(plan) = "alignSets" /\ Tail(plan) = <<"alignRules", "clear", "mark">>
            BY <2>2, SMT
        <3>2. Tail(plan) # <<>> /\ Head(Tail(plan)) = "alignRules" /\ Tail(plan) \in Tails(op)
            BY <2>0, <3>1, SMT DEF ActivateTails
        <3>3. QED
            BY <1>3, <3>1, <3>2 DEF SweepPlan
    <2>3. CASE plan = <<"alignRules", "clear", "mark">>
        <3>1. plan # <<>> /\ Head(plan) = "alignRules" /\ Tail(plan) = <<"clear", "mark">>
            BY <2>3, SMT
        <3>2. Tail(plan) # <<>> /\ Head(Tail(plan)) = "clear"
            <4>1. <<"clear", "mark">> # <<>> /\ Head(<<"clear", "mark">>) = "clear"
                BY SMT
            <4>2. QED
                BY <3>1, <4>1, Zenon
        <3>3. Tail(plan) \in Tails(op)
            BY <2>0, <3>1, Zenon DEF ActivateTails
        <3>4. QED
            BY <1>3, <3>1, <3>2, <3>3 DEF SweepPlan
    <2>4. CASE plan = <<"clear", "mark">>
        <3>1. plan # <<>> /\ Head(plan) = "clear" /\ Tail(plan) = <<"mark">>
            BY <2>4, SMT
        <3>2. Tail(plan) # <<>> /\ Head(Tail(plan)) = "mark" /\ Tail(plan) \in Tails(op)
            BY <2>0, <3>1, SMT DEF ActivateTails
        <3>3. QED
            BY <1>3, <3>1, <3>2 DEF SweepPlan
    <2>5. CASE plan = <<"mark">>
        <3>1. plan # <<>> /\ Head(plan) = "mark" /\ Tail(plan) = <<>>
            BY <2>5, SMT
        <3>3. QED
            BY <1>3, <3>1 DEF SweepPlan
    <2>6. QED
        BY <2>0, <2>1, <2>2, <2>3, <2>4, <2>5 DEF ActivateTails
<1>4. QED
    BY <1>1, <1>2, <1>3 DEF Sweeps

\* A request has to do with no store but those its operation touches.
LEMMA HandsIn ==
    ASSUME NEW o, OpStation(o)
    PROVE  Hands(o) \subseteq Touches(o.op) /\ Touches(o.op) \subseteq Stores
<1>1. Touches(o.op) \subseteq Stores
    BY DEF Touches, Stores
<1>2. CASE o.op = "undone"
    <2>1. o.plan \in UndoneTails
        BY <1>2 DEF OpStation, Tails, PackOps
    <2>2. PlanStores(o.plan) \subseteq Stores
        BY <2>1, UndonePlans DEF UndonePlan
    <2>3. Touches(o.op) = Stores
        BY <1>2, PacksAssumption DEF Touches, Stores, PacksAssumption
    <2>4. QED
        BY <1>1, <1>2, <2>2, <2>3 DEF Hands
<1>3. QED
    BY <1>1, <1>2 DEF Hands

LEMMA AtRest == Hands(Resting) = {} /\ OpStation(Resting) /\ Resting.op \notin Sweeps /\ Resting.plan = <<>>
<1>1. Resting.op = Nil /\ Resting.plan = <<>>
    BY DEF Resting
<1>2. Touches(Nil) = {}
    BY PacksAssumption DEF Touches, PacksAssumption
<1>3. Tails(Nil) = {<<>>}
    BY PacksAssumption DEF Tails, PacksAssumption
<1>4. Nil \notin Sweeps \cup {"undone"}
    BY PacksAssumption DEF Sweeps, PacksAssumption
<1>5. OpStation(Resting)
    BY <1>1, <1>3, <1>4 DEF OpStation, IsOp, Resting, Operations, Sweeps
<1>6. QED
    BY <1>1, <1>2, <1>4, <1>5 DEF Hands

\* What a step of r owes the stores it has to do with.
Owed(r, o, p, slip) ==
    \A s \in Hands(ops[r]) \ (loose \cup slip) :
        IF o.plan # <<>> /\ s \in Hands(o) THEN Stage(o, p, s) ELSE Agree(p, s)
\* The other stores stay as they are.
Apart(r, p, slip) ==
    \A s \in Stores \ (Hands(ops[r]) \cup loose \cup slip) :
        p.mem[s] = policy.mem[s] /\ p.file[s] = policy.file[s] /\ p.held[s] = policy.held[s]
Orderly(r, o, p, slip) ==
    /\ ArePolicies(p)
    /\ o.plan # <<>> => /\ OpStation(o) /\ Hands(o) \subseteq Hands(ops[r])
                        /\ o.op \in Sweeps => ops[r].op \in Sweeps
    /\ Owed(r, o, p, slip) /\ Apart(r, p, slip)

LEMMA Advance ==
    ASSUME PackInv, NEW r \in PolicyRequest, NEW o, NEW p, NEW slip,
           Continue(r, o, p, slip), Orderly(r, o, p, slip)
    PROVE  PackInv'
<1>1. PICK mended : /\ mended = {s \in loose \ slip : o.plan = <<>> /\ Others(r, s) = {} /\ Agree(p, s)}
                    /\ policy' = p
                    /\ ops' = [ops EXCEPT ![r] = IF o.plan = <<>> THEN Resting ELSE o]
                    /\ loose' = (loose \cup slip) \ mended
    BY DEF Continue
<1>2. DOMAIN ops = PolicyRequest /\ DOMAIN ops' = PolicyRequest
    BY <1>1 DEF PackInv, OpTypes
<1>3. \A q \in PolicyRequest \ {r} : ops'[q] = ops[q]
    BY <1>1, <1>2
<1>4. ops'[r] = IF o.plan = <<>> THEN Resting ELSE o
    BY <1>1, <1>2
<1>5. OpTypes'
    <2>1. ArePolicies(policy)'
        BY <1>1 DEF Orderly, ArePolicies, IsPolicy
    <2>2. \A q \in PolicyRequest : OpStation(ops[q])
        BY DEF PackInv, OpTypes
    <2>3. \A q \in PolicyRequest : OpStation(ops'[q])
        BY <1>3, <1>4, <2>2, AtRest, Zenon DEF Orderly
    <2>4. \A q, u \in PolicyRequest : ops[q].op \in Sweeps /\ ops[u].op \in Sweeps => q = u
        BY DEF PackInv, OpTypes
    <2>5. ops'[r].op \in Sweeps => ops[r].op \in Sweeps
        BY <1>4, AtRest, Zenon DEF Orderly
    <2>6. \A q, u \in PolicyRequest : ops'[q].op \in Sweeps /\ ops'[u].op \in Sweeps => q = u
        BY <1>3, <2>4, <2>5, Zenon
    <2>7. QED
        BY <1>2, <2>1, <2>3, <2>6 DEF OpTypes, OpStation, IsOp, IsPolicy
<1>6. Hands(ops'[r]) \subseteq Hands(ops[r])
    BY <1>4, AtRest, Zenon DEF Orderly
<1>7. \A q \in PolicyRequest \ {r} : Hands(ops'[q]) = Hands(ops[q])
    BY <1>3
<1>8. ASSUME NEW s \in Stores \ loose'
      PROVE  StoreCourse(s)'
    <2>1. CASE s \in mended
        <3>1. o.plan = <<>> /\ Others(r, s) = {} /\ Agree(p, s)
            BY <1>1, <2>1
        <3>2. \A q \in PolicyRequest \ {r} : s \notin Hands(ops[q])
            BY <3>1, HandsIn DEF Others, PackInv, OpTypes
        <3>3. Hands(ops'[r]) = {}
            BY <1>4, <3>1, AtRest
        <3>4. \A q \in PolicyRequest : s \notin Hands(ops'[q])
            BY <1>7, <3>2, <3>3, Zenon
        <3>5. Agree(policy', s)
            BY <1>1, <3>1
        <3>6. QED
            BY <3>4, <3>5, Zenon DEF StoreCourse
    <2>2. CASE s \notin loose \cup slip
        <3>1. StoreCourse(s)
            BY <2>2 DEF PackInv
        <3>2. CASE s \in Hands(ops[r])
            <4>1. \A q \in PolicyRequest \ {r} : s \notin Hands(ops'[q])
                BY <1>7, <3>1, <3>2, Zenon DEF StoreCourse
            <4>2. IF o.plan # <<>> /\ s \in Hands(o) THEN Stage(o, p, s) ELSE Agree(p, s)
                BY <2>2, <3>2, Zenon DEF Orderly, Owed
            <4>3. CASE s \in Hands(ops'[r])
                <5>1. ops'[r] = o /\ o.plan # <<>>
                    BY <1>4, <4>3, AtRest, Zenon
                <5>2. Stage(ops'[r], policy', s)
                    BY <1>1, <4>2, <4>3, <5>1, Zenon
                <5>3. QED
                    BY <4>1, <4>3, <5>2, Zenon DEF StoreCourse
            <4>4. CASE s \notin Hands(ops'[r])
                <5>1. Agree(policy', s)
                    BY <1>1, <1>4, <4>2, <4>4, Zenon
                <5>2. QED
                    BY <4>1, <4>4, <5>1, Zenon DEF StoreCourse
            <4>5. QED
                BY <4>3, <4>4
        <3>3. CASE s \notin Hands(ops[r])
            <4>1. s \notin Hands(ops'[r])
                BY <1>6, <3>3
            <4>2. /\ policy'.mem[s] = policy.mem[s] /\ policy'.file[s] = policy.file[s]
                  /\ policy'.held[s] = policy.held[s]
                BY <1>1, <2>2, <3>3 DEF Orderly, Apart
            <4>3. Agree(policy, s) <=> Agree(policy', s)
                BY <4>2, StageBy
            <4>4. \A q \in PolicyRequest : Stage(ops[q], policy, s) <=> Stage(ops[q], policy', s)
                BY <4>2, StageBy
            <4>5. \A q \in PolicyRequest : s \in Hands(ops'[q]) => s \in Hands(ops[q]) /\ ops'[q] = ops[q]
                BY <1>3, <4>1, Zenon
            <4>6. \A q \in PolicyRequest : s \in Hands(ops[q]) <=> s \in Hands(ops'[q])
                BY <1>3, <3>3, <4>1, Zenon
            <4>7. QED
                BY <3>1, <4>3, <4>4, <4>5, <4>6, Zenon DEF StoreCourse
        <3>4. QED
            BY <3>2, <3>3
    <2>3. QED
        BY <1>1, <2>1, <2>2
<1>9. QED
    BY <1>5, <1>8 DEF PackInv

\* The plans of one change and one rebuild.
FirstOf(op) == IF op = "rule" THEN "edit" ELSE IF op = "set" THEN "import" ELSE op
LastOf(op) == IF op = "set" THEN "serveSets" ELSE "serveRules"
Editing == {"rule", "approve", "deny", "set"}
EditPlan(op, plan) ==
    /\ plan # <<>>
    /\ Head(plan) # LastOf(op) =>
          /\ Head(plan) = FirstOf(op)
          /\ Tail(plan) # <<>> /\ Tail(plan) \in Tails(op) /\ Head(Tail(plan)) = LastOf(op)
    /\ Head(plan) = LastOf(op) => Tail(plan) = <<>>
    /\ op = "rule" =>
          /\ Pending(plan, RuleEditing) <=> Head(plan) = "edit"
          /\ ~Pending(Tail(plan), RuleEditing)

LEMMA EditPlans == ASSUME NEW op \in Editing, NEW plan \in Tails(op) PROVE EditPlan(op, plan)
<1>1. Tails(op) = {<<FirstOf(op), LastOf(op)>>, <<LastOf(op)>>}
    BY DEF Tails, EditTails, FirstOf, LastOf, Editing
<1>2. FirstOf(op) # LastOf(op)
    BY DEF FirstOf, LastOf, Editing
<1>3. CASE plan = <<FirstOf(op), LastOf(op)>>
    <2>1. plan # <<>> /\ Head(plan) = FirstOf(op) /\ Tail(plan) = <<LastOf(op)>>
        BY <1>3, SMT
    <2>2. <<LastOf(op)>> # <<>> /\ Head(<<LastOf(op)>>) = LastOf(op)
        BY SMT
    <2>3. op = "rule" => Pending(plan, RuleEditing) /\ ~Pending(<<LastOf(op)>>, RuleEditing)
        BY <1>3, SMT DEF Pending, RuleEditing, FirstOf, LastOf
    <2>4. op = "rule" => FirstOf(op) = "edit"
        BY DEF FirstOf
    <2>5. QED
        BY <1>1, <1>2, <2>1, <2>2, <2>3, <2>4, Zenon DEF EditPlan
<1>4. CASE plan = <<LastOf(op)>>
    <2>1. plan # <<>> /\ Head(plan) = LastOf(op) /\ Tail(plan) = <<>>
        BY <1>4, SMT
    <2>2. op = "rule" => ~Pending(plan, RuleEditing) /\ ~Pending(<<>>, RuleEditing)
        BY <1>4, SMT DEF Pending, RuleEditing, LastOf
    <2>3. op = "rule" => LastOf(op) # "edit"
        BY DEF LastOf
    <2>4. QED
        BY <2>1, <2>2, <2>3, Zenon DEF EditPlan
<1>5. QED
    BY <1>1, <1>3, <1>4

\* What a request that is at work can be.
SweepKind(o) == o.op \in Sweeps /\ SweepPlan(o.op, o.plan)
UndoneKind(o) == o.op = "undone" /\ UndonePlan(o.plan)
PackKind(o) == o.op \in PackOps /\ PackPlan(o.op, o.plan)
EditKind(o) == o.op \in Editing /\ EditPlan(o.op, o.plan)
FileKind(o) == o.op = "request" /\ o.plan # <<>> /\ Head(o.plan) = "file" /\ Tail(o.plan) = <<>>

LEMMA Kinds ==
    ASSUME NEW o, OpStation(o), o.plan # <<>>
    PROVE  SweepKind(o) \/ UndoneKind(o) \/ PackKind(o) \/ EditKind(o) \/ FileKind(o)
<1>1. o.plan \in Tails(o.op) /\ o.op # Nil /\ o.op \in Operations
    BY AtRest DEF OpStation
<1>2. CASE o.op \in Sweeps
    BY <1>1, <1>2, SweepPlans DEF SweepKind
<1>3. CASE o.op = "undone"
    <2>1. o.plan \in UndoneTails
        BY <1>1, <1>3 DEF Tails, PackOps
    <2>2. QED
        BY <1>3, <2>1, UndonePlans DEF UndoneKind
<1>4. CASE o.op \in PackOps
    BY <1>1, <1>4, PackPlans DEF PackKind
<1>5. CASE o.op \in Editing
    BY <1>1, <1>5, EditPlans DEF EditKind
<1>6. CASE o.op = "request"
    <2>1. o.plan = <<"file">>
        BY <1>1, <1>6 DEF Tails, PackOps
    <2>2. Head(o.plan) = "file" /\ Tail(o.plan) = <<>>
        BY <2>1, SMT
    <2>3. QED
        BY <1>6, <2>2 DEF FileKind
<1>7. QED
    BY <1>1, <1>2, <1>3, <1>4, <1>5, <1>6 DEF Operations, Editing

\* The first step of a plan tells the operation.
RuleSteps == RuleEditing \cup {"approve", "deny", "file"}
Changes == RuleSteps \cup SetEditing
SweepSteps == {"leave", "load", "plane", "alignSets", "alignRules", "settle", "clear", "mark"}
LEMMA HeadsTell ==
    ASSUME NEW o, OpStation(o), o.plan # <<>>
    PROVE  /\ Head(o.plan) \in SweepSteps => SweepKind(o)
           /\ Head(o.plan) \in Changes => PackKind(o) \/ EditKind(o) \/ FileKind(o)
           /\ Head(o.plan) \in Serving => PackKind(o) \/ EditKind(o) \/ UndoneKind(o)
           /\ Head(o.plan) \in {"restoreRules", "restoreSets"} => UndoneKind(o)
<1>1. SweepKind(o) => Head(o.plan) \in SweepSteps
    BY DEF SweepKind, SweepPlan, SweepSteps
<1>2. UndoneKind(o) => Head(o.plan) \in {"restoreRules", "restoreSets", "reserveSets"}
    BY DEF UndoneKind, UndonePlan
<1>3. PackKind(o) => Head(o.plan) \in RuleEditing \cup SetEditing \cup {"passSets", "serveRules"}
    BY DEF PackKind, PackPlan
<1>4. EditKind(o) => Head(o.plan) \in {"edit", "import", "approve", "deny", "serveRules", "serveSets"}
    BY DEF EditKind, EditPlan, FirstOf, LastOf, Editing
<1>5. FileKind(o) => Head(o.plan) = "file"
    BY DEF FileKind
<1>6. QED
    BY <1>1, <1>2, <1>3, <1>4, <1>5, Kinds
    DEF SweepSteps, Changes, RuleSteps, RuleEditing, SetEditing, Serving

\* What a stage says, by the kind of the request.
LEMMA SweepStage ==
    ASSUME NEW o, NEW x, o.op \in Sweeps
    PROVE  /\ Hands(o) = Stores
           /\ Stage(o, x, "rules") <=>
                IF Head(o.plan) \in Aligning THEN x.held.rules = o.next.rules ELSE Agree(x, "rules")
           /\ Stage(o, x, "sets") <=>
                IF Head(o.plan) = "alignSets" THEN x.held.sets = o.next.sets ELSE Agree(x, "sets")
<1>1. Hands(o) = Stores
    BY PacksAssumption DEF Hands, Touches, Sweeps, Stores, PacksAssumption
<1>2. QED
    BY <1>1 DEF Stage, RulesAt, SetsAt, Sweeps, PackOps

LEMMA PackStage ==
    ASSUME NEW o, NEW x, o.op \in PackOps
    PROVE  /\ Hands(o) = Stores
           /\ Stage(o, x, "rules") <=>
                /\ KeptHeld(o, x, "rules")
                /\ IF Pending(o.plan, RuleEditing) THEN Agree(x, "rules")
                   ELSE Written(x, "rules") /\ o.list = x.mem.rules
           /\ Stage(o, x, "sets") <=>
                /\ Head(o.plan) # "serveRules" => KeptHeld(o, x, "sets")
                /\ IF Pending(o.plan, {"passSets"}) /\ ~Pending(o.plan, SetEditing)
                   THEN Written(x, "sets") ELSE Agree(x, "sets")
<1>1. Hands(o) = Stores
    BY PacksAssumption DEF Hands, Touches, PackOps, Stores, PacksAssumption
<1>2. QED
    BY <1>1 DEF Stage, RulesAt, SetsAt, PackOps

LEMMA EditStage ==
    ASSUME NEW o, NEW x, o.op \in Editing \cup {"request"}
    PROVE  /\ o.op # "set" => Hands(o) = {"rules"}
           /\ o.op = "set" => Hands(o) = {"sets"}
           /\ o.op \in {"approve", "deny", "request"} =>
                (Stage(o, x, "rules") <=>
                    IF Head(o.plan) = "serveRules" THEN Written(x, "rules") /\ o.list = x.mem.rules
                    ELSE Agree(x, "rules"))
           /\ o.op = "rule" =>
                (Stage(o, x, "rules") <=>
                    /\ KeptHeld(o, x, "rules")
                    /\ IF Pending(o.plan, RuleEditing) THEN Agree(x, "rules")
                       ELSE Written(x, "rules") /\ o.list = x.mem.rules)
           /\ o.op = "set" =>
                (Stage(o, x, "sets") <=>
                    /\ KeptHeld(o, x, "sets")
                    /\ IF Head(o.plan) = "import" THEN Agree(x, "sets")
                       ELSE Written(x, "sets") /\ o.list = x.mem.sets)
<1>1. o.op # "set" => Hands(o) = {"rules"}
    BY PacksAssumption DEF Hands, Touches, Editing, PacksAssumption
<1>2. o.op = "set" => Hands(o) = {"sets"}
    BY PacksAssumption DEF Hands, Touches, PacksAssumption
<1>3. QED
    BY <1>1, <1>2 DEF Stage, RulesAt, SetsAt, Editing, PackOps

LEMMA UndoneStage ==
    ASSUME NEW o, NEW x, o.op = "undone"
    PROVE  /\ Hands(o) = PlanStores(o.plan)
           /\ Stage(o, x, "rules") <=> KeptHeld(o, x, "rules")
           /\ Stage(o, x, "sets") <=>
                /\ Pending(o.plan, {"restoreSets"}) /\ ~Pending(o.plan, {"reserveSets"})
                    => KeptHeld(o, x, "sets")
                /\ ~Pending(o.plan, {"restoreSets"}) => Written(x, "sets") /\ x.mem.sets = o.prev.sets
BY DEF Hands, Stage, RulesAt, SetsAt, PackOps

LEMMA AtWork ==
    ASSUME PackInv, NEW r \in PolicyRequest
    PROVE  /\ OpStation(ops[r]) /\ IsOp(ops[r])
           /\ \A s \in Hands(ops[r]) \ loose : Stage(ops[r], policy, s)
           /\ ArePolicies(policy)
<1>1. OpStation(ops[r]) /\ ArePolicies(policy)
    BY DEF PackInv, OpTypes
<1>2. Hands(ops[r]) \subseteq Stores
    BY <1>1, HandsIn
<1>3. QED
    BY <1>1, <1>2 DEF PackInv, StoreCourse, OpStation

\* A step of a switch or an activation.
LEMMA SweepGoes ==
    ASSUME PackInv, NEW r \in PolicyRequest, SweepKind(ops[r]),
           NEW o, NEW p, NEW slip, Continue(r, o, p, slip), ArePolicies(p),
           o.op \in Sweeps, o.plan # <<>> => OpStation(o),
           \A s \in Stores \ (loose \cup slip) :
                IF o.plan # <<>> THEN Stage(o, p, s) ELSE Agree(p, s)
    PROVE  PackInv'
<1>1. ops[r].op \in Sweeps
    BY DEF SweepKind
<1>2. Hands(ops[r]) = Stores /\ Hands(o) = Stores
    BY <1>1, SweepStage
<1>3. Owed(r, o, p, slip)
    BY <1>2, Zenon DEF Owed
<1>4. Apart(r, p, slip)
    BY <1>2 DEF Apart
<1>5. QED
    BY <1>1, <1>2, <1>3, <1>4, Advance DEF Orderly

LEMMA SweepAt ==
    ASSUME PackInv, NEW r \in PolicyRequest, NEW step \in SweepSteps, At(r, step)
    PROVE  /\ SweepKind(ops[r]) /\ ops[r].op \in Sweeps /\ ops[r].plan # <<>> /\ Head(ops[r].plan) = step
           /\ OpStation(ops[r]) /\ IsOp(ops[r]) /\ ArePolicies(policy)
           /\ \A s \in Stores \ loose : Stage(ops[r], policy, s)
<1>1. OpStation(ops[r]) /\ IsOp(ops[r]) /\ ops[r].plan # <<>> /\ Head(ops[r].plan) = step
    BY AtWork DEF At
<1>2. SweepKind(ops[r]) /\ ops[r].op \in Sweeps
    BY <1>1, HeadsTell DEF SweepKind
<1>3. Hands(ops[r]) = Stores
    BY <1>2, SweepStage
<1>4. QED
    BY <1>1, <1>2, <1>3, AtWork

LEMMA StopServes ==
    ASSUME PackInv, NEW r \in PolicyRequest, NEW step \in SweepSteps \ Aligning, At(r, step), Stop(r)
    PROVE  PackInv'
<1>1. PICK o : o = [ops[r] EXCEPT !.plan = <<>>] /\ Continue(r, o, policy, {})
    BY DEF Stop
<1>2. o.op = ops[r].op /\ o.plan = <<>>
    BY <1>1, SweepAt DEF IsOp
<1>3. \A s \in Stores \ loose : Agree(policy, s)
    BY SweepAt, SweepStage DEF Stores, Aligning
<1>4. QED
    BY <1>1, <1>2, <1>3, SweepAt, SweepGoes

\* The steps that change nothing of the stores.
LEMMA ForthServes ==
    ASSUME PackInv, NEW r \in PolicyRequest, NEW step \in {"leave", "load", "clear"}, At(r, step),
           NEW o, IsOp(o), o.op = ops[r].op, o.plan = Tail(ops[r].plan),
           Continue(r, o, policy, {}),
           step = "load" => IsPolicy(o.next) /\ IsPolicy(o.prev),
           step = "clear" => o.next = ops[r].next
    PROVE  PackInv'
<1>1. step \in SweepSteps /\ SweepPlan(o.op, ops[r].plan) /\ Head(ops[r].plan) = step
    BY SweepAt DEF SweepSteps, SweepKind
<1>2. o.plan # <<>> /\ o.plan \in Tails(o.op)
    BY <1>1, SMT DEF SweepPlan
<1>3. Head(o.plan) = IF step = "leave" THEN "load" ELSE IF step = "load" THEN "plane" ELSE "mark"
    BY <1>1, SMT DEF SweepPlan
<1>4. /\ step \in {"leave", "load"} => o.op = "switch"
      /\ step = "clear" => o.op = "activate"
    BY <1>1, SMT DEF SweepPlan
<1>5. \A s \in Stores \ loose : Agree(policy, s)
    BY <1>1, SweepAt, SweepStage DEF Stores, Aligning
<1>6. OpStation(o)
    <2>1. step = "clear" => IsPolicy(o.next)
        <3>1. OpStation(ops[r])
            BY <1>1, SweepAt
        <3>2. QED
            BY <1>4, <3>1, Zenon DEF OpStation
    <2>2. o.op # Nil /\ o.op \in Operations
        BY <1>1, SweepAt, PacksAssumption DEF PacksAssumption, Operations, Sweeps
    <2>3. QED
        BY <1>2, <1>3, <1>4, <2>1, <2>2 DEF OpStation
<1>7. o.op \in Sweeps
    BY <1>1, SweepAt
<1>8. \A s \in Stores \ loose : Stage(o, policy, s)
    BY <1>3, <1>5, <1>7, SweepStage DEF Stores, Aligning
<1>9. QED
    BY <1>1, <1>2, <1>6, <1>7, <1>8, SweepAt, SweepGoes

LEMMA LeaveServes == ASSUME PackInv, NEW r \in PolicyRequest, Leave(r) PROVE PackInv'
<1>0. At(r, "leave")
    BY DEF Leave
<1>1. CASE Stop(r)
    BY <1>0, <1>1, StopServes DEF SweepSteps, Aligning
<1>2. CASE Forth(r, ops[r], policy)
    <2>1. PICK o : o = [ops[r] EXCEPT !.plan = Tail(@)] /\ Continue(r, o, policy, {})
        BY <1>2 DEF Forth
    <2>2. IsOp(ops[r])
        BY AtWork
    <2>3. IsOp(o) /\ o.op = ops[r].op /\ o.plan = Tail(ops[r].plan)
        BY <2>1, <2>2 DEF IsOp
    <2>4. QED
        BY <1>0, <2>1, <2>3, ForthServes
<1>3. QED
    BY <1>1, <1>2 DEF Leave

LEMMA LoadServes == ASSUME PackInv, NEW r \in PolicyRequest, Load(r) PROVE PackInv'
<1>0. At(r, "load")
    BY DEF Load
<1>1. CASE Stop(r)
    BY <1>0, <1>1, StopServes DEF SweepSteps, Aligning
<1>2. ASSUME NEW slot, Forth(r, [ops[r] EXCEPT !.next = Content(slot), !.prev = policy.mem,
                                               !.list = plane.nodes], policy)
      PROVE  PackInv'
    <2>1. PICK o : /\ o = [[ops[r] EXCEPT !.next = Content(slot), !.prev = policy.mem,
                                          !.list = plane.nodes] EXCEPT !.plan = Tail(@)]
                   /\ Continue(r, o, policy, {})
        BY <1>2 DEF Forth
    <2>0. IsOp(ops[r])
        BY AtWork
    <2>2. /\ IsOp(o) /\ o.op = ops[r].op /\ o.plan = Tail(ops[r].plan)
          /\ o.next = Content(slot) /\ o.prev = policy.mem
        BY <2>0, <2>1 DEF IsOp
    <2>3. IsPolicy(o.next) /\ IsPolicy(o.prev)
        BY <2>2, AtWork DEF IsPolicy, ArePolicies, Content
    <2>4. QED
        BY <1>0, <2>1, <2>2, <2>3, ForthServes
<1>3. QED
    BY <1>1, <1>2, Zenon DEF Load

LEMMA PlaneServes == ASSUME PackInv, NEW r \in PolicyRequest, Plane(r) PROVE PackInv'
<1>0. At(r, "plane") /\ "plane" \in SweepSteps \ Aligning
    BY DEF Plane, SweepSteps, Aligning
<1>1. CASE Stop(r)
    BY <1>0, <1>1, StopServes
<1>2. /\ SweepKind(ops[r]) /\ ops[r].op \in Sweeps /\ Head(ops[r].plan) = "plane"
      /\ OpStation(ops[r]) /\ IsOp(ops[r]) /\ ArePolicies(policy)
      /\ \A s \in Stores \ loose : Stage(ops[r], policy, s)
    BY <1>0, SweepAt
<1>3. CASE Forth(r, ops[r], [policy EXCEPT !.held = ops[r].next])
    <2>1. PICK o, p : /\ o = [ops[r] EXCEPT !.plan = Tail(@)]
                      /\ p = [policy EXCEPT !.held = ops[r].next] /\ Continue(r, o, p, {})
        BY <1>3 DEF Forth
    <2>2. IsOp(o) /\ o.op = ops[r].op /\ o.plan = Tail(ops[r].plan) /\ o.next = ops[r].next
        BY <1>2, <2>1 DEF IsOp
    <2>3. p.mem = policy.mem /\ p.file = policy.file /\ p.held = o.next
          /\ p = [mem |-> p.mem, file |-> p.file, held |-> p.held]
        BY <1>2, <2>1, <2>2 DEF ArePolicies
    <2>4. SweepPlan(o.op, ops[r].plan)
        BY <1>2, <2>2 DEF SweepKind
    <2>5. o.plan # <<>> /\ o.plan \in Tails(o.op) /\ Head(o.plan) = "alignSets"
        BY <1>2, <2>2, <2>4, SMT DEF SweepPlan
    <2>6. IsPolicy(o.next)
        BY <1>2, <2>2, SMT DEF OpStation, Sweeps
    <2>7. ArePolicies(p)
        BY <1>2, <2>3, <2>6 DEF ArePolicies
    <2>8. OpStation(o)
        <3>1. o.op # Nil /\ o.op \in Operations
            BY <1>2, <2>2, PacksAssumption DEF Operations, Sweeps, PacksAssumption
        <3>2. QED
            BY <2>2, <2>5, <2>6, <3>1 DEF OpStation
    <2>9. \A s \in Stores : Stage(o, p, s)
        BY <1>2, <2>2, <2>3, <2>5, SweepStage DEF Stores, Aligning
    <2>10. QED
        BY <1>2, <2>1, <2>2, <2>5, <2>7, <2>8, <2>9, SweepGoes
<1>4. CASE /\ ops[r].op = "switch"
           /\ Continue(r, [ops[r] EXCEPT !.op = "back", !.next = ops[r].prev, !.list = plane.nodes,
                             !.plan = <<"plane", "alignSets", "alignRules">>], policy, {})
    <2>1. PICK o : /\ o = [ops[r] EXCEPT !.op = "back", !.next = ops[r].prev, !.list = plane.nodes,
                             !.plan = <<"plane", "alignSets", "alignRules">>]
                   /\ Continue(r, o, policy, {})
        BY <1>4
    <2>2. IsOp(o) /\ o.op = "back" /\ o.plan = <<"plane", "alignSets", "alignRules">>
          /\ o.next = ops[r].prev
        BY <1>2, <2>1 DEF IsOp
    <2>3. o.plan # <<>> /\ Head(o.plan) = "plane"
        BY <2>2, SMT
    <2>4. o.plan \in Tails("back")
        <3>1. Tails("back") = BackTails
            BY DEF Tails, PackOps
        <3>2. QED
            BY <2>2, <3>1, Zenon DEF BackTails
    <2>5. IsPolicy(o.next)
        BY <1>2, <1>4, <2>2, SMT DEF OpStation
    <2>6. OpStation(o)
        BY <2>2, <2>4, <2>5, PacksAssumption DEF OpStation, Operations, Sweeps, PacksAssumption
    <2>7. o.op \in Sweeps
        BY <2>2 DEF Sweeps
    <2>8. \A s \in Stores \ loose : Stage(o, policy, s)
        BY <1>2, <2>3, <2>7, SweepStage DEF Stores, Aligning
    <2>9. QED
        BY <1>2, <2>1, <2>3, <2>6, <2>7, <2>8, SweepGoes
<1>5. QED
    BY <1>1, <1>3, <1>4 DEF Plane

\* One store is changed, and saved or not.
LEMMA SaveOne ==
    ASSUME ArePolicies(policy), NEW store \in Stores, NEW x, IsPolicy(x),
           NEW p, p = Saves(x, store) \/ p = [policy EXCEPT !.mem = x]
    PROVE  /\ ArePolicies(p) /\ p.held = policy.held /\ p.mem = x
           /\ \A s \in Stores \ {store} : p.file[s] = policy.file[s]
           /\ p = Saves(x, store) => p.file[store] = x[store]
<1>1. CASE p # Saves(x, store)
    BY <1>1 DEF ArePolicies
<1>2. CASE p = Saves(x, store)
    <2>1. PICK f : f = [policy.file EXCEPT ![store] = x[store]]
        OBVIOUS
    <2>2. p = [mem |-> x, file |-> f, held |-> policy.held]
        BY <1>2, <2>1 DEF Saves, ArePolicies
    <2>3. /\ IsPolicy(f) /\ f[store] = x[store]
          /\ \A s \in Stores \ {store} : f[s] = policy.file[s]
        BY <2>1 DEF ArePolicies, IsPolicy, Stores
    <2>4. QED
        BY <2>2, <2>3 DEF ArePolicies
<1>3. QED
    BY <1>1, <1>2

LEMMA AlignServes == ASSUME PackInv, NEW r \in PolicyRequest, Align(r) PROVE PackInv'
<1>1. PICK step \in Aligning : At(r, step)
    BY DEF Align, Aligning
<1>2. /\ SweepKind(ops[r]) /\ ops[r].op \in Sweeps /\ Head(ops[r].plan) = step
      /\ OpStation(ops[r]) /\ IsOp(ops[r]) /\ ArePolicies(policy)
      /\ \A s \in Stores \ loose : Stage(ops[r], policy, s)
    BY <1>1, SweepAt DEF Aligning, SweepSteps
<1>3. PICK store, x : /\ store = StoreOf(step)
                      /\ x = [policy.mem EXCEPT ![store] = ops[r].next[store]]
                      /\ \/ Forth(r, ops[r], Saves(x, store))
                         \/ Continue(r, [ops[r] EXCEPT !.plan = Tail(@)],
                                     [policy EXCEPT !.mem = x], {store})
    BY <1>2 DEF Align
<1>4. store = (IF step = "alignSets" THEN "sets" ELSE "rules") /\ store \in Stores
    BY <1>1, <1>3 DEF StoreOf, SetSteps, Stores, Aligning
<1>5. PICK o, p, slip : /\ o = [ops[r] EXCEPT !.plan = Tail(@)] /\ Continue(r, o, p, slip)
                        /\ \/ slip = {} /\ p = Saves(x, store)
                           \/ slip = {store} /\ p = [policy EXCEPT !.mem = x]
    BY <1>3 DEF Forth
<1>6. IsOp(o) /\ o.op = ops[r].op /\ o.plan = Tail(ops[r].plan) /\ o.next = ops[r].next
    BY <1>2, <1>5 DEF IsOp
<1>7. IsPolicy(x) /\ x[store] = o.next[store] /\ \A s \in Stores \ {store} : x[s] = policy.mem[s]
    BY <1>2, <1>3, <1>4, <1>6 DEF ArePolicies, IsPolicy, Stores
<1>8. /\ ArePolicies(p) /\ p.held = policy.held /\ p.mem = x
      /\ \A s \in Stores \ {store} : p.file[s] = policy.file[s]
      /\ slip = {} => p.file[store] = x[store]
    BY <1>2, <1>4, <1>5, <1>7, SaveOne
<1>10. SweepPlan(o.op, ops[r].plan)
    BY <1>2, <1>6 DEF SweepKind
<1>11. /\ o.plan # <<>> => o.plan \in Tails(o.op)
       /\ step = "alignSets" => o.plan # <<>> /\ Head(o.plan) = "alignRules"
       /\ step = "alignRules" /\ o.plan # <<>> => Head(o.plan) \in {"settle", "clear"}
    BY <1>2, <1>6, <1>10, SMT DEF SweepPlan
<1>12. IsPolicy(o.next)
    BY <1>1, <1>2, <1>6, SMT DEF OpStation, Sweeps, Aligning
<1>13. o.plan # <<>> => OpStation(o)
    <2>1. o.op # Nil /\ o.op \in Operations
        BY <1>2, <1>6, PacksAssumption DEF Operations, Sweeps, PacksAssumption
    <2>2. o.plan # <<>> => Head(o.plan) # "plane"
        BY <1>1, <1>11 DEF Aligning
    <2>3. QED
        BY <1>6, <1>11, <1>12, <2>1, <2>2 DEF OpStation
<1>14. ASSUME NEW s \in Stores \ (loose \cup slip)
       PROVE  IF o.plan # <<>> THEN Stage(o, p, s) ELSE Agree(p, s)
    <2>0. Stage(ops[r], policy, s)
        BY <1>2
    <2>1. CASE s = store
        <3>1. slip = {}
            BY <1>5, <2>1
        <3>2. policy.held[s] = o.next[s]
            BY <1>1, <1>2, <1>4, <1>6, <2>0, <2>1, SweepStage DEF Aligning
        <3>3. Agree(p, s)
            BY <1>7, <1>8, <2>1, <3>1, <3>2, AgreeBy
        <3>4. o.plan # <<>> => Head(o.plan) # "alignSets" /\ (s = "rules" => Head(o.plan) \notin Aligning)
            BY <1>1, <1>4, <1>11, <2>1 DEF Aligning
        <3>5. QED
            BY <1>2, <1>6, <3>3, <3>4, SweepStage DEF Stores
    <2>2. CASE s # store
        <3>1. p.mem[s] = policy.mem[s] /\ p.file[s] = policy.file[s] /\ p.held[s] = policy.held[s]
            BY <1>7, <1>8, <2>2
        <3>2. CASE step = "alignSets"
            <4>1. s = "rules" /\ policy.held.rules = o.next.rules
                BY <1>2, <1>4, <1>6, <2>0, <2>2, <3>2, SweepStage DEF Stores, Aligning
            <4>2. o.plan # <<>> /\ Head(o.plan) \in Aligning
                BY <1>11, <3>2 DEF Aligning
            <4>3. p.held.rules = o.next.rules
                BY <3>1, <4>1
            <4>4. QED
                BY <1>2, <1>6, <4>1, <4>2, <4>3, SweepStage
        <3>3. CASE step = "alignRules"
            <4>1. s = "sets" /\ Agree(policy, s)
                BY <1>2, <1>4, <2>0, <2>2, <3>3, SweepStage DEF Stores
            <4>2. Agree(p, s)
                BY <3>1, <4>1, StageBy
            <4>3. QED
                BY <1>2, <1>6, <1>11, <3>3, <4>1, <4>2, SweepStage
        <3>4. QED
            BY <1>1, <3>2, <3>3 DEF Aligning
    <2>3. QED
        BY <2>1, <2>2
<1>15. QED
    BY <1>2, <1>5, <1>6, <1>8, <1>13, <1>14, SweepGoes

LEMMA SettleServes == ASSUME PackInv, NEW r \in PolicyRequest, Settle(r) PROVE PackInv'
BY StopServes DEF Settle, SweepSteps, Aligning

LEMMA ClearServes == ASSUME PackInv, NEW r \in PolicyRequest, ClearSubs(r) PROVE PackInv'
<1>1. At(r, "clear")
    BY DEF ClearSubs
<1>2. PICK o : o = [ops[r] EXCEPT !.plan = Tail(@)] /\ Continue(r, o, policy, {})
    BY DEF ClearSubs, Forth
<1>0. IsOp(ops[r])
    BY AtWork
<1>3. IsOp(o) /\ o.op = ops[r].op /\ o.plan = Tail(ops[r].plan) /\ o.next = ops[r].next
    BY <1>0, <1>2 DEF IsOp
<1>4. QED
    BY <1>1, <1>2, <1>3, ForthServes

LEMMA MarkServes == ASSUME PackInv, NEW r \in PolicyRequest, MarkProfile(r) PROVE PackInv'
BY StopServes DEF MarkProfile, SweepSteps, Aligning

\* What a change may make of the stores.
LEMMA OutcomeOf ==
    ASSUME NEW o, NEW step, IsPolicy(policy.mem), NEW q \in Outcomes(o, step)
    PROVE  /\ step \in Changes /\ IsPolicy(q)
           /\ \A s \in Stores \ {StoreOf(step)} : q[s] = policy.mem[s]
<1>1. \/ step \in RuleSteps /\ \E l : q = Rules(l)
      \/ step \in SetEditing /\ \E l : q = Sets(l)
    BY DEF Outcomes, RuleSteps, RuleEditing, SetEditing
<1>2. CASE step \in RuleSteps /\ \E l : q = Rules(l)
    <2>1. PICK l : q = [policy.mem EXCEPT !.rules = l]
        BY <1>2 DEF Rules
    <2>2. StoreOf(step) = "rules"
        BY <1>2 DEF StoreOf, SetSteps, RuleSteps, RuleEditing
    <2>3. QED
        BY <1>2, <2>1, <2>2 DEF IsPolicy, Stores, Changes
<1>3. CASE step \in SetEditing /\ \E l : q = Sets(l)
    <2>1. PICK l : q = [policy.mem EXCEPT !.sets = l]
        BY <1>3 DEF Sets
    <2>2. StoreOf(step) = "sets"
        BY <1>3 DEF StoreOf, SetSteps, SetEditing
    <2>3. QED
        BY <1>3, <2>1, <2>2 DEF IsPolicy, Stores, Changes
<1>4. QED
    BY <1>1, <1>2, <1>3

\* A step that failed.
LEMMA FailsServes ==
    ASSUME PackInv, NEW r \in PolicyRequest, ops[r].plan # <<>>,
           NEW p, Fails(r, p), ArePolicies(p), p.held = policy.held, p.file = policy.file,
           NEW plan, plan = Recovery(ops[r].op, Head(ops[r].plan)),
           NEW store, store = StoreOf(Head(ops[r].plan)), store \in Hands(ops[r]),
           \A s \in Stores \ {store} : p.mem[s] = policy.mem[s],
           plan # <<>> => plan \in UndoneTails /\ PlanStores(plan) \subseteq Hands(ops[r]),
           "rules" \in PlanStores(plan) \ loose => KeptHeld(ops[r], policy, "rules"),
           "sets" \in PlanStores(plan) \ loose =>
                /\ Pending(plan, {"restoreSets"})
                /\ ~Pending(plan, {"reserveSets"}) => KeptHeld(ops[r], policy, "sets"),
           \A s \in Hands(ops[r]) \ (PlanStores(plan) \cup {store} \cup loose) : Agree(policy, s)
    PROVE  PackInv'
<1>1. PICK o, slip : /\ o = [ops[r] EXCEPT !.op = "undone", !.plan = plan]
                     /\ slip = {store} \ PlanStores(plan) /\ Continue(r, o, p, slip)
    BY DEF Fails, PlanStores
<1>2. OpStation(ops[r]) /\ IsOp(ops[r])
    BY AtWork
<1>3. IsOp(o) /\ o.op = "undone" /\ o.plan = plan /\ o.prev = ops[r].prev
    BY <1>1, <1>2 DEF IsOp
<1>4. plan # <<>> => OpStation(o)
    <2>1. Tails("undone") = UndoneTails
        BY DEF Tails, PackOps
    <2>2. "undone" # Nil
        BY PacksAssumption DEF PacksAssumption
    <2>3. QED
        BY <1>3, <2>1, <2>2 DEF OpStation, Operations
<1>5. Hands(o) = PlanStores(plan) /\ o.op \notin Sweeps
    BY <1>3 DEF Hands, Sweeps
<1>6. Hands(ops[r]) \subseteq Stores
    BY <1>2, HandsIn
<1>7. KeptHeld(o, p, "rules") <=> KeptHeld(ops[r], policy, "rules")
    BY <1>3 DEF KeptHeld
<1>8. KeptHeld(o, p, "sets") <=> KeptHeld(ops[r], policy, "sets")
    BY <1>3 DEF KeptHeld
<1>9. Owed(r, o, p, slip)
    <2>1. SUFFICES ASSUME NEW s \in Hands(ops[r]) \ (loose \cup slip)
                   PROVE  IF o.plan # <<>> /\ s \in Hands(o) THEN Stage(o, p, s) ELSE Agree(p, s)
        BY DEF Owed
    <2>2. CASE s \in PlanStores(plan)
        <3>1. plan # <<>>
            BY <2>2, StoresIn
        <3>2. s = "rules" => Stage(o, p, s)
            BY <1>3, <1>7, <2>2, UndoneStage
        <3>3. s = "sets" => Stage(o, p, s)
            BY <1>3, <1>8, <2>2, UndoneStage
        <3>4. QED
            BY <1>3, <1>5, <1>6, <2>2, <3>1, <3>2, <3>3 DEF Stores
    <2>3. CASE s \notin PlanStores(plan)
        <3>1. s # store
            BY <1>1, <2>3
        <3>2. Agree(policy, s)
            BY <2>3, <3>1
        <3>3. Agree(p, s)
            BY <1>6, <3>1, <3>2, StageBy
        <3>4. QED
            BY <1>5, <2>3, <3>3
    <2>4. QED
        BY <2>2, <2>3
<1>10. Apart(r, p, slip)
    BY DEF Apart
<1>11. QED
    BY <1>1, <1>3, <1>4, <1>5, <1>9, <1>10, Advance DEF Orderly

LEMMA RecoveryOfPacks ==
    ASSUME NEW o, PackKind(o), NEW plan, plan = Recovery(o.op, Head(o.plan))
    PROVE  /\ Head(o.plan) \in RuleEditing =>
                plan = IF o.op = "apply" THEN <<"restoreSets">> ELSE <<>>
           /\ Head(o.plan) \in SetEditing =>
                plan = IF o.op = "apply" THEN <<"restoreSets">> ELSE <<"restoreRules", "restoreSets">>
           /\ Head(o.plan) = "passSets" =>
                plan = IF o.op = "apply" THEN <<"restoreRules", "restoreSets">>
                       ELSE <<"restoreRules", "restoreSets", "reserveSets">>
           /\ Head(o.plan) = "serveRules" => plan = <<"restoreRules", "restoreSets", "reserveSets">>
<1>1. /\ o.op \in {"apply", "on", "off", "delete"}
      /\ Head(o.plan) \in RuleEditing \cup {"merge", "subtract", "withdraw"} \cup {"passSets", "serveRules"}
      /\ o.op = "apply" => Head(o.plan) \in {"merge", "replace", "passSets", "serveRules"}
    BY DEF PackKind, PackPlan, SetEditing, PackOps
<1>2. CASE Head(o.plan) \in RuleEditing
    BY <1>1, <1>2 DEF Recovery, PackOps, RuleEditing, SetEditing
<1>3. CASE Head(o.plan) \in SetEditing
    BY <1>1, <1>3 DEF Recovery, PackOps, RuleEditing, SetEditing
<1>4. CASE Head(o.plan) \in {"passSets", "serveRules"}
    BY <1>1, <1>4 DEF Recovery, PackOps, RuleEditing, SetEditing
<1>5. QED
    BY <1>1, <1>2, <1>3, <1>4 DEF SetEditing

LEMMA RecoveryOfEdits ==
    ASSUME NEW o, EditKind(o) \/ FileKind(o) \/ UndoneKind(o), NEW plan, plan = Recovery(o.op, Head(o.plan))
    PROVE  plan = IF o.op = "rule" /\ Head(o.plan) = "serveRules" THEN <<"restoreRules">>
                  ELSE IF o.op = "set" /\ Head(o.plan) = "serveSets" THEN <<"restoreSets">> ELSE <<>>
BY DEF EditKind, FileKind, UndoneKind, Editing, Recovery, PackOps

LEMMA RestorePlans ==
    /\ <<"restoreRules">> \in UndoneTails /\ <<"restoreSets">> \in UndoneTails
    /\ <<"restoreRules", "restoreSets">> \in UndoneTails
    /\ <<"restoreRules", "restoreSets", "reserveSets">> \in UndoneTails
    /\ PlanStores(<<>>) = {} /\ PlanStores(<<"restoreRules">>) = {"rules"}
    /\ PlanStores(<<"restoreSets">>) = {"sets"} /\ PlanStores(<<"restoreRules", "restoreSets">>) = Stores
    /\ PlanStores(<<"restoreRules", "restoreSets", "reserveSets">>) = Stores
    /\ Pending(<<"restoreSets">>, {"restoreSets"}) /\ Pending(<<"restoreRules", "restoreSets">>, {"restoreSets"})
    /\ Pending(<<"restoreRules", "restoreSets", "reserveSets">>, {"restoreSets"})
    /\ Pending(<<"restoreRules", "restoreSets", "reserveSets">>, {"reserveSets"})
<1>1. /\ PlanStores(<<>>) = {} /\ PlanStores(<<"restoreRules">>) = {"rules"}
      /\ PlanStores(<<"restoreSets">>) = {"sets"}
    BY StoreOfSteps, SMT DEF PlanStores
<1>5. PlanStores(<<"restoreRules", "restoreSets">>) = Stores
    BY StoreOfSteps, SMT DEF PlanStores, Stores
<1>6. PlanStores(<<"restoreRules", "restoreSets", "reserveSets">>) = Stores
    BY StoreOfSteps, SMT DEF PlanStores, Stores
<1>2. Pending(<<"restoreSets">>, {"restoreSets"}) /\ Pending(<<"restoreRules", "restoreSets">>, {"restoreSets"})
    BY SMT DEF Pending
<1>3. /\ Pending(<<"restoreRules", "restoreSets", "reserveSets">>, {"restoreSets"})
      /\ Pending(<<"restoreRules", "restoreSets", "reserveSets">>, {"reserveSets"})
    BY SMT DEF Pending
<1>4. QED
    BY <1>1, <1>2, <1>3, <1>5, <1>6 DEF UndoneTails

\* A step whose operation stays the same.
LEMMA SameStation ==
    ASSUME NEW o, NEW c, OpStation(o), IsOp(c), c.op = o.op, o.op \notin Sweeps, o.op # Nil,
           c.plan \in Tails(o.op)
    PROVE  OpStation(c)
BY DEF OpStation, Sweeps

LEMMA Plain ==
    ASSUME NEW o, PackKind(o) \/ EditKind(o) \/ FileKind(o) \/ UndoneKind(o)
    PROVE  o.op \notin Sweeps /\ o.op # Nil
BY PacksAssumption DEF PackKind, EditKind, FileKind, UndoneKind, PackOps, Editing, Sweeps, PacksAssumption

\* Which store an operation changes.
LEMMA ChangesOwn ==
    ASSUME NEW o, Head(o.plan) \in Changes, PackKind(o) \/ EditKind(o) \/ FileKind(o)
    PROVE  /\ StoreOf(Head(o.plan)) \in Hands(o) /\ Hands(o) \subseteq Stores
           /\ Head(o.plan) \in RuleSteps => StoreOf(Head(o.plan)) = "rules"
           /\ Head(o.plan) \in SetEditing => StoreOf(Head(o.plan)) = "sets"
           /\ EditKind(o) => Head(o.plan) = FirstOf(o.op) /\ Head(o.plan) # LastOf(o.op)
<1>1. /\ Head(o.plan) \in RuleSteps => StoreOf(Head(o.plan)) = "rules"
      /\ Head(o.plan) \in SetEditing => StoreOf(Head(o.plan)) = "sets"
    BY DEF StoreOf, SetSteps, RuleSteps, RuleEditing, SetEditing
<1>2. CASE PackKind(o)
    <2>1. Hands(o) = Stores
        BY <1>2, PackStage DEF PackKind
    <2>2. o.op \notin Editing
        BY <1>2 DEF PackKind, PackOps, Editing
    <2>3. QED
        BY <1>1, <2>1, <2>2 DEF Changes, Stores, EditKind
<1>3. CASE EditKind(o)
    <2>1. Head(o.plan) # LastOf(o.op)
        BY DEF Changes, RuleSteps, RuleEditing, SetEditing, LastOf
    <2>2. Head(o.plan) = FirstOf(o.op) /\ o.op \in Editing
        BY <1>3, <2>1 DEF EditKind, EditPlan
    <2>3. Hands(o) = IF o.op = "set" THEN {"sets"} ELSE {"rules"}
        BY <2>2, EditStage
    <2>4. o.op # "set" => Head(o.plan) \in RuleSteps
        BY <2>2 DEF FirstOf, Editing, RuleSteps, RuleEditing
    <2>5. o.op = "set" => Head(o.plan) \in SetEditing
        BY <2>2 DEF FirstOf, SetEditing
    <2>6. QED
        BY <1>1, <2>1, <2>2, <2>3, <2>4, <2>5 DEF Stores
<1>4. CASE FileKind(o)
    <2>1. o.op = "request" /\ Head(o.plan) = "file"
        BY <1>4 DEF FileKind
    <2>2. Hands(o) = {"rules"}
        BY <2>1, EditStage
    <2>3. o.op \notin Editing /\ Head(o.plan) \in RuleSteps
        BY <2>1 DEF Editing, RuleSteps
    <2>4. QED
        BY <1>1, <2>2, <2>3 DEF Stores, EditKind
<1>5. QED
    BY <1>2, <1>3, <1>4

LEMMA Owing ==
    ASSUME NEW r, NEW o, NEW p, NEW slip, Hands(o) = Stores, Hands(ops[r]) = Stores, o.plan # <<>>,
           "rules" \notin loose => Stage(o, p, "rules"), "sets" \notin loose => Stage(o, p, "sets")
    PROVE  Owed(r, o, p, slip)
BY DEF Owed, Stores

LEMMA ChangeDone ==
    ASSUME PackInv, NEW r \in PolicyRequest, ops[r].plan # <<>>,
           NEW step, step = Head(ops[r].plan), NEW store, store = StoreOf(step),
           NEW q \in Outcomes(ops[r], step),
           Continue(r, [ops[r] EXCEPT !.plan = Tail(@),
                                      !.list = IF step \in {"merge", "subtract", "withdraw"}
                                               THEN @ ELSE q[store]],
                    Saves(q, store), Overwrites(step, q))
    PROVE  PackInv'
<1>1. OpStation(ops[r]) /\ IsOp(ops[r]) /\ ArePolicies(policy)
    BY AtWork
<1>2. /\ step \in Changes /\ IsPolicy(q)
      /\ \A s \in Stores \ {store} : q[s] = policy.mem[s]
    BY <1>1, OutcomeOf DEF ArePolicies
<1>3. PackKind(ops[r]) \/ EditKind(ops[r]) \/ FileKind(ops[r])
    BY <1>1, <1>2, HeadsTell
<1>4. /\ store \in Hands(ops[r]) /\ Hands(ops[r]) \subseteq Stores
      /\ step \in RuleSteps => store = "rules"
      /\ step \in SetEditing => store = "sets"
      /\ EditKind(ops[r]) => step = FirstOf(ops[r].op) /\ step # LastOf(ops[r].op)
    BY <1>2, <1>3, ChangesOwn
<1>5. PICK o, p, slip :
            /\ o = [ops[r] EXCEPT !.plan = Tail(@),
                                  !.list = IF step \in {"merge", "subtract", "withdraw"}
                                           THEN @ ELSE q[store]]
            /\ p = Saves(q, store) /\ slip = Overwrites(step, q) /\ Continue(r, o, p, slip)
    OBVIOUS
<1>6. /\ IsOp(o) /\ o.op = ops[r].op /\ o.plan = Tail(ops[r].plan) /\ o.prev = ops[r].prev
      /\ o.list = IF step \in {"merge", "subtract", "withdraw"} THEN ops[r].list ELSE q[store]
    BY <1>1, <1>5 DEF IsOp
<1>7. /\ ArePolicies(p) /\ p.held = policy.held /\ p.mem = q /\ p.file[store] = q[store]
      /\ \A s \in Stores \ {store} : p.mem[s] = policy.mem[s] /\ p.file[s] = policy.file[s]
                                        /\ p.held[s] = policy.held[s]
    <2>1. store \in Stores
        BY <1>4
    <2>2. QED
        BY <1>1, <1>2, <1>5, <2>1, SaveOne
<1>8. Apart(r, p, slip)
    BY <1>4, <1>7 DEF Apart
<1>9. \A s : KeptHeld(o, p, s) <=> KeptHeld(ops[r], policy, s)
    BY <1>6, <1>7 DEF KeptHeld
<1>10. Written(p, store)
    BY <1>7 DEF Written
<1>11. o.op \notin Sweeps /\ o.op # Nil
    BY <1>3, <1>6, Plain
<1>12. \A s \in Hands(ops[r]) \ loose : Stage(ops[r], policy, s)
    BY AtWork
<1>13. CASE FileKind(ops[r])
    <2>1. ops[r].op = "request" /\ step = "file" /\ o.plan = <<>>
        BY <1>6, <1>13 DEF FileKind
    <2>2. Hands(ops[r]) = {"rules"} /\ store = "rules"
        BY <1>4, <2>1, EditStage
    <2>3. ASSUME "rules" \notin loose \cup slip
          PROVE  Agree(p, "rules")
        <3>1. InForce(q, "rules") = InForce(policy.mem, "rules")
            BY <1>5, <2>1, <2>3 DEF Overwrites
        <3>2. Agree(policy, "rules")
            BY <1>12, <2>1, <2>2, <2>3, EditStage
        <3>3. InForce(p.file, "rules") = InForce(q, "rules")
            BY <1>7, <2>2, InForceBy DEF Stores
        <3>4. QED
            BY <1>7, <3>1, <3>2, <3>3 DEF Agree
    <2>4. Owed(r, o, p, slip)
        BY <2>1, <2>2, <2>3 DEF Owed
    <2>5. QED
        BY <1>5, <1>7, <1>8, <2>1, <2>4, Advance DEF Orderly
<1>14. CASE EditKind(ops[r])
    <2>1. /\ step = FirstOf(ops[r].op) /\ ops[r].op \in Editing
          /\ o.plan # <<>> /\ o.plan \in Tails(o.op) /\ Head(o.plan) = LastOf(o.op)
          /\ o.op = "rule" => ~Pending(o.plan, RuleEditing)
        BY <1>4, <1>6, <1>14 DEF EditKind, EditPlan
    <2>2. OpStation(o)
        BY <1>1, <1>6, <1>11, <2>1, SameStation
    <2>3. o.list = q[store]
        BY <1>6, <2>1 DEF FirstOf, Editing
    <2>4. Hands(o) = Hands(ops[r])
        BY <1>6, <2>1, EditStage
    <2>5. Hands(ops[r]) = {store} /\ store = IF o.op = "set" THEN "sets" ELSE "rules"
        <3>1. Hands(ops[r]) = IF ops[r].op = "set" THEN {"sets"} ELSE {"rules"}
            BY <2>1, EditStage
        <3>2. QED
            BY <1>4, <1>6, <3>1
    <2>6. ASSUME store \notin loose
          PROVE  Stage(o, p, store)
        <3>1. Stage(ops[r], policy, store)
            BY <1>4, <1>12, <2>6
        <3>2. CASE o.op = "rule"
            <4>1. store = "rules" /\ KeptHeld(ops[r], policy, "rules")
                BY <1>6, <2>1, <2>5, <3>1, <3>2, EditStage
            <4>2. QED
                BY <1>6, <1>7, <1>9, <1>10, <2>1, <2>3, <3>2, <4>1, EditStage
        <3>3. CASE o.op = "set"
            <4>1. store = "sets" /\ KeptHeld(ops[r], policy, "sets")
                BY <1>6, <2>1, <2>5, <3>1, <3>3, EditStage
            <4>2. Head(o.plan) # "import"
                BY <2>1, <3>3 DEF LastOf
            <4>3. KeptHeld(o, p, "sets") /\ Written(p, "sets") /\ o.list = p.mem.sets
                BY <1>7, <1>9, <1>10, <2>3, <4>1
            <4>4. o.op \in Editing
                BY <3>3 DEF Editing
            <4>5. QED
                BY <3>3, <4>1, <4>2, <4>3, <4>4, EditStage
        <3>4. CASE o.op \in {"approve", "deny"}
            <4>1. store = "rules"
                BY <2>5, <3>4
            <4>2. Head(o.plan) = "serveRules"
                BY <2>1, <3>4 DEF LastOf
            <4>3. QED
                BY <1>6, <1>7, <1>10, <2>1, <2>3, <3>4, <4>1, <4>2, EditStage
        <3>5. QED
            BY <1>6, <2>1, <3>2, <3>3, <3>4 DEF Editing
    <2>7. Owed(r, o, p, slip)
        BY <2>1, <2>4, <2>5, <2>6 DEF Owed
    <2>8. QED
        BY <1>5, <1>7, <1>8, <1>11, <2>2, <2>4, <2>7, Advance DEF Orderly
<1>15. CASE PackKind(ops[r])
    <2>1. step \in RuleEditing \cup SetEditing
        BY <1>2, <1>15 DEF PackKind, PackPlan, Changes, RuleSteps, RuleEditing, SetEditing
    <2>2. PackPlan(o.op, ops[r].plan) /\ o.op \in PackOps
        BY <1>6, <1>15 DEF PackKind
    <2>3. step # "serveRules"
        BY <2>1 DEF RuleEditing, SetEditing
    <2>4. o.plan \in Tails(o.op) /\ o.plan # <<>>
        <3>1. o.plan \in Tails(o.op)
            BY <1>6, <2>2, <2>3 DEF PackPlan
        <3>2. QED
            BY <2>2, <3>1, PackPlans DEF PackPlan
    <2>5. Hands(o) = Stores /\ Hands(ops[r]) = Stores
        BY <1>6, <2>2, PackStage
    <2>6. OpStation(o)
        BY <1>1, <1>6, <1>11, <2>4, SameStation
    <2>7. \A s \in Stores \ loose : Stage(ops[r], policy, s)
        BY <1>12, <2>5
    <2>8. CASE step \in RuleEditing
        <3>1. store = "rules" /\ o.list = q.rules
            BY <1>4, <1>6, <2>8 DEF RuleSteps, RuleEditing
        <3>2. /\ ~Pending(o.plan, RuleEditing)
              /\ Pending(o.plan, SetEditing) <=> Pending(ops[r].plan, SetEditing)
              /\ Pending(o.plan, {"passSets"}) <=> Pending(ops[r].plan, {"passSets"})
            BY <1>6, <2>2, <2>8 DEF PackPlan
        <3>3. "rules" \notin loose => Stage(o, p, "rules")
            BY <1>6, <1>7, <1>9, <1>10, <2>2, <2>7, <3>1, <3>2, PackStage DEF Stores
        <3>4. "sets" \notin loose => Stage(o, p, "sets")
            <4>1. Agree(p, "sets") <=> Agree(policy, "sets")
                BY <1>7, <3>1, StageBy DEF Stores
            <4>2. Written(p, "sets") <=> Written(policy, "sets")
                BY <1>7, <3>1 DEF Stores, Written
            <4>3. QED
                BY <1>6, <1>9, <2>2, <2>3, <2>7, <3>2, <4>1, <4>2, PackStage DEF Stores
        <3>5. Owed(r, o, p, slip)
            BY <2>4, <2>5, <3>3, <3>4, Owing
        <3>6. QED
            BY <1>5, <1>7, <1>8, <1>11, <2>4, <2>5, <2>6, <3>5, Advance DEF Orderly
    <2>9. CASE step \in SetEditing
        <3>1. store = "sets" /\ o.list = ops[r].list
            <4>1. step \in {"merge", "subtract", "withdraw"}
                BY <1>15, <2>9 DEF PackKind, PackPlan, SetEditing, RuleEditing
            <4>2. QED
                BY <1>4, <1>6, <2>9, <4>1
        <3>2. /\ ~Pending(o.plan, SetEditing) /\ Pending(o.plan, {"passSets"})
              /\ Pending(o.plan, RuleEditing) <=> Pending(ops[r].plan, RuleEditing)
            BY <1>6, <2>2, <2>9 DEF PackPlan
        <3>3. "sets" \notin loose => Stage(o, p, "sets")
            BY <1>6, <1>9, <1>10, <2>2, <2>3, <2>7, <3>1, <3>2, PackStage DEF Stores
        <3>4. "rules" \notin loose => Stage(o, p, "rules")
            <4>1. Agree(p, "rules") <=> Agree(policy, "rules")
                BY <1>7, <3>1, StageBy DEF Stores
            <4>2. /\ Written(p, "rules") <=> Written(policy, "rules")
                  /\ p.mem.rules = policy.mem.rules
                BY <1>7, <3>1 DEF Stores, Written
            <4>3. QED
                BY <1>6, <1>9, <2>2, <2>7, <3>1, <3>2, <4>1, <4>2, PackStage DEF Stores
        <3>5. Owed(r, o, p, slip)
            BY <2>4, <2>5, <3>3, <3>4, Owing
        <3>6. QED
            BY <1>5, <1>7, <1>8, <1>11, <2>4, <2>5, <2>6, <3>5, Advance DEF Orderly
    <2>10. QED
        BY <2>1, <2>8, <2>9
<1>16. QED
    BY <1>3, <1>13, <1>14, <1>15

\* A pack whose step failed.
LEMMA PackFails ==
    ASSUME PackInv, NEW r \in PolicyRequest, ops[r].plan # <<>>, PackKind(ops[r]),
           NEW p, Fails(r, p), ArePolicies(p), p.held = policy.held, p.file = policy.file,
           NEW step, step = Head(ops[r].plan), NEW store \in Stores, store = StoreOf(step),
           step \in RuleEditing => store = "rules",
           step \in SetEditing => store = "sets",
           \A s \in Stores \ {store} : p.mem[s] = policy.mem[s]
    PROVE  PackInv'
<1>1. PICK plan : plan = Recovery(ops[r].op, step)
    OBVIOUS
<1>2. /\ step \in RuleEditing => plan = IF ops[r].op = "apply" THEN <<"restoreSets">> ELSE <<>>
      /\ step \in SetEditing =>
            plan = IF ops[r].op = "apply" THEN <<"restoreSets">> ELSE <<"restoreRules", "restoreSets">>
      /\ step = "passSets" =>
            plan = IF ops[r].op = "apply" THEN <<"restoreRules", "restoreSets">>
                   ELSE <<"restoreRules", "restoreSets", "reserveSets">>
      /\ step = "serveRules" => plan = <<"restoreRules", "restoreSets", "reserveSets">>
    BY <1>1, RecoveryOfPacks
<1>3. PackPlan(ops[r].op, ops[r].plan) /\ ops[r].op \in PackOps /\ Hands(ops[r]) = Stores
    BY PackStage DEF PackKind
<1>4. step \in RuleEditing \cup SetEditing \cup {"passSets", "serveRules"}
    BY <1>3 DEF PackPlan
<1>5. "rules" \notin loose => KeptHeld(ops[r], policy, "rules")
    <2>1. "rules" \notin loose => Stage(ops[r], policy, "rules")
        BY <1>3, AtWork DEF Stores
    <2>2. QED
        BY <1>3, <2>1, PackStage
<1>6. "sets" \notin loose => /\ step # "serveRules" => KeptHeld(ops[r], policy, "sets")
                             /\ IF Pending(ops[r].plan, {"passSets"}) /\ ~Pending(ops[r].plan, SetEditing)
                                THEN Written(policy, "sets") ELSE Agree(policy, "sets")
    <2>1. "sets" \notin loose => Stage(ops[r], policy, "sets")
        BY <1>3, AtWork DEF Stores
    <2>2. QED
        BY <1>3, <2>1, PackStage
<1>7. CASE step \in RuleEditing
    <2>1. store = "rules" /\ step # "serveRules"
        BY <1>7 DEF RuleEditing
    <2>2. CASE ops[r].op = "apply"
        <3>1. plan = <<"restoreSets">> /\ PlanStores(plan) = {"sets"} /\ Pending(plan, {"restoreSets"})
              /\ plan \in UndoneTails
            BY <1>2, <1>7, <2>2, RestorePlans
        <3>2. QED
            BY <1>1, <1>3, <1>6, <2>1, <3>1, FailsServes DEF Stores
    <2>3. CASE ops[r].op # "apply"
        <3>1. plan = <<>> /\ PlanStores(plan) = {}
            BY <1>2, <1>7, <2>3, RestorePlans
        <3>2. "sets" \notin loose => Agree(policy, "sets")
            <4>1. Pending(ops[r].plan, {"passSets"}) => Pending(ops[r].plan, SetEditing)
                BY <1>3, <1>7, <2>3 DEF PackPlan
            <4>2. QED
                BY <1>6, <4>1
        <3>3. QED
            BY <1>1, <1>3, <2>1, <3>1, <3>2, FailsServes DEF Stores
    <2>4. QED
        BY <2>2, <2>3
<1>8. CASE step \in SetEditing
    <2>1. store = "sets" /\ step # "serveRules"
        BY <1>8 DEF SetEditing
    <2>2. CASE ops[r].op = "apply"
        <3>1. plan = <<"restoreSets">> /\ PlanStores(plan) = {"sets"} /\ Pending(plan, {"restoreSets"})
              /\ plan \in UndoneTails
            BY <1>2, <1>8, <2>2, RestorePlans
        <3>2. "rules" \notin loose => Agree(policy, "rules")
            <4>1. Pending(ops[r].plan, RuleEditing)
                BY <1>3, <1>8, <2>2 DEF PackPlan
            <4>2. "rules" \notin loose => Stage(ops[r], policy, "rules")
                BY <1>3, AtWork DEF Stores
            <4>3. QED
                BY <1>3, <4>1, <4>2, PackStage
        <3>3. QED
            BY <1>1, <1>3, <1>6, <2>1, <3>1, <3>2, FailsServes DEF Stores
    <2>3. CASE ops[r].op # "apply"
        <3>1. plan \in UndoneTails /\ PlanStores(plan) = Stores /\ Pending(plan, {"restoreSets"})
            BY <1>2, <1>8, <2>3, RestorePlans
        <3>2. QED
            BY <1>1, <1>3, <1>5, <1>6, <2>1, <3>1, FailsServes DEF Stores
    <2>4. QED
        BY <2>2, <2>3
<1>9. CASE step \in {"passSets", "serveRules"}
    <2>1. /\ plan \in UndoneTails /\ PlanStores(plan) = Stores /\ Pending(plan, {"restoreSets"})
          /\ step = "serveRules" => Pending(plan, {"reserveSets"})
        BY <1>2, <1>9, RestorePlans
    <2>2. QED
        BY <1>1, <1>3, <1>5, <1>6, <2>1, FailsServes DEF Stores
<1>10. QED
    BY <1>4, <1>7, <1>8, <1>9

\* One of the other requests whose step failed.
LEMMA EditFails ==
    ASSUME PackInv, NEW r \in PolicyRequest, ops[r].plan # <<>>,
           EditKind(ops[r]) \/ FileKind(ops[r]) \/ UndoneKind(ops[r]),
           NEW p, Fails(r, p), ArePolicies(p), p.held = policy.held, p.file = policy.file,
           NEW step, step = Head(ops[r].plan), NEW store \in Stores, store = StoreOf(step),
           Hands(ops[r]) = {store},
           \A s \in Stores \ {store} : p.mem[s] = policy.mem[s]
    PROVE  PackInv'
<1>1. PICK plan : plan = Recovery(ops[r].op, step)
    OBVIOUS
<1>2. plan = IF ops[r].op = "rule" /\ step = "serveRules" THEN <<"restoreRules">>
             ELSE IF ops[r].op = "set" /\ step = "serveSets" THEN <<"restoreSets">> ELSE <<>>
    BY <1>1, RecoveryOfEdits
<1>3. CASE plan = <<>>
    BY <1>1, <1>3, RestorePlans, FailsServes
<1>4. CASE ops[r].op = "rule" /\ plan = <<"restoreRules">>
    <2>1. plan \in UndoneTails /\ PlanStores(plan) = {"rules"}
        BY <1>4, RestorePlans
    <2>2. Hands(ops[r]) = {"rules"} /\ store = "rules"
        BY <1>4, EditStage DEF Editing
    <2>3. "rules" \notin loose => KeptHeld(ops[r], policy, "rules")
        BY <1>4, <2>2, AtWork, EditStage DEF Editing
    <2>4. QED
        BY <1>1, <2>1, <2>2, <2>3, FailsServes
<1>5. CASE ops[r].op = "set" /\ plan = <<"restoreSets">>
    <2>1. plan \in UndoneTails /\ PlanStores(plan) = {"sets"} /\ Pending(plan, {"restoreSets"})
        BY <1>5, RestorePlans
    <2>2. Hands(ops[r]) = {"sets"} /\ store = "sets"
        BY <1>5, EditStage DEF Editing
    <2>3. "sets" \notin loose => KeptHeld(ops[r], policy, "sets")
        BY <1>5, <2>2, AtWork, EditStage DEF Editing
    <2>4. QED
        BY <1>1, <2>1, <2>2, <2>3, FailsServes
<1>6. QED
    BY <1>2, <1>3, <1>4, <1>5

LEMMA OwnStore ==
    ASSUME NEW o, EditKind(o) \/ FileKind(o), Head(o.plan) \in Changes \cup Serving
    PROVE  /\ Hands(o) = {StoreOf(Head(o.plan))} /\ StoreOf(Head(o.plan)) \in Stores
           /\ Head(o.plan) \in Serving => EditKind(o) /\ Head(o.plan) = LastOf(o.op) /\ Tail(o.plan) = <<>>
<1>1. CASE EditKind(o)
    <2>1. o.op \in Editing /\ Head(o.plan) \in {FirstOf(o.op), LastOf(o.op)}
          /\ (Head(o.plan) = LastOf(o.op) => Tail(o.plan) = <<>>)
        BY <1>1 DEF EditKind, EditPlan
    <2>2. Hands(o) = IF o.op = "set" THEN {"sets"} ELSE {"rules"}
        BY <2>1, EditStage
    <2>3. StoreOf(Head(o.plan)) = IF o.op = "set" THEN "sets" ELSE "rules"
        BY <2>1 DEF StoreOf, SetSteps, FirstOf, LastOf, Editing
    <2>4. FirstOf(o.op) \notin Serving
        BY <2>1 DEF FirstOf, Editing, Serving
    <2>5. QED
        BY <1>1, <2>1, <2>2, <2>3, <2>4 DEF Stores
<1>2. CASE FileKind(o)
    <2>1. o.op = "request" /\ Head(o.plan) = "file"
        BY <1>2 DEF FileKind
    <2>2. Hands(o) = {"rules"}
        BY <2>1, EditStage
    <2>3. QED
        BY <2>1, <2>2 DEF StoreOf, SetSteps, Stores, Serving
<1>3. QED
    BY <1>1, <1>2

LEMMA ChangeFails ==
    ASSUME PackInv, NEW r \in PolicyRequest, ops[r].plan # <<>>,
           NEW q \in Outcomes(ops[r], Head(ops[r].plan)), Fails(r, [policy EXCEPT !.mem = q])
    PROVE  PackInv'
<1>1. PICK step, store : step = Head(ops[r].plan) /\ store = StoreOf(step)
    OBVIOUS
<1>0. PICK p : p = [policy EXCEPT !.mem = q]
    OBVIOUS
<1>2. OpStation(ops[r]) /\ ArePolicies(policy)
    BY AtWork
<1>3. /\ step \in Changes /\ IsPolicy(q)
      /\ \A s \in Stores \ {store} : q[s] = policy.mem[s]
    BY <1>1, <1>2, OutcomeOf DEF ArePolicies
<1>4. PackKind(ops[r]) \/ EditKind(ops[r]) \/ FileKind(ops[r])
    BY <1>1, <1>2, <1>3, HeadsTell
<1>5. /\ store \in Stores
      /\ step \in RuleSteps => store = "rules"
      /\ step \in SetEditing => store = "sets"
    BY <1>1, <1>3, <1>4, ChangesOwn
<1>6. ArePolicies(p) /\ p.mem = q /\ p.held = policy.held /\ p.file = policy.file
    BY <1>0, <1>2, <1>3 DEF ArePolicies
<1>10. Fails(r, p) /\ \A s \in Stores \ {store} : p.mem[s] = policy.mem[s]
    BY <1>0, <1>3, <1>6
<1>11. step \in RuleEditing => store = "rules"
    BY <1>5 DEF RuleSteps
<1>7. CASE PackKind(ops[r])
    BY <1>1, <1>5, <1>6, <1>7, <1>10, <1>11, PackFails
<1>8. CASE EditKind(ops[r]) \/ FileKind(ops[r])
    <2>1. Hands(ops[r]) = {store}
        BY <1>1, <1>3, <1>8, OwnStore
    <2>2. QED
        BY <1>1, <1>5, <1>6, <1>8, <1>10, <2>1, EditFails
<1>9. QED
    BY <1>4, <1>7, <1>8

LEMMA ChangeServes == ASSUME PackInv, NEW r \in PolicyRequest, Change(r) PROVE PackInv'
<1>1. ops[r].plan # <<>>
    BY DEF Change
<1>2. ASSUME NEW q \in Outcomes(ops[r], Head(ops[r].plan)),
             Continue(r, [ops[r] EXCEPT !.plan = Tail(@),
                                        !.list = IF Head(ops[r].plan) \in {"merge", "subtract", "withdraw"}
                                                 THEN @ ELSE q[StoreOf(Head(ops[r].plan))]],
                      Saves(q, StoreOf(Head(ops[r].plan))), Overwrites(Head(ops[r].plan), q))
      PROVE  PackInv'
    BY <1>1, <1>2, ChangeDone
<1>3. ASSUME NEW q \in Outcomes(ops[r], Head(ops[r].plan)), Fails(r, [policy EXCEPT !.mem = q])
      PROVE  PackInv'
    BY <1>1, <1>3, ChangeFails
<1>4. CASE Head(ops[r].plan) = "approve" /\ Continue(r, [ops[r] EXCEPT !.plan = <<>>], policy, {})
    <2>1. OpStation(ops[r]) /\ IsOp(ops[r]) /\ ArePolicies(policy)
        BY AtWork
    <2>2. PackKind(ops[r]) \/ EditKind(ops[r]) \/ FileKind(ops[r])
        BY <1>1, <1>4, <2>1, HeadsTell DEF Changes, RuleSteps
    <2>3. EditKind(ops[r])
        BY <1>4, <2>2 DEF PackKind, PackPlan, FileKind, RuleEditing, SetEditing
    <2>4. ops[r].op = "approve"
        BY <1>4, <2>3 DEF EditKind, EditPlan, FirstOf, LastOf, Editing
    <2>5. Hands(ops[r]) = {"rules"}
        BY <2>4, EditStage DEF Editing
    <2>6. "rules" \notin loose => Agree(policy, "rules")
        BY <1>4, <2>4, <2>5, AtWork, EditStage DEF Editing
    <2>7. PICK o : o = [ops[r] EXCEPT !.plan = <<>>] /\ Continue(r, o, policy, {})
        BY <1>4
    <2>8. o.plan = <<>>
        BY <2>1, <2>7 DEF IsOp
    <2>9. Owed(r, o, policy, {}) /\ Apart(r, policy, {})
        BY <2>5, <2>6, <2>8 DEF Owed, Apart
    <2>10. QED
        BY <2>1, <2>7, <2>8, <2>9, Advance DEF Orderly
<1>5. QED
    BY <1>2, <1>3, <1>4, Zenon DEF Change

LEMMA EditReady ==
    ASSUME NEW o, NEW x, EditKind(o), Head(o.plan) = LastOf(o.op), NEW store, Hands(o) = {store},
           Stage(o, x, store)
    PROVE  Written(x, store) /\ o.list = x.mem[store]
<1>1. o.op \in Editing /\ EditPlan(o.op, o.plan)
    BY DEF EditKind
<1>2. CASE o.op = "rule"
    <2>1. store = "rules" /\ ~Pending(o.plan, RuleEditing)
        BY <1>1, <1>2, EditStage DEF EditPlan, LastOf
    <2>2. QED
        BY <1>1, <1>2, <2>1, EditStage
<1>3. CASE o.op = "set"
    <2>1. store = "sets" /\ Head(o.plan) # "import"
        BY <1>1, <1>3, EditStage DEF LastOf
    <2>2. QED
        BY <1>1, <1>3, <2>1, EditStage
<1>4. CASE o.op \in {"approve", "deny"}
    <2>1. store = "rules" /\ Head(o.plan) = "serveRules"
        BY <1>1, <1>4, EditStage DEF LastOf
    <2>2. QED
        BY <1>1, <1>4, <2>1, EditStage
<1>5. QED
    BY <1>1, <1>2, <1>3, <1>4 DEF Editing

LEMMA ServeDone ==
    ASSUME PackInv, NEW r \in PolicyRequest, ops[r].plan # <<>>,
           NEW step \in Serving, step = Head(ops[r].plan), NEW store, store = StoreOf(step),
           NEW list, list = CASE step = "passSets" -> policy.mem.sets
                              [] step = "reserveSets" -> ops[r].prev.sets
                              [] OTHER -> ops[r].list,
           Continue(r, [ops[r] EXCEPT !.plan = Tail(@)],
                    [policy EXCEPT !.held = [@ EXCEPT ![store] = list]], {})
    PROVE  PackInv'
<1>1. OpStation(ops[r]) /\ IsOp(ops[r]) /\ ArePolicies(policy)
      /\ \A s \in Hands(ops[r]) \ loose : Stage(ops[r], policy, s)
    BY AtWork
<1>2. PICK o, p : /\ o = [ops[r] EXCEPT !.plan = Tail(@)]
                  /\ p = [policy EXCEPT !.held = [@ EXCEPT ![store] = list]]
                  /\ Continue(r, o, p, {})
    OBVIOUS
<1>3. /\ IsOp(o) /\ o.op = ops[r].op /\ o.plan = Tail(ops[r].plan) /\ o.prev = ops[r].prev
      /\ o.list = ops[r].list
    BY <1>1, <1>2 DEF IsOp
<1>4. store \in Stores
    BY DEF StoreOf, Stores
<1>5. PICK h : h = [policy.held EXCEPT ![store] = list]
    OBVIOUS
<1>6. p = [mem |-> policy.mem, file |-> policy.file, held |-> h]
    BY <1>1, <1>2, <1>5 DEF ArePolicies
<1>7. IsPolicy(h) /\ h[store] = list /\ \A s \in Stores \ {store} : h[s] = policy.held[s]
    BY <1>1, <1>4, <1>5 DEF ArePolicies, IsPolicy, Stores
<1>8. /\ ArePolicies(p) /\ p.mem = policy.mem /\ p.file = policy.file /\ p.held[store] = list
      /\ \A s \in Stores \ {store} : p.held[s] = policy.held[s]
    BY <1>1, <1>6, <1>7 DEF ArePolicies
<1>9. ASSUME Written(policy, store), list = policy.mem[store]
      PROVE  Agree(p, store)
    BY <1>4, <1>8, <1>9, AgreeBy DEF Written
<1>10. \A s \in Stores \ {store} : Agree(p, s) <=> Agree(policy, s)
    BY <1>8, StageBy
<1>11. PackKind(ops[r]) \/ EditKind(ops[r]) \/ UndoneKind(ops[r])
    BY <1>1, HeadsTell
<1>12. CASE EditKind(ops[r])
    <2>1. Hands(ops[r]) = {store} /\ step = LastOf(ops[r].op) /\ o.plan = <<>>
        BY <1>3, <1>12, OwnStore
    <2>2. step \notin {"passSets", "reserveSets"}
        BY <2>1 DEF LastOf
    <2>3. store \notin loose => Agree(p, store)
        <3>1. list = ops[r].list
            BY <2>2
        <3>2. store \notin loose => Written(policy, store) /\ ops[r].list = policy.mem[store]
            <4>1. store \notin loose => Stage(ops[r], policy, store)
                BY <1>1, <2>1
            <4>2. Head(ops[r].plan) = LastOf(ops[r].op)
                BY <2>1
            <4>3. QED
                BY <1>12, <2>1, <4>1, <4>2, EditReady
        <3>3. QED
            BY <1>9, <3>1, <3>2
    <2>4. Owed(r, o, p, {}) /\ Apart(r, p, {})
        BY <1>8, <2>1, <2>3 DEF Owed, Apart
    <2>5. QED
        BY <1>2, <1>8, <2>1, <2>4, Advance DEF Orderly
<1>13. CASE UndoneKind(ops[r])
    <2>1. step = "reserveSets" /\ UndonePlan(ops[r].plan) /\ ops[r].op = "undone"
        BY <1>13 DEF UndoneKind, UndonePlan, Serving
    <2>2. /\ PlanStores(ops[r].plan) = {"sets"} /\ o.plan = <<>>
          /\ ~Pending(ops[r].plan, {"restoreSets"})
        BY <1>3, <2>1 DEF UndonePlan
    <2>3. Hands(ops[r]) = {"sets"} /\ store = "sets"
        BY <2>1, <2>2, UndoneStage, StoreOfSteps
    <2>4. "sets" \notin loose => Agree(p, "sets")
        <3>1. list = ops[r].prev.sets
            BY <2>1
        <3>2. "sets" \notin loose => Written(policy, "sets") /\ policy.mem.sets = ops[r].prev.sets
            BY <1>1, <2>1, <2>2, <2>3, UndoneStage
        <3>3. QED
            BY <1>9, <2>3, <3>1, <3>2
    <2>5. Owed(r, o, p, {}) /\ Apart(r, p, {})
        BY <1>8, <2>2, <2>3, <2>4 DEF Owed, Apart
    <2>6. QED
        BY <1>2, <1>8, <2>2, <2>5, Advance DEF Orderly
<1>14. CASE PackKind(ops[r])
    <2>1. PackPlan(o.op, ops[r].plan) /\ o.op \in PackOps /\ Hands(ops[r]) = Stores /\ Hands(o) = Stores
        BY <1>3, <1>14, PackStage DEF PackKind
    <2>2. step \in {"passSets", "serveRules"}
        BY <1>14 DEF PackKind, PackPlan, RuleEditing, SetEditing, Serving
    <2>3. \A s \in Stores \ loose : Stage(ops[r], policy, s)
        BY <1>1, <2>1
    <2>4. /\ ~Pending(ops[r].plan, RuleEditing) /\ ~Pending(ops[r].plan, SetEditing)
          /\ Pending(ops[r].plan, {"passSets"}) <=> step = "passSets"
        BY <2>1, <2>2 DEF PackPlan
    <2>5. CASE step = "passSets"
        <3>1. store = "sets" /\ list = policy.mem.sets
            BY <2>5 DEF StoreOf, SetSteps
        <3>2. o.plan = <<"serveRules">> /\ o.plan \in Tails(o.op)
            BY <1>3, <2>1, <2>5 DEF PackPlan
        <3>3. /\ o.plan # <<>> /\ Head(o.plan) = "serveRules" /\ ~Pending(o.plan, RuleEditing)
              /\ ~Pending(o.plan, {"passSets"})
            BY <3>2, SMT DEF Pending, RuleEditing
        <3>4. OpStation(o)
            BY <1>1, <1>3, <1>14, <3>2, Plain, SameStation
        <3>5. "sets" \notin loose => Stage(o, p, "sets")
            <4>1. "sets" \notin loose => Written(policy, "sets")
                BY <1>3, <2>1, <2>3, <2>4, <2>5, PackStage DEF Stores
            <4>2. "sets" \notin loose => Agree(p, "sets")
                BY <1>9, <3>1, <4>1
            <4>3. QED
                BY <2>1, <3>3, <4>2, PackStage
        <3>6. "rules" \notin loose => Stage(o, p, "rules")
            <4>1. "rules" \notin loose => KeptHeld(ops[r], policy, "rules") /\ Written(policy, "rules")
                                             /\ ops[r].list = policy.mem.rules
                BY <1>3, <2>1, <2>3, <2>4, PackStage DEF Stores
            <4>2. p.held.rules = policy.held.rules
                BY <1>8, <3>1 DEF Stores
            <4>3. InForce(p.held, "rules") = InForce(policy.held, "rules")
                BY <4>2, InForceBy DEF Stores
            <4>4. "rules" \notin loose => KeptHeld(o, p, "rules") /\ Written(p, "rules")
                                             /\ o.list = p.mem.rules
                BY <1>3, <1>8, <4>1, <4>3 DEF KeptHeld, Written
            <4>5. QED
                BY <2>1, <3>3, <4>4, PackStage
        <3>7. Owed(r, o, p, {}) /\ Apart(r, p, {})
            <4>1. Owed(r, o, p, {})
                BY <2>1, <3>3, <3>5, <3>6, Owing
            <4>2. QED
                BY <2>1, <4>1 DEF Apart
        <3>8. o.op \notin Sweeps
            BY <1>3, <1>14, Plain
        <3>9. QED
            BY <1>2, <1>8, <2>1, <3>3, <3>4, <3>7, <3>8, Advance DEF Orderly
    <2>6. CASE step = "serveRules"
        <3>1. store = "rules" /\ list = ops[r].list
            BY <2>6 DEF StoreOf, SetSteps
        <3>2. o.plan = <<>>
            <4>1. ops[r].plan = <<"serveRules">>
                BY <2>1, <2>6 DEF PackPlan
            <4>2. QED
                BY <1>3, <4>1, SMT
        <3>3. "rules" \notin loose => Agree(p, "rules")
            <4>1. "rules" \notin loose => Written(policy, "rules") /\ ops[r].list = policy.mem.rules
                BY <1>3, <2>1, <2>3, <2>4, PackStage DEF Stores
            <4>2. QED
                BY <1>9, <3>1, <4>1
        <3>4. "sets" \notin loose => Agree(p, "sets")
            <4>1. "sets" \notin loose => Agree(policy, "sets")
                BY <1>3, <2>1, <2>3, <2>4, <2>6, PackStage DEF Stores
            <4>2. QED
                BY <1>10, <3>1, <4>1 DEF Stores
        <3>5. Owed(r, o, p, {}) /\ Apart(r, p, {})
            BY <2>1, <3>2, <3>3, <3>4 DEF Owed, Apart, Stores
        <3>6. QED
            BY <1>2, <1>8, <3>2, <3>5, Advance DEF Orderly
    <2>7. QED
        BY <2>2, <2>5, <2>6
<1>15. QED
    BY <1>11, <1>12, <1>13, <1>14

LEMMA ServeServes == ASSUME PackInv, NEW r \in PolicyRequest, Serve(r) PROVE PackInv'
<1>1. ops[r].plan # <<>> /\ Head(ops[r].plan) \in Serving
    BY DEF Serve
<1>2. PICK step, store, list :
            /\ step = Head(ops[r].plan) /\ store = StoreOf(step)
            /\ list = CASE step = "passSets" -> policy.mem.sets
                        [] step = "reserveSets" -> ops[r].prev.sets
                        [] OTHER -> ops[r].list
            /\ \/ Continue(r, [ops[r] EXCEPT !.plan = Tail(@)],
                           [policy EXCEPT !.held = [@ EXCEPT ![store] = list]], {})
               \/ Fails(r, policy)
    BY Zenon DEF Serve
<1>3. CASE Continue(r, [ops[r] EXCEPT !.plan = Tail(@)],
                    [policy EXCEPT !.held = [@ EXCEPT ![store] = list]], {})
    BY <1>1, <1>2, <1>3, ServeDone
<1>4. CASE Fails(r, policy)
    <2>1. OpStation(ops[r]) /\ ArePolicies(policy)
        BY AtWork
    <2>2. PackKind(ops[r]) \/ EditKind(ops[r]) \/ UndoneKind(ops[r])
        BY <1>1, <2>1, HeadsTell
    <2>3. store \in Stores
        BY <1>2 DEF StoreOf, Stores
    <2>4. step \notin RuleEditing \cup SetEditing
        BY <1>1, <1>2 DEF Serving, RuleEditing, SetEditing
    <2>5. CASE PackKind(ops[r])
        BY <1>1, <1>2, <1>4, <2>1, <2>3, <2>4, <2>5, PackFails
    <2>6. CASE EditKind(ops[r])
        <3>1. Hands(ops[r]) = {store}
            BY <1>1, <1>2, <2>6, OwnStore
        <3>2. QED
            BY <1>1, <1>2, <1>4, <2>1, <2>3, <2>6, <3>1, EditFails
    <2>7. CASE UndoneKind(ops[r])
        <3>1. step = "reserveSets" /\ UndonePlan(ops[r].plan) /\ ops[r].op = "undone"
            BY <1>1, <1>2, <2>7 DEF UndoneKind, UndonePlan, Serving
        <3>2. PlanStores(ops[r].plan) = {"sets"}
            BY <1>2, <3>1 DEF UndonePlan
        <3>3. Hands(ops[r]) = {store}
            BY <1>2, <3>1, <3>2, UndoneStage, StoreOfSteps
        <3>4. QED
            BY <1>1, <1>2, <1>4, <2>1, <2>3, <2>7, <3>3, EditFails
    <2>8. QED
        BY <2>2, <2>5, <2>6, <2>7
<1>5. QED
    BY <1>2, <1>3, <1>4

LEMMA RestoreServes == ASSUME PackInv, NEW r \in PolicyRequest, Restore(r) PROVE PackInv'
<1>1. /\ OpStation(ops[r]) /\ IsOp(ops[r]) /\ ArePolicies(policy)
      /\ \A s \in Hands(ops[r]) \ loose : Stage(ops[r], policy, s)
    BY AtWork
<1>2. PICK store, x, o, p, slip :
            /\ store = StoreOf(Head(ops[r].plan))
            /\ x = [policy.mem EXCEPT ![store] = ops[r].prev[store]]
            /\ o = [ops[r] EXCEPT !.plan = Tail(@)]
            /\ \/ slip = {} /\ p = Saves(x, store)
               \/ slip = {store} /\ p = [policy EXCEPT !.mem = x]
            /\ Continue(r, o, p, slip)
    BY Zenon DEF Restore
<1>3. Head(ops[r].plan) \in {"restoreRules", "restoreSets"} /\ UndoneKind(ops[r])
    BY <1>1, HeadsTell DEF Restore
<1>4. ops[r].op = "undone" /\ UndonePlan(ops[r].plan)
    BY <1>3 DEF UndoneKind
<1>5. /\ IsOp(o) /\ o.op = "undone" /\ o.plan = Tail(ops[r].plan) /\ o.prev = ops[r].prev
    BY <1>1, <1>2, <1>4 DEF IsOp
<1>6. store \in Stores /\ store = IF Head(ops[r].plan) = "restoreRules" THEN "rules" ELSE "sets"
    BY <1>2, <1>3, StoreOfSteps DEF Stores
<1>7. IsPolicy(x) /\ x[store] = o.prev[store] /\ \A s \in Stores \ {store} : x[s] = policy.mem[s]
    BY <1>1, <1>2, <1>5, <1>6 DEF ArePolicies, IsPolicy, Stores
<1>8. /\ ArePolicies(p) /\ p.held = policy.held /\ p.mem = x
      /\ \A s \in Stores \ {store} : p.file[s] = policy.file[s]
      /\ slip = {} => p.file[store] = x[store]
    <2>1. p = Saves(x, store) \/ p = [policy EXCEPT !.mem = x]
        BY <1>2
    <2>2. slip = {} => p = Saves(x, store)
        BY <1>2
    <2>3. QED
        BY <1>1, <1>6, <1>7, <2>1, <2>2, SaveOne
<1>9. Hands(ops[r]) = PlanStores(ops[r].plan) /\ Hands(o) = PlanStores(o.plan)
    BY <1>4, <1>5, UndoneStage
<1>10. store \in Hands(ops[r]) /\ Hands(ops[r]) \subseteq Stores
    BY <1>3, <1>4, <1>6, <1>9 DEF UndonePlan
<1>11. Apart(r, p, slip)
    BY <1>7, <1>8, <1>10 DEF Apart
<1>12. o.op \notin Sweeps
    BY <1>5 DEF Sweeps
<1>13. o.plan # <<>> => OpStation(o)
    <2>1. Tails("undone") = UndoneTails
        BY DEF Tails, PackOps
    <2>2. o.plan # <<>> => o.plan \in UndoneTails
        BY <1>4, <1>5 DEF UndonePlan
    <2>3. ops[r].op # Nil
        BY <1>3, Plain
    <2>4. QED
        BY <1>1, <1>4, <1>5, <2>1, <2>2, <2>3, Plain, <1>3, SameStation
<1>14. \A s : KeptHeld(o, p, s) <=> KeptHeld(ops[r], policy, s)
    BY <1>5, <1>8 DEF KeptHeld
<1>15. ASSUME slip = {}, KeptHeld(ops[r], policy, store)
       PROVE  Agree(p, store)
    <2>1. InForce(p.mem, store) = InForce(o.prev, store) /\ InForce(p.file, store) = InForce(o.prev, store)
        BY <1>6, <1>7, <1>8, <1>15, InForceBy
    <2>2. QED
        BY <1>5, <1>8, <1>15, <2>1 DEF KeptHeld, Agree
<1>16. CASE Head(ops[r].plan) = "restoreRules"
    <2>1. /\ store = "rules" /\ "rules" \notin Hands(o)
          /\ "sets" \in Hands(o) <=> "sets" \in Hands(ops[r])
          /\ Pending(o.plan, {"restoreSets"}) <=> Pending(ops[r].plan, {"restoreSets"})
          /\ Pending(o.plan, {"reserveSets"}) <=> Pending(ops[r].plan, {"reserveSets"})
        BY <1>4, <1>5, <1>6, <1>9, <1>16 DEF UndonePlan
    <2>2. Hands(o) \subseteq Hands(ops[r])
        <3>1. o.plan # <<>> => Hands(o) \subseteq Stores
            BY <1>13, HandsIn
        <3>2. o.plan = <<>> => Hands(o) = {}
            BY <1>9, StoresIn
        <3>3. QED
            BY <2>1, <3>1, <3>2 DEF Stores
    <2>3. "rules" \notin loose \cup slip => Agree(p, "rules")
        <3>1. "rules" \notin loose => KeptHeld(ops[r], policy, "rules")
            BY <1>1, <1>4, <1>10, <2>1, UndoneStage
        <3>2. "rules" \notin slip => slip = {}
            BY <1>2, <2>1
        <3>3. QED
            BY <1>15, <2>1, <3>1, <3>2
    <2>4. "sets" \in Hands(ops[r]) \ loose => o.plan # <<>> /\ Stage(o, p, "sets")
        <3>1. "sets" \in Hands(ops[r]) => o.plan # <<>>
            BY <1>9, <2>1, StoresIn
        <3>2. "sets" \in Hands(ops[r]) \ loose => Stage(ops[r], policy, "sets")
            BY <1>1
        <3>3. p.mem.sets = policy.mem.sets /\ p.file.sets = policy.file.sets
            BY <1>7, <1>8, <2>1 DEF Stores
        <3>4. Written(p, "sets") <=> Written(policy, "sets")
            BY <3>3 DEF Written
        <3>5. QED
            BY <1>4, <1>5, <1>14, <2>1, <3>1, <3>2, <3>3, <3>4, UndoneStage
    <2>5. Owed(r, o, p, slip)
        BY <1>10, <2>1, <2>3, <2>4 DEF Owed, Stores
    <2>6. QED
        BY <1>2, <1>8, <1>11, <1>12, <1>13, <2>2, <2>5, Advance DEF Orderly
<1>17. CASE Head(ops[r].plan) = "restoreSets"
    <2>1. Hands(ops[r]) = {"sets"} /\ store = "sets"
        BY <1>4, <1>6, <1>9, <1>17 DEF UndonePlan
    <2>2. CASE o.plan = <<>>
        <3>1. Pending(ops[r].plan, {"restoreSets"}) /\ ~Pending(ops[r].plan, {"reserveSets"})
            BY <1>4, <1>5, <1>17, <2>2 DEF UndonePlan
        <3>2. "sets" \notin loose => KeptHeld(ops[r], policy, "sets")
            BY <1>1, <1>4, <2>1, <3>1, UndoneStage
        <3>3. "sets" \notin loose \cup slip => Agree(p, "sets")
            BY <1>2, <1>15, <2>1, <3>2
        <3>4. Owed(r, o, p, slip)
            BY <2>1, <2>2, <3>3 DEF Owed
        <3>5. QED
            BY <1>2, <1>8, <1>11, <2>2, <3>4, Advance DEF Orderly
    <2>3. CASE o.plan # <<>>
        <3>1. "sets" \in Hands(o) /\ ~Pending(o.plan, {"restoreSets"}) /\ "rules" \notin Hands(o)
            BY <1>4, <1>5, <1>9, <1>17, <2>3 DEF UndonePlan
        <3>2. Hands(o) \subseteq Hands(ops[r])
            BY <1>13, <2>1, <2>3, <3>1, HandsIn DEF Stores
        <3>3. "sets" \notin slip => Written(p, "sets") /\ p.mem.sets = o.prev.sets
            BY <1>2, <1>7, <1>8, <2>1 DEF Written
        <3>4. "sets" \notin slip => Stage(o, p, "sets")
            BY <1>5, <3>1, <3>3, UndoneStage
        <3>5. Owed(r, o, p, slip)
            BY <2>1, <2>3, <3>1, <3>4 DEF Owed
        <3>6. QED
            BY <1>2, <1>8, <1>11, <1>12, <1>13, <3>2, <3>5, Advance DEF Orderly
    <2>4. QED
        BY <2>2, <2>3
<1>18. QED
    BY <1>3, <1>16, <1>17

\* A plan that has not been started.
Unstarted(op, plan) ==
    /\ plan # <<>> /\ plan \in Tails(op)
    /\ op \in Editing => Head(plan) = FirstOf(op)
    /\ op = "rule" => Pending(plan, RuleEditing)
    /\ op \in PackOps => /\ Pending(plan, RuleEditing)
                         /\ Pending(plan, {"passSets"}) => Pending(plan, SetEditing)
    /\ op = "request" => Head(plan) = "file"
    /\ op \in Sweeps => Head(plan) \in {"leave", "plane"}

LEMMA PacksFresh ==
    ASSUME NEW a, NEW b, NEW c, a \in RuleEditing \/ b \in RuleEditing,
           a \in SetEditing \/ b \in SetEditing, c \in RuleEditing
    PROVE  /\ Pending(<<a, b, "passSets", "serveRules">>, RuleEditing)
           /\ Pending(<<a, b, "passSets", "serveRules">>, SetEditing)
           /\ Pending(<<c, "serveRules">>, RuleEditing)
           /\ ~Pending(<<c, "serveRules">>, {"passSets"})
<1>1. Pending(<<a, b, "passSets", "serveRules">>, RuleEditing)
    BY SMT DEF Pending
<1>2. Pending(<<a, b, "passSets", "serveRules">>, SetEditing)
    BY SMT DEF Pending
<1>3. Pending(<<c, "serveRules">>, RuleEditing)
    BY SMT DEF Pending
<1>4. ~Pending(<<c, "serveRules">>, {"passSets"})
    BY SMT DEF Pending, RuleEditing
<1>5. QED
    BY <1>1, <1>2, <1>3, <1>4

LEMMA PlansFresh ==
    ASSUME NEW op \in Editing \cup {"request"} \cup PackOps, NEW pack
    PROVE  Unstarted(op, Plan(op, pack))
<1>1. Plan(op, pack) \in Tails(op) /\ Plan(op, pack) # <<>>
    BY PlansBegin DEF Editing
<1>2. CASE op = "rule"
    <2>1. Plan(op, pack) = <<"edit", "serveRules">>
        BY <1>2 DEF Plan
    <2>2. Head(Plan(op, pack)) = "edit" /\ Pending(Plan(op, pack), RuleEditing)
        BY <2>1, SMT DEF Pending, RuleEditing
    <2>3. QED
        BY <1>1, <1>2, <2>2 DEF Unstarted, FirstOf, PackOps, Sweeps
<1>3. CASE op \in {"approve", "deny"}
    <2>1. Plan(op, pack) = <<op, "serveRules">>
        BY <1>3 DEF Plan
    <2>2. Head(Plan(op, pack)) = op
        BY <2>1, SMT
    <2>3. QED
        BY <1>1, <1>3, <2>2 DEF Unstarted, FirstOf, PackOps, Sweeps
<1>4. CASE op = "set"
    <2>1. Plan(op, pack) = <<"import", "serveSets">>
        BY <1>4 DEF Plan
    <2>2. Head(Plan(op, pack)) = "import"
        BY <2>1, SMT
    <2>3. QED
        BY <1>1, <1>4, <2>2 DEF Unstarted, FirstOf, PackOps, Sweeps
<1>5. CASE op = "request"
    <2>1. Plan(op, pack) = <<"file">>
        BY <1>5 DEF Plan
    <2>2. Head(Plan(op, pack)) = "file"
        BY <2>1, SMT
    <2>3. QED
        BY <1>1, <1>5, <2>2 DEF Unstarted, Editing, PackOps, Sweeps
<1>6. CASE op \in PackOps
    <2>1. \E a, b, c : /\ a \in RuleEditing \/ b \in RuleEditing
                       /\ a \in SetEditing \/ b \in SetEditing
                       /\ c \in RuleEditing
                       /\ \/ Plan(op, pack) = <<a, b, "passSets", "serveRules">>
                          \/ Plan(op, pack) = <<c, "serveRules">>
        <3>1. CASE op = "apply"
            BY <3>1 DEF Plan, RuleEditing, SetEditing
        <3>2. CASE op = "on"
            BY <3>2 DEF Plan, RuleEditing, SetEditing
        <3>3. CASE op = "off"
            BY <3>3 DEF Plan, RuleEditing, SetEditing
        <3>4. CASE op = "delete"
            BY <3>4 DEF Plan, RuleEditing, SetEditing
        <3>5. QED
            BY <1>6, <3>1, <3>2, <3>3, <3>4 DEF PackOps
    <2>2. /\ Pending(Plan(op, pack), RuleEditing)
          /\ Pending(Plan(op, pack), {"passSets"}) => Pending(Plan(op, pack), SetEditing)
        BY <2>1, PacksFresh
    <2>3. QED
        BY <1>1, <1>6, <2>2 DEF Unstarted, Editing, PackOps, Sweeps
<1>7. QED
    BY <1>2, <1>3, <1>4, <1>5, <1>6 DEF Editing

\* A request that begins finds memory, file and Manager in agreement.
LEMMA FreshStage ==
    ASSUME NEW o, NEW s \in Hands(o), o.op \in Editing \cup {"request"} \cup PackOps \cup Sweeps,
           Unstarted(o.op, o.plan), Agree(policy, s), KeptHeld(o, policy, s) \/ s \notin Kept(o.op)
    PROVE  Stage(o, policy, s)
<1>1. CASE o.op \in Sweeps
    <2>1. Head(o.plan) \in {"leave", "plane"} /\ Hands(o) = Stores
        BY <1>1, SweepStage DEF Unstarted
    <2>2. QED
        BY <1>1, <2>1, SweepStage DEF Stores, Aligning
<1>2. CASE o.op \in PackOps
    <2>1. Hands(o) = Stores /\ Kept(o.op) = Stores
        <3>1. Touches(o.op) = Hands(o)
            BY <1>2 DEF Hands, PackOps
        <3>2. QED
            BY <1>2, <3>1, PackStage DEF Kept
    <2>2. /\ Pending(o.plan, RuleEditing)
          /\ Pending(o.plan, {"passSets"}) => Pending(o.plan, SetEditing)
        BY <1>2 DEF Unstarted
    <2>3. QED
        BY <1>2, <2>1, <2>2, PackStage DEF Stores
<1>3. CASE o.op \in {"approve", "deny", "request"}
    <2>1. s = "rules" /\ Head(o.plan) # "serveRules"
        BY <1>3, EditStage DEF Unstarted, Editing, FirstOf
    <2>2. QED
        BY <1>3, <2>1, EditStage DEF Editing
<1>4. CASE o.op = "rule"
    <2>1. s = "rules" /\ Pending(o.plan, RuleEditing) /\ Kept(o.op) = {"rules"}
        BY <1>4, EditStage, PacksAssumption DEF Unstarted, Editing, Kept, Touches, PacksAssumption
    <2>2. QED
        BY <1>4, <2>1, EditStage DEF Editing
<1>5. CASE o.op = "set"
    <2>1. s = "sets" /\ Head(o.plan) = "import" /\ Kept(o.op) = {"sets"}
        BY <1>5, EditStage, PacksAssumption DEF Unstarted, Editing, FirstOf, Kept, Touches, PacksAssumption
    <2>2. QED
        BY <1>5, <2>1, EditStage DEF Editing
<1>6. QED
    BY <1>1, <1>2, <1>3, <1>4, <1>5 DEF Editing

\* A request that begins, and lets slip what others have to do with.
LEMMA Opens ==
    ASSUME PackInv, NEW r \in PolicyRequest, ops[r] = Resting, NEW o,
           ops' = [ops EXCEPT ![r] = o], UNCHANGED policy,
           o.op \in Editing \cup {"request"} \cup PackOps \cup Sweeps, OpStation(o), Unstarted(o.op, o.plan),
           o.op \in Sweeps => Sweeping = {},
           \A s \in Stores \ loose' : s \notin loose, \A s \in Hands(o) \ loose' : Others(r, s) = {},
           \A s \in Kept(o.op) : o.prev[s] = policy.mem[s]
    PROVE  PackInv'
<1>1. DOMAIN ops = PolicyRequest /\ \A q \in PolicyRequest : OpStation(ops[q])
    BY DEF PackInv, OpTypes
<1>2. DOMAIN ops' = PolicyRequest /\ ops'[r] = o /\ \A q \in PolicyRequest \ {r} : ops'[q] = ops[q]
    BY <1>1
<1>3. OpTypes'
    <2>1. \A q \in PolicyRequest : OpStation(ops'[q])
        BY <1>1, <1>2
    <2>2. \A q, u \in PolicyRequest : ops'[q].op \in Sweeps /\ ops'[u].op \in Sweeps => q = u
        <3>1. \A q, u \in PolicyRequest : ops[q].op \in Sweeps /\ ops[u].op \in Sweeps => q = u
            BY DEF PackInv, OpTypes
        <3>2. ops[r].op \notin Sweeps
            BY AtRest
        <3>3. QED
            BY <1>2, <3>1, <3>2 DEF Sweeping
    <2>3. QED
        BY <1>2, <2>1, <2>2 DEF PackInv, OpTypes, OpStation, IsOp, ArePolicies, IsPolicy
<1>4. ASSUME NEW s \in Stores \ loose'
      PROVE  StoreCourse(s)'
    <2>1. StoreCourse(s) /\ Hands(ops[r]) = {}
        BY AtRest DEF PackInv
    <2>2. CASE s \in Hands(o)
        <3>1. \A q \in PolicyRequest \ {r} : s \notin Hands(ops[q])
            BY <1>1, <2>2, HandsIn DEF Others
        <3>2. Agree(policy, s)
            BY <2>1, <3>1 DEF StoreCourse
        <3>3. s \in Kept(o.op) => KeptHeld(o, policy, s)
            <4>1. s \in Kept(o.op) => InForce(o.prev, s) = InForce(policy.mem, s)
                BY InForceBy
            <4>2. QED
                BY <3>2, <4>1 DEF KeptHeld, Agree
        <3>4. Stage(o, policy, s)
            BY <2>2, <3>2, <3>3, FreshStage
        <3>5. QED
            BY <1>2, <2>2, <3>1, <3>4 DEF StoreCourse
    <2>3. CASE s \notin Hands(o)
        BY <1>2, <2>1, <2>3 DEF StoreCourse
    <2>4. QED
        BY <2>2, <2>3
<1>5. QED
    BY <1>3, <1>4 DEF PackInv

LEMMA BeginServes ==
    ASSUME PackInv, NEW r \in PolicyRequest,
           NEW op \in Editing \cup {"request", "switch"} \cup PackOps, NEW arg, NEW plan,
           Begin(r, op, arg, plan), Unstarted(op, plan),
           op = "switch" => Sweeping = {} /\ Head(plan) = "leave"
    PROVE  PackInv'
<1>1. PICK o : /\ o = [Resting EXCEPT !.op = op, !.arg = arg, !.plan = plan,
                                      !.prev = [s \in Kept(op) |-> policy.mem[s]]]
               /\ ops' = [ops EXCEPT ![r] = o]
    BY DEF Begin
<1>2. /\ IsOp(o) /\ o.op = op /\ o.plan = plan /\ o.prev = [s \in Kept(op) |-> policy.mem[s]]
    BY <1>1 DEF Resting, IsOp
<1>3. ops[r] = Resting /\ UNCHANGED policy
      /\ loose' = loose \cup {s \in Touches(op) : Others(r, s) # {}}
    BY DEF Begin
<1>4. op # Nil /\ op \in Operations /\ op # "undone"
    BY PacksAssumption DEF Editing, PackOps, PacksAssumption, Operations, Sweeps
<1>5. op \in Sweeps => op = "switch" /\ Head(plan) = "leave"
    BY DEF Editing, PackOps, Sweeps
<1>6. OpStation(o)
    BY <1>2, <1>4, <1>5 DEF OpStation, Unstarted, Sweeps
<1>7. Hands(o) = Touches(op)
    BY <1>2, <1>4 DEF Hands
<1>8. o.op \in Editing \cup {"request"} \cup PackOps \cup Sweeps
    BY <1>2 DEF Sweeps
<1>9. QED
    BY <1>1, <1>2, <1>3, <1>5, <1>6, <1>7, <1>8, Opens

LEMMA BeginPolicyServes == ASSUME PackInv, NEW r \in PolicyRequest, BeginPolicy(r) PROVE PackInv'
<1>0. PICK op \in Editing \cup {"request"} \cup PackOps : \E arg, pack : Begin(r, op, arg, Plan(op, pack))
    BY DEF BeginPolicy, BeginEdit, BeginJudgement, BeginPack, Editing
<1>1. PICK arg, pack : Begin(r, op, arg, Plan(op, pack))
    BY <1>0
<1>2. op # "switch"
    BY DEF Editing, PackOps
<1>3. QED
    BY <1>1, <1>2, PlansFresh, BeginServes

LEMMA BeginSwitchServes == ASSUME PackInv, NEW r \in PolicyRequest, BeginSwitch(r) PROVE PackInv'
<1>1. PICK arg : Begin(r, "switch", arg, SwitchPlan) /\ Sweeping = {}
    BY DEF BeginSwitch
<1>2. Head(SwitchPlan) = "leave" /\ SwitchPlan # <<>>
    BY SMT DEF SwitchPlan
<1>3. SwitchPlan \in Tails("switch")
    <2>1. Tails("switch") = SwitchTails
        BY DEF Tails, PackOps
    <2>2. QED
        BY <2>1, Zenon DEF SwitchTails, SwitchPlan
<1>4. Unstarted("switch", SwitchPlan)
    BY <1>2, <1>3 DEF Unstarted, Editing, PackOps
<1>5. QED
    BY <1>1, <1>2, <1>4, BeginServes

LEMMA BeginActivateServes == ASSUME PackInv, NEW r \in PolicyRequest, BeginActivate(r) PROVE PackInv'
<1>1. PICK name, arg, list :
            LET o == [Resting EXCEPT !.op = "activate", !.arg = arg, !.plan = ProfilePlan,
                                     !.next = Content(profiles[name]), !.list = list]
            IN  ops' = [ops EXCEPT ![r] = o]
    BY Zenon DEF BeginActivate
<1>2. PICK o : /\ o = [Resting EXCEPT !.op = "activate", !.arg = arg, !.plan = ProfilePlan,
                                      !.next = Content(profiles[name]), !.list = list]
               /\ ops' = [ops EXCEPT ![r] = o]
    BY <1>1
<1>3. IsOp(o) /\ o.op = "activate" /\ o.plan = ProfilePlan /\ o.next = Content(profiles[name])
    BY <1>2 DEF Resting, IsOp
<1>4. /\ ops[r] = Resting /\ Sweeping = {} /\ UNCHANGED policy
      /\ loose' = IF Alone(r) THEN loose ELSE {"rules", "sets"}
    BY DEF BeginActivate
<1>5. Head(ProfilePlan) = "plane" /\ ProfilePlan # <<>>
    BY SMT DEF ProfilePlan
<1>6. Tails("activate") = ActivateTails
    BY DEF Tails, PackOps
<1>7. ProfilePlan \in Tails("activate")
    BY <1>6, Zenon DEF ActivateTails, ProfilePlan
<1>8. Unstarted("activate", ProfilePlan)
    BY <1>5, <1>7 DEF Unstarted, Editing, PackOps
<1>9. OpStation(o)
    BY <1>3, <1>5, <1>7, PacksAssumption
    DEF OpStation, Operations, Sweeps, PacksAssumption, IsPolicy, Content
<1>10. Kept(o.op) = {}
    BY <1>3 DEF Kept, PackOps
<1>11. \A s \in Hands(o) \ loose' : Others(r, s) = {}
    <2>1. CASE Alone(r)
        <3>1. \A q \in PolicyRequest \ {r} : Touches(ops[q].op) = {}
            BY <2>1, PacksAssumption DEF Alone, Resting, Touches, PacksAssumption
        <3>2. QED
            BY <3>1 DEF Others
    <2>2. CASE ~Alone(r)
        <3>1. Hands(o) = Stores
            BY <1>3, SweepStage DEF Sweeps
        <3>2. QED
            BY <1>4, <2>2, <3>1 DEF Stores
    <2>3. QED
        BY <2>1, <2>2
<1>12. \A s \in Stores \ loose' : s \notin loose
    BY <1>4 DEF Stores
<1>13. QED
    BY <1>2, <1>3, <1>4, <1>8, <1>9, <1>10, <1>11, <1>12, Opens DEF Sweeps

\* Whoever is at rest has to do with no store.
LEMMA AllRest ==
    ASSUME ArePolicies(policy), ops = [r \in PolicyRequest |-> Resting],
           \A s \in Stores : policy.mem[s] = policy.held[s] /\ policy.file[s] = policy.held[s]
    PROVE  PackInv
<1>1. OpTypes
    BY AtRest DEF OpTypes
<1>2. ASSUME NEW s \in Stores
      PROVE  StoreCourse(s)
    <2>1. Agree(policy, s)
        BY AgreeBy
    <2>2. \A r \in PolicyRequest : Hands(ops[r]) = {}
        BY AtRest
    <2>3. QED
        BY <2>1, <2>2 DEF StoreCourse
<1>3. QED
    BY <1>1, <1>2 DEF PackInv

LEMMA PacksStart == PackInit => PackInv
<1>1. SUFFICES ASSUME PackInit PROVE PackInv
    OBVIOUS
<1>2. policy = [mem |-> NoPolicy, file |-> NoPolicy, held |-> NoPolicy] /\ IsPolicy(NoPolicy)
    BY <1>1 DEF PackInit, NoPolicy, IsPolicy
<1>3. ArePolicies(policy)
    BY <1>2 DEF ArePolicies
<1>4. \A s \in Stores : policy.mem[s] = policy.held[s] /\ policy.file[s] = policy.held[s]
    BY <1>2
<1>5. QED
    BY <1>1, <1>3, <1>4, AllRest DEF PackInit

LEMMA ReloadServes == ASSUME PackInv, Reload PROVE PackInv'
<1>1. ArePolicies(policy)
    BY DEF PackInv, OpTypes
<1>2. policy' = [mem |-> policy.file, file |-> policy.file, held |-> policy.file]
    BY <1>1 DEF Reload, ArePolicies
<1>3. ArePolicies(policy)'
    BY <1>1, <1>2 DEF ArePolicies, IsPolicy
<1>4. ops' = [r \in PolicyRequest |-> Resting]
    BY DEF Reload
<1>5. OpTypes'
    <2>1. \A r \in PolicyRequest : ops'[r] = Resting
        BY <1>4
    <2>2. OpStation(Resting) /\ Resting.op \notin Sweeps
        BY AtRest
    <2>3. QED
        BY <1>3, <1>4, <2>1, <2>2 DEF OpTypes, OpStation, IsOp, IsPolicy, Resting
<1>6. ASSUME NEW s \in Stores
      PROVE  StoreCourse(s)'
    <2>1. Agree(policy', s)
        BY <1>2, AgreeBy
    <2>2. \A r \in PolicyRequest : Hands(ops'[r]) = {}
        BY <1>4, AtRest
    <2>3. QED
        BY <2>1, <2>2 DEF StoreCourse
<1>7. QED
    BY <1>5, <1>6 DEF PackInv

LEMMA PacksStay == ASSUME PackInv, UNCHANGED packVars PROVE PackInv'
<1>1. policy' = policy /\ ops' = ops /\ loose' = loose
    BY DEF packVars
<1>2. OpTypes'
    BY <1>1 DEF PackInv, OpTypes, OpStation, IsOp, IsPolicy, ArePolicies
<1>3. \A s \in Stores \ loose' : StoreCourse(s)'
    <2>1. \A s \in Stores \ loose' : StoreCourse(s)
        BY <1>1 DEF PackInv
    <2>2. QED
        BY <1>1, <2>1 DEF StoreCourse
<1>4. QED
    BY <1>2, <1>3 DEF PackInv

LEMMA PacksStep == ASSUME PackInv, [SettingsNext]_allVars PROVE PackInv'
<1>1. CASE UNCHANGED allVars
    BY <1>1, PacksStay DEF allVars
<1>2. ASSUME NEW r \in PolicyRequest, PolicyStep(r)
      PROVE  PackInv'
    BY <1>2, BeginPolicyServes, ChangeServes, ServeServes, RestoreServes, BeginSwitchServes, LeaveServes,
       LoadServes, PlaneServes, AlignServes, SettleServes, BeginActivateServes, ClearServes, MarkServes
    DEF PolicyStep, PackStep
<1>3. CASE AddProfile \/ DeleteProfile
    BY <1>3, PacksStay DEF AddProfile, DeleteProfile
<1>4. CASE UNCHANGED <<packVars, posture, profiles, farewell>>
    BY <1>4, PacksStay
<1>5. CASE Boot
    BY <1>5, ReloadServes DEF Boot
<1>6. QED
    BY <1>1, <1>2, <1>3, <1>4, <1>5 DEF SettingsNext

LEMMA PackInvHolds == SettingsSpec => []PackInv
<1>1. SettingsInit => PackInv
    BY PacksStart DEF SettingsInit
<1>2. PackInv /\ [SettingsNext]_allVars => PackInv'
    BY PacksStep
<1>3. QED
    BY <1>1, <1>2, PTL DEF SettingsSpec

THEOREM SettingsPoliciesAreServed == SettingsSpec => []PoliciesAreServed
<1>1. PackInv => PoliciesAreServed
    <2>1. SUFFICES ASSUME PackInv, NEW store \in Stores \ loose, Quiet PROVE Agree(policy, store)
        BY DEF PoliciesAreServed, Stores
    <2>2. \A r \in PolicyRequest : store \notin Hands(ops[r])
        BY <2>1, AtRest DEF Quiet
    <2>3. QED
        BY <2>1, <2>2 DEF PackInv, StoreCourse
<1>2. QED
    BY <1>1, PackInvHolds, PTL
-----------------------------------------------------------------------------
(***************************************************************************)
(* The requests of Exits                                                   *)
(***************************************************************************)
InMem(a) == Derived(Memory)[a]
OnDisk(a) == Derived(exitFiles)[a]

\* The nodes of the subscriptions f, what an activation of one of them wants,
\* and f with the flag of one set.
NodesOf(f) == {<<id, f[id].nodes>> : id \in {i \in DOMAIN f : f[i].applied /\ f[i].nodes # None}}
Wanted(f, id) == IF id \notin DOMAIN f \/ f[id].nodes = None THEN {} ELSE {<<id, f[id].nodes>>}
Flag(f, id, value) == [f EXCEPT ![id].applied = value]

IsSubs(f) ==
    /\ f = [i \in DOMAIN f |-> [nodes |-> f[i].nodes, applied |-> f[i].applied]]
    /\ \A i \in DOMAIN f : f[i].applied \in BOOLEAN
Parts == {"subs", "gateways", "localMode", "endpoints", "disabled"}
IsStores(s) ==
    /\ s = [subs |-> s.subs, gateways |-> s.gateways, localMode |-> s.localMode,
            endpoints |-> s.endpoints, disabled |-> s.disabled]
    /\ IsSubs(s.subs)

\* What a request can be doing.
IsCall(c) ==
    c = [pc |-> c.pc, axis |-> c.axis, op |-> c.op, id |-> c.id, list |-> c.list,
         undo |-> c.undo, then |-> c.then]
Doing(c, axis, operations, places) == c.axis = axis /\ c.op \in operations /\ c.pc \in places
Station(c) ==
    \/ c = Idle
    \/ /\ c.undo = None /\ c.then = None
       /\ \/ Doing(c, None, {"add"}, {"fetch"})
          \/ Doing(c, "nodes", {"refresh"}, {"fetch", "collect", "push"})
          \/ Doing(c, "nodes", {"delete"}, {"collect", "push"})
          \/ Doing(c, "nodes", {"apply"}, {"mark", "collect", "push"})
          \/ Doing(c, "nodes", {"unapply"}, {"mark"})
          \/ Doing(c, "nodes", {"policy"}, {"idle"})
          \/ Doing(c, "client", {None}, {"collect", "push"})
    \/ /\ c.then = None
       /\ Doing(c, "nodes", {"apply", "unapply"}, {"collect", "push", "undo"})
       /\ c.undo = IF c.op = "apply" THEN "clear" ELSE "set"
    \/ c.undo = None /\ c.then \in {None, "client"} /\ Doing(c, "exits", {None, "patch"}, {"collect", "push"})
    \/ c.then = None /\ Doing(c, "endpoints", {"restore"}, {"change", "collect", "push", "undo"})
    \/ c.then = None /\ Doing(c, "disabled", {"restore"}, {"change", "push", "undo"})

ExitTypes ==
    /\ IsStores(Memory) /\ IsStores(exitFiles)
    /\ DOMAIN plane = Axes
    /\ DOMAIN inflight = ExitRequest
    /\ \A r \in ExitRequest : IsCall(inflight[r]) /\ Station(inflight[r])

Busy(c, a) == c.axis = a \/ c.then = a

\* What the rollback of c makes of the list of its axis.
Reverts(c) == c.axis \in {"endpoints", "disabled"} \/ c.undo \in {"set", "clear"}
Back(c, f) == IF c.axis = "nodes" THEN NodesOf(Flag(f, c.id, c.undo = "set")) ELSE c.undo

\* How far the request c has moved its axis, where f are the subscriptions, list
\* is what follows from the stores and served what the plane has.
Progress(c, f, list, served) ==
    /\ c.pc \in {"fetch", "mark", "change"} => served = list
    /\ c.pc = "mark" => c.id \in DOMAIN f /\ f[c.id].applied = (c.op = "unapply")
    /\ c.pc = "change" => c.undo = list
    /\ c.pc = "push" => c.list = list
    /\ Reverts(c) => served = Back(c, f)
    /\ Reverts(c) /\ c.axis = "nodes" => c.id \in DOMAIN f

AxisCourse(a, list, disk, served, f, calls) ==
    /\ disk = list
    /\ \A r, q \in ExitRequest : Busy(calls[r], a) /\ Busy(calls[q], a) => r = q
    /\ (\A r \in ExitRequest : ~Busy(calls[r], a)) => served = list
    /\ \A r \in ExitRequest : calls[r].axis = a => Progress(calls[r], f, list, served)

\* An axis on which nothing was let slip.
Course(a) == AxisCourse(a, InMem(a), OnDisk(a), plane[a], subs, inflight)

\* A switch or an activation holds the nodes from when it has read them.
Holds(o) == o.op \in Sweeps /\ Head(o.plan) \notin {"leave", "load"}
HeldOnce ==
    /\ (Holding # {}) <=> (\E r \in PolicyRequest : Holds(ops[r]))
    /\ \A d, e \in Holding : d = e

\* What it has read and what it has done with it.
Carried(o, f, list, served) ==
    /\ o.op # "activate" \/ Head(o.plan) = "plane" => served = list
    /\ o.op # "activate" /\ Head(o.plan) = "plane" => o.list = served
    /\ o.op = "activate" => o.list = Wanted(f, o.arg)
    /\ o.op = "activate" /\ Head(o.plan) # "plane" => served = o.list
    /\ Head(o.plan) = "mark" => list = {}
NodesCarried ==
    "nodes" \notin torn =>
        \A r \in PolicyRequest :
            Holds(ops[r]) => Carried(ops[r], subs, InMem("nodes"), plane["nodes"])

ExitInv ==
    /\ ExitTypes /\ HeldOnce
    /\ \A a \in Axes \ torn : Course(a)
    /\ NodesCarried

-----------------------------------------------------------------------------
(***************************************************************************)
(* Lists and stores                                                        *)
(***************************************************************************)
LEMMA DerivedIs ==
    ASSUME NEW s
    PROVE  /\ Derived(s)["nodes"] = NodesOf(s.subs)
           /\ Derived(s)["exits"] = ExitNodes(s)
           /\ Derived(s)["client"] = (s.localMode = "client")
           /\ Derived(s)["endpoints"] = s.endpoints
           /\ Derived(s)["disabled"] = s.disabled
           /\ DOMAIN Derived(s) = Axes
BY DEF Derived, NodesOf, AppliedNodes, Axes

\* A list follows from one part of the stores.
LEMMA DerivedBy ==
    ASSUME NEW s, NEW t, NEW a \in Axes, s[PartOf[a]] = t[PartOf[a]]
    PROVE  Derived(s)[a] = Derived(t)[a]
<1>1. CASE a = "nodes"
    <2>1. s.subs = t.subs
        BY <1>1 DEF PartOf
    <2>2. QED
        BY <1>1, <2>1, DerivedIs
<1>2. CASE a = "exits"
    <2>1. s.gateways = t.gateways
        BY <1>2 DEF PartOf
    <2>2. ExitNodes(s) = ExitNodes(t)
        BY <2>1 DEF ExitNodes
    <2>3. QED
        BY <1>2, <2>2, DerivedIs
<1>3. CASE a = "client"
    <2>1. s.localMode = t.localMode
        BY <1>3 DEF PartOf
    <2>2. QED
        BY <1>3, <2>1, DerivedIs
<1>4. CASE a = "endpoints"
    <2>1. s.endpoints = t.endpoints
        BY <1>4 DEF PartOf
    <2>2. QED
        BY <1>4, <2>1, DerivedIs
<1>5. CASE a = "disabled"
    <2>1. s.disabled = t.disabled
        BY <1>5 DEF PartOf
    <2>2. QED
        BY <1>5, <2>1, DerivedIs
<1>6. QED
    BY <1>1, <1>2, <1>3, <1>4, <1>5 DEF Axes

\* A store call: the stores become s, and the parts in saved are written.
Filed(s, saved) ==
    /\ Memory' = s
    /\ exitFiles' = [f \in Parts |-> IF f \in saved THEN s[f] ELSE exitFiles[f]]

LEMMA PutIs == ASSUME NEW s, IsStores(s), Put(s) PROVE Memory' = s
BY DEF Put, Memory, IsStores

LEMMA StoresParts == ASSUME NEW s, IsStores(s) PROVE DOMAIN s = Parts /\ s = [f \in Parts |-> s[f]]
BY DEF IsStores, Parts

LEMMA SavedIs ==
    ASSUME ExitTypes, NEW s, IsStores(s), NEW saved, Saved(saved, s)
    PROVE  Filed(s, saved)
<1>1. Memory' = s
    BY PutIs DEF Saved
<1>2. DOMAIN exitFiles = Parts
    BY StoresParts DEF ExitTypes
<1>3. QED
    BY <1>1, <1>2 DEF Saved, Filed

LEMMA UnsavedIs ==
    ASSUME ExitTypes, NEW s, IsStores(s), Unsaved(s)
    PROVE  Filed(s, {})
<1>1. Memory' = s
    BY PutIs DEF Unsaved
<1>2. exitFiles = [f \in Parts |-> exitFiles[f]]
    BY StoresParts DEF ExitTypes
<1>3. QED
    BY <1>1, <1>2 DEF Unsaved, Filed

LEMMA SameIs == ASSUME ExitTypes, Same PROVE Filed(Memory, {})
<1>1. exitFiles = [f \in Parts |-> exitFiles[f]]
    BY StoresParts DEF ExitTypes
<1>2. QED
    BY <1>1 DEF Same, Filed, Memory

\* After it, the types hold again.
LEMMA StoresTyped ==
    ASSUME ExitTypes, NEW s, IsStores(s), NEW saved, Filed(s, saved)
    PROVE  IsStores(Memory)' /\ IsStores(exitFiles)'
<1>1. IsStores(Memory)'
    BY DEF Filed, IsStores, IsSubs
<1>2. exitFiles'.subs = IF "subs" \in saved THEN s.subs ELSE exitFiles.subs
    BY DEF Filed, Parts
<1>3. IsSubs(s.subs) /\ IsSubs(exitFiles.subs)
    BY DEF ExitTypes, IsStores
<1>4. IsSubs(exitFiles.subs)'
    BY <1>2, <1>3 DEF IsSubs
<1>5. exitFiles' = [subs |-> exitFiles'.subs, gateways |-> exitFiles'.gateways,
                    localMode |-> exitFiles'.localMode, endpoints |-> exitFiles'.endpoints,
                    disabled |-> exitFiles'.disabled]
    BY DEF Filed, Parts
<1>6. QED
    BY <1>1, <1>4, <1>5 DEF IsStores

\* What follows from the part that was changed and written is the same in memory
\* and on disk; what follows from the others stays.
LEMMA StoresWritten ==
    ASSUME NEW s, NEW saved, Filed(s, saved), NEW a \in Axes, PartOf[a] \in saved
    PROVE  OnDisk(a)' = InMem(a)'
<1>1. PartOf[a] \in Parts
    BY DEF PartOf, Axes, Parts
<1>2. (exitFiles')[PartOf[a]] = s[PartOf[a]]
    BY <1>1 DEF Filed
<1>3. Derived(exitFiles')[a] = Derived(s)[a]
    BY <1>2, DerivedBy
<1>4. QED
    BY <1>3 DEF Filed, OnDisk, InMem

LEMMA StoresApart ==
    ASSUME NEW s, NEW saved, Filed(s, saved), NEW a \in Axes, s[PartOf[a]] = Memory[PartOf[a]],
           OnDisk(a) = InMem(a)
    PROVE  InMem(a)' = InMem(a) /\ OnDisk(a)' = OnDisk(a)
<1>1. PartOf[a] \in Parts
    BY DEF PartOf, Axes, Parts
<1>2. Derived(s)[a] = Derived(Memory)[a]
    BY DerivedBy
<1>3. InMem(a)' = InMem(a)
    BY <1>2 DEF Filed, InMem
<1>4. CASE PartOf[a] \in saved
    BY <1>3, <1>4, StoresWritten
<1>5. CASE PartOf[a] \notin saved
    <2>1. (exitFiles')[PartOf[a]] = exitFiles[PartOf[a]]
        BY <1>1, <1>5 DEF Filed
    <2>2. QED
        BY <1>3, <2>1, DerivedBy DEF OnDisk
<1>6. QED
    BY <1>4, <1>5
-----------------------------------------------------------------------------
(***************************************************************************)
(* One axis                                                                *)
(***************************************************************************)
\* The subscriptions g are those of f as far as requests in flight can tell:
\* there may be new ones, without nodes.
SubsAlike(f, g) ==
    /\ NodesOf(g) = NodesOf(f)
    /\ \A id \in DOMAIN f : /\ id \in DOMAIN g /\ g[id].applied = f[id].applied
                            /\ \A v \in BOOLEAN : NodesOf(Flag(g, id, v)) = NodesOf(Flag(f, id, v))
    /\ \A id : Wanted(g, id) = Wanted(f, id)

LEMMA SubsStay == ASSUME NEW f PROVE SubsAlike(f, f)
BY Zenon DEF SubsAlike

\* An axis that stays as it is, with the requests on it.
AxisStill(a) ==
    /\ InMem(a)' = InMem(a) /\ OnDisk(a)' = OnDisk(a) /\ plane'[a] = plane[a]
    /\ \A q \in ExitRequest :
        inflight'[q] = inflight[q] \/ (~Busy(inflight[q], a) /\ ~Busy(inflight'[q], a))
    /\ a = "nodes" => SubsAlike(subs, subs')

LEMMA ProgressBy ==
    ASSUME NEW c, NEW f, NEW g, NEW list, NEW served, c.axis = "nodes" => SubsAlike(f, g),
           c.axis # "nodes" => c.pc # "mark",
           Progress(c, f, list, served)
    PROVE  Progress(c, g, list, served)
<1>1. CASE c.axis # "nodes"
    <2>1. Back(c, f) = Back(c, g)
        BY <1>1 DEF Back
    <2>2. QED
        BY <1>1, <2>1 DEF Progress
<1>2. CASE c.axis = "nodes"
    <2>1. SubsAlike(f, g)
        BY <1>2
    <2>2. Reverts(c) => c.id \in DOMAIN f
        BY <1>2 DEF Progress
    <2>3. Reverts(c) => Back(c, f) = Back(c, g)
        BY <1>2, <2>1, <2>2 DEF Back, SubsAlike
    <2>4. c.id \in DOMAIN f => c.id \in DOMAIN g /\ g[c.id].applied = f[c.id].applied
        BY <2>1 DEF SubsAlike
    <2>5. QED
        BY <2>3, <2>4 DEF Progress
<1>3. QED
    BY <1>1, <1>2

LEMMA MarkOnNodes ==
    ASSUME NEW c, Station(c), c.pc = "mark"
    PROVE  c.axis = "nodes"
BY DEF Station, Doing, Idle

LEMMA CourseStill ==
    ASSUME ExitTypes, NEW a \in Axes, Course(a), AxisStill(a)
    PROVE  Course(a)'
<1>1. \A q \in ExitRequest : Busy(inflight'[q], a) => Busy(inflight[q], a) /\ inflight'[q] = inflight[q]
    BY DEF AxisStill
<1>2. \A q \in ExitRequest : Busy(inflight[q], a) => Busy(inflight'[q], a)
    BY DEF AxisStill
<1>3. OnDisk(a)' = InMem(a)'
    BY DEF AxisStill, Course, AxisCourse
<1>4. \A r, q \in ExitRequest : Busy(inflight'[r], a) /\ Busy(inflight'[q], a) => r = q
    BY <1>1 DEF Course, AxisCourse
<1>5. (\A r \in ExitRequest : ~Busy(inflight'[r], a)) => plane'[a] = InMem(a)'
    BY <1>2, Zenon DEF Course, AxisCourse, AxisStill
<1>6. ASSUME NEW r \in ExitRequest, inflight'[r].axis = a
      PROVE  Progress(inflight'[r], subs', InMem(a)', plane'[a])
    <2>1. inflight'[r] = inflight[r]
        BY <1>1, <1>6 DEF Busy
    <2>2. Progress(inflight[r], subs, InMem(a), plane[a])
        BY <1>6, <2>1 DEF Course, AxisCourse
    <2>3. inflight[r].axis = "nodes" => SubsAlike(subs, subs')
        BY <1>6, <2>1 DEF AxisStill
    <2>4. inflight[r].axis # "nodes" => inflight[r].pc # "mark"
        BY MarkOnNodes DEF ExitTypes
    <2>5. Progress(inflight[r], subs', InMem(a), plane[a])
        BY <2>2, <2>3, <2>4, ProgressBy
    <2>6. QED
        BY <2>1, <2>5 DEF AxisStill
<1>7. QED
    BY <1>3, <1>4, <1>5, <1>6, Zenon DEF Course, AxisCourse

\* An axis that r has to itself, and moves.
AxisMoved(r, a) ==
    /\ \A q \in ExitRequest \ {r} : ~Busy(inflight'[q], a)
    /\ OnDisk(a)' = InMem(a)'
    /\ ~Busy(inflight'[r], a) => plane'[a] = InMem(a)'
    /\ inflight'[r].axis = a => Progress(inflight'[r], subs', InMem(a)', plane'[a])

LEMMA CourseMoved ==
    ASSUME NEW a \in Axes, NEW r \in ExitRequest, AxisMoved(r, a)
    PROVE  Course(a)'
<1>1. \A q, u \in ExitRequest : Busy(inflight'[q], a) /\ Busy(inflight'[u], a) => q = u
    BY DEF AxisMoved
<1>2. \A q \in ExitRequest : inflight'[q].axis = a => q = r
    BY DEF AxisMoved, Busy
<1>3. QED
    BY <1>1, <1>2 DEF AxisMoved, Course, AxisCourse

\* Only r goes on, as c.
Goes(r, c) ==
    /\ IsCall(c) /\ Station(c)
    /\ DOMAIN inflight' = ExitRequest /\ inflight'[r] = c
    /\ \A q \in ExitRequest \ {r} : inflight'[q] = inflight[q]

LEMMA GoesTyped ==
    ASSUME ExitTypes, NEW r \in ExitRequest, NEW c, Goes(r, c),
           NEW s, IsStores(s), NEW saved, Filed(s, saved), DOMAIN plane' = Axes
    PROVE  ExitTypes'
<1>1. IsStores(Memory)' /\ IsStores(exitFiles)'
    BY StoresTyped
<1>2. \A q \in ExitRequest : IsCall(inflight'[q]) /\ Station(inflight'[q])
    BY DEF Goes, ExitTypes
<1>3. DOMAIN inflight' = ExitRequest
    BY DEF Goes
<1>4. QED
    BY <1>1, <1>2, <1>3, Zenon DEF ExitTypes, IsCall, Station, Doing, Idle
-----------------------------------------------------------------------------
LEMMA IdleNotBusy == ASSUME NEW a \in Axes PROVE ~Busy(Idle, a) /\ IsCall(Idle) /\ Station(Idle) /\ Idle.op # "policy"
BY ExitsAssumption DEF Busy, Idle, IsCall, Station, ExitsAssumption

\* Whoever holds the nodes is busy on them.
LEMMA HoldersAreBusy ==
    ASSUME ExitTypes, NEW h \in Holding
    PROVE  h \in ExitRequest /\ inflight[h].axis = "nodes" /\ inflight[h].pc = "idle" /\ Busy(inflight[h], "nodes")
BY ExitsAssumption DEF ExitTypes, Holding, Station, Doing, Idle, Busy, ExitsAssumption

LEMMA WorkingIs == ASSUME NEW a PROVE Working(a) = {r \in ExitRequest : Busy(inflight[r], a)}
BY DEF Working, Busy

LEMMA HeldStill ==
    ASSUME HeldOnce, ops' = ops, NEW r \in ExitRequest, NEW c, Goes(r, c),
           inflight[r].op # "policy", c.op # "policy"
    PROVE  Holding' = Holding /\ HeldOnce'
<1>1. \A q \in ExitRequest : inflight'[q].op = "policy" <=> inflight[q].op = "policy"
    BY DEF Goes
<1>2. Holding' = Holding
    BY <1>1 DEF Holding
<1>3. QED
    BY <1>2, Zenon DEF HeldOnce

LEMMA CarriedBy ==
    ASSUME NEW o, NEW f, NEW g, SubsAlike(f, g), NEW list, NEW served, Carried(o, f, list, served)
    PROVE  Carried(o, g, list, served)
<1>1. Wanted(g, o.arg) = Wanted(f, o.arg)
    BY DEF SubsAlike
<1>2. QED
    BY <1>1 DEF Carried

LEMMA CarriedStill ==
    ASSUME HeldOnce, NodesCarried, ops' = ops,
           "nodes" \notin torn' => ("nodes" \notin torn /\ AxisStill("nodes")) \/ Holding = {}
    PROVE  NodesCarried'
<1>1. CASE "nodes" \in torn'
    BY <1>1 DEF NodesCarried
<1>2. CASE Holding = {}
    <2>1. \A r \in PolicyRequest : ~Holds(ops'[r])
        BY <1>2 DEF HeldOnce
    <2>2. QED
        BY <2>1, Zenon DEF NodesCarried
<1>3. CASE "nodes" \notin torn /\ AxisStill("nodes")
    <2>1. InMem("nodes")' = InMem("nodes") /\ plane'["nodes"] = plane["nodes"] /\ SubsAlike(subs, subs')
        BY <1>3 DEF AxisStill
    <2>2. ASSUME NEW r \in PolicyRequest, Holds(ops'[r])
          PROVE  Carried(ops'[r], subs', InMem("nodes")', plane'["nodes"])
        <3>1. Carried(ops[r], subs, InMem("nodes"), plane["nodes"])
            BY <1>3, <2>2, Zenon DEF NodesCarried
        <3>2. Carried(ops[r], subs', InMem("nodes"), plane["nodes"])
            BY <2>1, <3>1, CarriedBy
        <3>3. QED
            BY <2>1, <3>2
    <2>3. QED
        BY <2>2, Zenon DEF NodesCarried
<1>4. QED
    BY <1>1, <1>2, <1>3

\* A step of a request of Exits.
LEMMA ExitStep ==
    ASSUME ExitInv, ops' = ops, NEW r \in ExitRequest, NEW c, Goes(r, c),
           inflight[r].op # "policy", c.op # "policy",
           NEW s, IsStores(s), NEW saved, Filed(s, saved), DOMAIN plane' = Axes,
           \A a \in Axes \ torn' : (a \notin torn /\ AxisStill(a)) \/ AxisMoved(r, a)
    PROVE  ExitInv'
<1>1. ExitTypes'
    BY GoesTyped DEF ExitInv
<1>2. HeldOnce'
    BY HeldStill DEF ExitInv
<1>3. \A a \in Axes \ torn' : Course(a)'
    BY CourseStill, CourseMoved DEF ExitInv
<1>4. AxisMoved(r, "nodes") => Holding = {}
    <2>1. SUFFICES ASSUME AxisMoved(r, "nodes"), NEW h \in Holding PROVE FALSE
        OBVIOUS
    <2>2. h \in ExitRequest /\ Busy(inflight[h], "nodes")
        BY HoldersAreBusy DEF ExitInv
    <2>3. h # r
        BY DEF Holding
    <2>4. inflight'[h] = inflight[h]
        BY <2>2, <2>3 DEF Goes
    <2>5. QED
        BY <2>1, <2>2, <2>3, <2>4 DEF AxisMoved
<1>5. "nodes" \in Axes
    BY DEF Axes
<1>6. NodesCarried'
    BY <1>4, <1>5, CarriedStill DEF ExitInv
<1>7. QED
    BY <1>1, <1>2, <1>3, <1>6 DEF ExitInv

\* One that has to do with the axes of X only.
Confined(r, c, s, X) ==
    \A a \in Axes \ X : /\ s[PartOf[a]] = Memory[PartOf[a]] /\ plane'[a] = plane[a]
                        /\ ~Busy(inflight[r], a) /\ ~Busy(c, a)
                        /\ a \in torn => a \in torn'
MovedOn(r, X) == \A x \in X \ torn' : AxisMoved(r, x)

LEMMA ExitStepOn ==
    ASSUME ExitInv, ops' = ops, NEW r \in ExitRequest, NEW c, Goes(r, c),
           inflight[r].op # "policy", c.op # "policy",
           NEW s, IsStores(s), NEW saved, Filed(s, saved), DOMAIN plane' = Axes,
           NEW X, Confined(r, c, s, X), MovedOn(r, X)
    PROVE  ExitInv'
<1>1. ASSUME NEW a \in Axes \ X, a \notin torn'
      PROVE  a \notin torn /\ AxisStill(a)
    <2>1. a \notin torn /\ a \in Axes
        BY <1>1 DEF Confined
    <2>2. OnDisk(a) = InMem(a)
        BY <2>1 DEF ExitInv, Course, AxisCourse
    <2>3. InMem(a)' = InMem(a) /\ OnDisk(a)' = OnDisk(a)
        BY <1>1, <2>2, StoresApart DEF Confined
    <2>4. a = "nodes" => subs' = subs
        BY <1>1 DEF PartOf, Filed, Memory, Confined
    <2>5. \A q \in ExitRequest :
            inflight'[q] = inflight[q] \/ (~Busy(inflight[q], a) /\ ~Busy(inflight'[q], a))
        BY <1>1 DEF Goes, Confined
    <2>6. plane'[a] = plane[a]
        BY <1>1 DEF Confined
    <2>7. QED
        BY <1>1, <2>1, <2>3, <2>4, <2>5, <2>6, SubsStay DEF AxisStill
<1>2. \A a \in Axes \ torn' : (a \notin torn /\ AxisStill(a)) \/ AxisMoved(r, a)
    BY <1>1 DEF MovedOn
<1>3. QED
    BY <1>2, ExitStep
-----------------------------------------------------------------------------
(***************************************************************************)
(* Requests that begin, go on and finish                                   *)
(***************************************************************************)
\* Only r goes on, as c, whatever c is.
Becomes(r, c) ==
    /\ IsCall(c) /\ DOMAIN inflight' = ExitRequest /\ inflight'[r] = c
    /\ \A q \in ExitRequest \ {r} : inflight'[q] = inflight[q]

LEMMA StationGoes == ASSUME NEW r, NEW c, Becomes(r, c), Station(c) PROVE Goes(r, c)
BY DEF Goes, Becomes

LEMMA SetIs ==
    ASSUME ExitTypes, NEW r \in ExitRequest, NEW c, IsCall(c), inflight' = [inflight EXCEPT ![r] = c]
    PROVE  Becomes(r, c)
BY DEF ExitTypes, Becomes

LEMMA StartIs ==
    ASSUME ExitTypes, NEW r \in ExitRequest, NEW pc, NEW axis, NEW op, NEW id,
           Start(r, pc, axis, op, id)
    PROVE  \E c : /\ Becomes(r, c)
                  /\ c.pc = pc /\ c.axis = axis /\ c.op = op /\ c.id = id
                  /\ c.list = None /\ c.undo = None /\ c.then = None
<1>1. PICK c : c = [Idle EXCEPT !.pc = pc, !.axis = axis, !.op = op, !.id = id]
    OBVIOUS
<1>2. /\ c.pc = pc /\ c.axis = axis /\ c.op = op /\ c.id = id
      /\ c.list = None /\ c.undo = None /\ c.then = None /\ IsCall(c)
    BY <1>1 DEF Idle, IsCall
<1>3. inflight' = [inflight EXCEPT ![r] = c]
    BY <1>1 DEF Start
<1>4. QED
    BY <1>2, <1>3, SetIs

LEMMA GotoIs ==
    ASSUME ExitTypes, NEW r \in ExitRequest, NEW pc, Goto(r, pc)
    PROVE  \E c : /\ Becomes(r, c) /\ c.pc = pc
                  /\ c.axis = inflight[r].axis /\ c.op = inflight[r].op /\ c.id = inflight[r].id
                  /\ c.list = inflight[r].list /\ c.undo = inflight[r].undo
                  /\ c.then = inflight[r].then
<1>1. PICK c : c = [inflight[r] EXCEPT !.pc = pc]
    OBVIOUS
<1>2. IsCall(inflight[r])
    BY DEF ExitTypes
<1>3. /\ c.pc = pc
      /\ c.axis = inflight[r].axis /\ c.op = inflight[r].op /\ c.id = inflight[r].id
      /\ c.list = inflight[r].list /\ c.undo = inflight[r].undo
      /\ c.then = inflight[r].then /\ IsCall(c)
    BY <1>1, <1>2 DEF IsCall
<1>4. inflight' = [inflight EXCEPT ![r] = c]
    BY <1>1 DEF Goto
<1>5. QED
    BY <1>3, <1>4, SetIs

LEMMA FinishIs ==
    ASSUME ExitTypes, NEW r \in ExitRequest, Finish(r)
    PROVE  Becomes(r, Idle) /\ Goes(r, Idle)
<1>1. IsCall(Idle) /\ Station(Idle)
    BY DEF IsCall, Station, Idle
<1>2. QED
    BY <1>1, SetIs, StationGoes DEF Finish

\* Who is alone on an axis begins with everything in step there.
LEMMA Opening ==
    ASSUME ExitInv, NEW a \in Axes, Working(a) = {}, a \notin torn
    PROVE  /\ plane[a] = InMem(a) /\ OnDisk(a) = InMem(a)
           /\ \A q \in ExitRequest : ~Busy(inflight[q], a)
<1>1. \A q \in ExitRequest : ~Busy(inflight[q], a)
    BY WorkingIs
<1>2. QED
    BY <1>1 DEF ExitInv, Course, AxisCourse

LEMMA BesideIs ==
    ASSUME NEW a, a \notin Beside(a)
    PROVE  Working(a) = {} /\ a \notin torn
BY DEF Beside

\* Who works on an axis is alone there.
LEMMA AloneOn ==
    ASSUME ExitInv, NEW a \in Axes, a \notin torn, NEW r \in ExitRequest, Busy(inflight[r], a)
    PROVE  /\ OnDisk(a) = InMem(a)
           /\ \A q \in ExitRequest \ {r} : ~Busy(inflight[q], a)
           /\ inflight[r].axis = a => Progress(inflight[r], subs, InMem(a), plane[a])
BY DEF ExitInv, Course, AxisCourse

LEMMA OpNotPolicy ==
    ASSUME ExitTypes, NEW r \in ExitRequest, inflight[r] = Idle \/ inflight[r].pc # "idle"
    PROVE  inflight[r].op # "policy"
<1>1. Station(inflight[r])
    BY DEF ExitTypes
<1>2. QED
    BY <1>1, ExitsAssumption DEF Station, Doing, Idle, ExitsAssumption

\* A step of r that has to do with the axis x only.
LEMMA AxisStep ==
    ASSUME ExitInv, ops' = ops, NEW r \in ExitRequest, NEW c, Goes(r, c),
           inflight[r].op # "policy", c.op # "policy", NEW x \in Axes,
           c.axis \in {None, x}, c.then = None,
           inflight[r].axis \in {None, x}, inflight[r].then = None,
           NEW s, IsStores(s), NEW saved, Filed(s, saved),
           \A f \in Parts \ {PartOf[x]} : s[f] = Memory[f],
           DOMAIN plane' = Axes, \A a \in Axes \ {x} : plane'[a] = plane[a],
           torn \ {x} \subseteq torn', x \notin torn' => AxisMoved(r, x)
    PROVE  ExitInv'
<1>1. \A a \in Axes \ {x} : PartOf[a] \in Parts \ {PartOf[x]}
    BY DEF PartOf, Axes, Parts
<1>2. \A a \in Axes \ {x} : s[PartOf[a]] = Memory[PartOf[a]]
    BY <1>1
<1>3. \A a \in Axes \ {x} : ~Busy(inflight[r], a) /\ ~Busy(c, a)
    BY ExitsAssumption DEF Busy, ExitsAssumption
<1>4. Confined(r, c, s, {x})
    BY <1>2, <1>3 DEF Confined
<1>5. MovedOn(r, {x})
    BY DEF MovedOn
<1>6. QED
    BY <1>4, <1>5, ExitStepOn

\* A request that begins on the axis x, and changes nothing yet.
LEMMA Begins ==
    ASSUME ExitInv, ops' = ops, NEW r \in ExitRequest, inflight[r] = Idle,
           NEW c, Goes(r, c), NEW x \in Axes, c.axis = x, c.then = None, c.op # "policy",
           c.pc \in {"fetch", "mark", "change", "collect"},
           c.pc = "mark" => x = "nodes" /\ c.id \in DOMAIN subs /\ subs[c.id].applied = (c.op = "unapply"),
           IF x \in {"endpoints", "disabled"} THEN c.undo = InMem(x)
           ELSE c.undo = None /\ c.pc # "change",
           Same, plane' = plane, torn' = Beside(x)
    PROVE  ExitInv'
<1>1. ExitTypes
    BY DEF ExitInv
<1>2. Filed(Memory, {}) /\ IsStores(Memory) /\ DOMAIN plane' = Axes /\ subs' = subs
    BY <1>1, SameIs DEF ExitTypes, Same
<1>3. torn \ {x} \subseteq torn'
    BY DEF Beside
<1>4. ASSUME x \notin torn'
      PROVE  AxisMoved(r, x)
    <2>1. /\ plane[x] = InMem(x) /\ OnDisk(x) = InMem(x)
          /\ \A q \in ExitRequest : ~Busy(inflight[q], x)
        BY <1>4, BesideIs, Opening
    <2>2. InMem(x)' = InMem(x) /\ OnDisk(x)' = OnDisk(x)
        BY <1>2, <2>1, StoresApart
    <2>3. Reverts(c) => x \in {"endpoints", "disabled"}
        BY ExitsAssumption DEF Reverts, ExitsAssumption
    <2>4. Progress(c, subs', InMem(x)', plane'[x])
        BY <1>2, <2>1, <2>2, <2>3 DEF Progress, Back
    <2>5. QED
        BY <2>1, <2>2, <2>4 DEF AxisMoved, Goes, Busy
<1>5. inflight[r].axis = None /\ inflight[r].then = None
    BY DEF Idle
<1>6. inflight[r].op # "policy"
    BY <1>1, OpNotPolicy
<1>7. QED
    BY <1>2, <1>3, <1>4, <1>5, <1>6, AxisStep

LEMMA RefreshSubServes ==
    ASSUME ExitInv, ops' = ops, NEW r \in ExitRequest, RefreshSub(r)
    PROVE  ExitInv'
<1>1. PICK id \in DOMAIN subs : Start(r, "fetch", "nodes", "refresh", id)
    BY DEF RefreshSub
<1>2. PICK c : /\ Becomes(r, c) /\ c.pc = "fetch" /\ c.axis = "nodes" /\ c.op = "refresh"
               /\ c.undo = None /\ c.then = None
    BY <1>1, StartIs DEF ExitInv
<1>3. Goes(r, c)
    BY <1>2, StationGoes DEF Station, Doing
<1>4. QED
    BY <1>2, <1>3, Begins DEF RefreshSub, Axes

LEMMA LookSubServes ==
    ASSUME ExitInv, ops' = ops, NEW r \in ExitRequest, LookSub(r)
    PROVE  ExitInv'
<1>1. PICK id \in DOMAIN subs :
            \/ Start(r, IF subs[id].applied THEN "collect" ELSE "mark", "nodes", "apply", id)
            \/ subs[id].applied /\ Start(r, "mark", "nodes", "unapply", id)
    BY DEF LookSub
<1>2. subs[id].applied \in BOOLEAN
    BY DEF ExitInv, ExitTypes, IsStores, IsSubs, Memory
<1>3. PICK c : /\ Becomes(r, c) /\ c.axis = "nodes" /\ c.id = id /\ c.undo = None /\ c.then = None
               /\ \/ c.op = "apply" /\ c.pc = IF subs[id].applied THEN "collect" ELSE "mark"
                  \/ c.op = "unapply" /\ c.pc = "mark" /\ subs[id].applied
    BY <1>1, StartIs DEF ExitInv
<1>4. Goes(r, c)
    BY <1>2, <1>3, StationGoes DEF Station, Doing
<1>5. QED
    BY <1>2, <1>3, <1>4, Begins DEF LookSub, Axes

LEMMA ReadPreviousServes ==
    ASSUME ExitInv, ops' = ops, NEW r \in ExitRequest, ReadPrevious(r)
    PROVE  ExitInv'
<1>1. PICK axis \in {"endpoints", "disabled"} :
            /\ inflight' = [inflight EXCEPT ![r] =
                    [Idle EXCEPT !.pc = "change", !.axis = axis, !.op = "restore",
                                 !.undo = IF axis = "endpoints" THEN endpoints ELSE disabled]]
            /\ torn' = Beside(axis)
    BY DEF ReadPrevious
<1>2. PICK c : /\ c = [Idle EXCEPT !.pc = "change", !.axis = axis, !.op = "restore",
                                 !.undo = IF axis = "endpoints" THEN endpoints ELSE disabled]
               /\ inflight' = [inflight EXCEPT ![r] = c]
    BY <1>1
<1>3. /\ IsCall(c) /\ c.pc = "change" /\ c.axis = axis /\ c.op = "restore" /\ c.then = None
      /\ c.undo = IF axis = "endpoints" THEN endpoints ELSE disabled
    BY <1>2 DEF Idle, IsCall
<1>4. Goes(r, c)
    BY <1>2, <1>3, SetIs, StationGoes DEF ExitInv, Station, Doing
<1>5. c.undo = InMem(axis)
    BY <1>3, DerivedIs DEF InMem, Memory
<1>6. axis \in Axes
    BY DEF Axes
<1>7. QED
    BY <1>1, <1>3, <1>4, <1>5, <1>6, Begins DEF ReadPrevious
-----------------------------------------------------------------------------
(***************************************************************************)
(* Subscriptions                                                           *)
(***************************************************************************)
IsSub(x) == x = [nodes |-> x.nodes, applied |-> x.applied] /\ x.applied \in BOOLEAN

LEMMA SubsAre == ASSUME NEW f, IsSubs(f), NEW i \in DOMAIN f PROVE IsSub(f[i])
<1>1. f[i] = [nodes |-> f[i].nodes, applied |-> f[i].applied]
    BY DEF IsSubs
<1>2. QED
    BY <1>1 DEF IsSubs, IsSub

\* Subscriptions put into the stores.
LEMMA SubsPut ==
    ASSUME IsStores(Memory), NEW g, IsSubs(g)
    PROVE  /\ IsStores([Memory EXCEPT !.subs = g]) /\ [Memory EXCEPT !.subs = g].subs = g
           /\ \A f \in Parts \ {PartOf["nodes"]} : [Memory EXCEPT !.subs = g][f] = Memory[f]
BY DEF IsStores, Memory, Parts, PartOf

LEMMA AssignSub ==
    ASSUME NEW f, IsSubs(f), NEW id, NEW x, IsSub(x), NEW g, g = Assign(f, id, x)
    PROVE  IsSubs(g)
<1>1. DOMAIN g = DOMAIN f \cup {id} /\ g[id] = x /\ \A i \in DOMAIN f \ {id} : g[i] = f[i]
    BY DEF Assign
<1>2. \A i \in DOMAIN g : IsSub(g[i])
    BY <1>1, SubsAre
<1>3. g = [i \in DOMAIN g |-> g[i]]
    BY DEF Assign
<1>4. \A i \in DOMAIN g : g[i] = [nodes |-> g[i].nodes, applied |-> g[i].applied]
    BY <1>2 DEF IsSub
<1>5. QED
    BY <1>2, <1>3, <1>4 DEF IsSubs, IsSub

\* The nodes of the others, and those of one that is applied.
LEMMA NodesWithout ==
    ASSUME NEW f, NEW g, NEW id,
           \A i : i # id => (i \in DOMAIN f <=> i \in DOMAIN g),
           \A i \in DOMAIN f \ {id} : g[i] = f[i],
           id \in DOMAIN f => ~f[id].applied \/ f[id].nodes = None,
           id \in DOMAIN g => ~g[id].applied \/ g[id].nodes = None
    PROVE  NodesOf(f) = NodesOf(g)
<1>1. {i \in DOMAIN f : f[i].applied /\ f[i].nodes # None} = {i \in DOMAIN g : g[i].applied /\ g[i].nodes # None}
    OBVIOUS
<1>2. \A i \in {j \in DOMAIN f : f[j].applied /\ f[j].nodes # None} : f[i] = g[i]
    OBVIOUS
<1>3. QED
    BY <1>1, <1>2 DEF NodesOf

LEMMA FetchedStation ==
    ASSUME ExitTypes, NEW r \in ExitRequest, inflight[r].pc = "fetch"
    PROVE  /\ inflight[r].undo = None /\ inflight[r].then = None
           /\ \/ inflight[r].axis = None /\ inflight[r].op = "add"
              \/ inflight[r].axis = "nodes" /\ inflight[r].op = "refresh"
<1>1. Station(inflight[r])
    BY DEF ExitTypes
<1>2. QED
    BY <1>1 DEF Station, Doing, Idle

\* A request that finishes and has changed nothing.
LEMMA Leaves ==
    ASSUME ExitInv, ops' = ops, NEW r \in ExitRequest, Finish(r), NEW x \in Axes,
           inflight[r].axis \in {None, x}, inflight[r].then = None, inflight[r].pc # "idle",
           Same, plane' = plane, torn' = torn,
           inflight[r].axis = x /\ x \notin torn => plane[x] = InMem(x)
    PROVE  ExitInv'
<1>1. ExitTypes /\ Goes(r, Idle)
    BY FinishIs DEF ExitInv
<1>2. Filed(Memory, {}) /\ IsStores(Memory) /\ DOMAIN plane' = Axes /\ subs' = subs
    BY <1>1, SameIs DEF ExitTypes, Same
<1>3. inflight[r].op # "policy" /\ Idle.op # "policy"
    BY <1>1, OpNotPolicy, IdleNotBusy
<1>4. CASE inflight[r].axis = x
    <2>1. ASSUME x \notin torn'
          PROVE  AxisMoved(r, x)
        <3>1. Busy(inflight[r], x)
            BY <1>4 DEF Busy
        <3>2. /\ plane[x] = InMem(x) /\ OnDisk(x) = InMem(x)
              /\ \A q \in ExitRequest \ {r} : ~Busy(inflight[q], x)
            BY <1>4, <2>1, <3>1, AloneOn
        <3>3. InMem(x)' = InMem(x) /\ OnDisk(x)' = OnDisk(x)
            BY <1>2, <3>2, StoresApart
        <3>4. QED
            BY <1>1, <3>2, <3>3, IdleNotBusy DEF AxisMoved, Goes, Busy
    <2>2. Idle.axis = None /\ Idle.then = None
        BY DEF Idle
    <2>3. QED
        BY <1>1, <1>2, <1>3, <2>1, <2>2, AxisStep
<1>5. CASE inflight[r].axis = None
    <2>1. Confined(r, Idle, Memory, {})
        BY <1>5, IdleNotBusy, ExitsAssumption DEF Confined, Busy, ExitsAssumption
    <2>2. MovedOn(r, {})
        BY DEF MovedOn
    <2>3. QED
        BY <1>1, <1>2, <1>3, <2>1, <2>2, ExitStepOn
<1>6. QED
    BY <1>4, <1>5

LEMMA FetchedServes ==
    ASSUME ExitInv, ops' = ops, NEW r \in ExitRequest, Fetched(r)
    PROVE  ExitInv'
<1>1. PICK id : id = inflight[r].id
    OBVIOUS
<1>2. /\ inflight[r].undo = None /\ inflight[r].then = None /\ inflight[r].pc = "fetch"
      /\ \/ inflight[r].axis = None /\ inflight[r].op = "add"
         \/ inflight[r].axis = "nodes" /\ inflight[r].op = "refresh"
    BY FetchedStation DEF ExitInv, Fetched
<1>3. ExitTypes /\ plane' = plane /\ DOMAIN plane' = Axes /\ "nodes" \in Axes
    BY DEF ExitInv, Fetched, ExitTypes, Axes
<1>4. inflight[r].axis = "nodes" /\ "nodes" \notin torn
        => /\ plane["nodes"] = InMem("nodes")
           /\ \A q \in ExitRequest \ {r} : ~Busy(inflight[q], "nodes")
    BY <1>2, <1>3, AloneOn DEF Busy, Progress
<1>5. CASE id \notin DOMAIN subs
    <2>1. Finish(r) /\ Same /\ torn' = torn
        BY <1>1, <1>5 DEF Fetched, Well
    <2>2. QED
        BY <1>2, <1>3, <1>4, <2>1, Leaves
<1>6. CASE id \in DOMAIN subs
    <2>1. PICK batch \in Batch \cup {None} :
            LET missed == inflight[r].op = "add" /\ (subs[id].applied \/ Working("nodes") # {}) IN
            /\ IF inflight[r].op = "refresh" /\ subs[id].applied
               THEN Goto(r, "collect") ELSE Finish(r)
            /\ \/ /\ Saved({"subs"}, With(id, Received(id, batch)))
                  /\ torn' = IF missed THEN torn \cup {"nodes"} ELSE torn
                  /\ UNCHANGED faults
               \/ /\ Unsaved(With(id, Received(id, batch)))
                  /\ faults < Faults /\ faults' = faults + 1
                  /\ torn' = torn \cup {"nodes"}
        BY <1>1, <1>6 DEF Fetched
    <2>2. IsSub(subs[id]) /\ IsSubs(subs)
        BY <1>3, <1>6, SubsAre DEF ExitTypes, IsStores, Memory
    <2>3. PICK x : x = Received(id, batch)
        OBVIOUS
    <2>4. IsSub(x) /\ x.applied = subs[id].applied
        BY <2>2, <2>3 DEF Received, IsSub
    <2>5. PICK g : g = Assign(subs, id, x)
        OBVIOUS
    <2>6. /\ IsSubs(g) /\ DOMAIN g = DOMAIN subs /\ g[id] = x
          /\ \A i \in DOMAIN subs \ {id} : g[i] = subs[i]
        <3>1. IsSubs(g)
            BY <2>2, <2>4, <2>5, AssignSub
        <3>2. DOMAIN g = DOMAIN subs \cup {id} /\ g[id] = x /\ \A i \in DOMAIN subs \ {id} : g[i] = subs[i]
            BY <2>5 DEF Assign
        <3>3. DOMAIN subs \cup {id} = DOMAIN subs
            BY <1>6
        <3>4. QED
            BY <3>1, <3>2, <3>3
    <2>7. PICK s : s = [Memory EXCEPT !.subs = g]
        OBVIOUS
    <2>8. With(id, Received(id, batch)) = s
        BY <2>3, <2>5, <2>7 DEF With, Memory
    <2>9. IsStores(s) /\ s.subs = g /\ \A f \in Parts \ {PartOf["nodes"]} : s[f] = Memory[f]
        BY <1>3, <2>6, <2>7, SubsPut DEF ExitTypes
    <2>10. PICK c : /\ Becomes(r, c)
                    /\ IF inflight[r].op = "refresh" /\ subs[id].applied
                       THEN /\ c.pc = "collect" /\ c.axis = "nodes" /\ c.op = "refresh"
                            /\ c.undo = None /\ c.then = None
                       ELSE c = Idle
        BY <1>2, <1>3, <2>1, GotoIs, FinishIs
    <2>11. Goes(r, c)
        BY <2>10, StationGoes DEF Station, Doing
    <2>12. inflight[r].op # "policy" /\ c.op # "policy"
        BY <1>2, <2>10, IdleNotBusy, <1>3
    <2>13. c.axis \in {None, "nodes"} /\ c.then = None
        BY <2>10 DEF Idle
    <2>14. PICK saved : Filed(s, saved) /\ ("nodes" \notin torn' => saved = {"subs"})
        <3>1. CASE Saved({"subs"}, s)
            BY <1>3, <2>9, <3>1, SavedIs
        <3>2. CASE Unsaved(s) /\ "nodes" \in torn'
            BY <1>3, <2>9, <3>2, UnsavedIs
        <3>3. QED
            BY <2>1, <2>8, <3>1, <3>2
    <2>15. torn \subseteq torn'
        BY <2>1
    <2>16. ASSUME "nodes" \notin torn'
           PROVE  AxisMoved(r, "nodes")
        <3>1. saved = {"subs"} /\ PartOf["nodes"] \in saved
            BY <2>14, <2>16 DEF PartOf
        <3>2. OnDisk("nodes")' = InMem("nodes")'
            BY <1>3, <2>14, <3>1, StoresWritten
        <3>3. InMem("nodes")' = NodesOf(g) /\ InMem("nodes") = NodesOf(subs)
            BY <2>9, <2>14, DerivedIs DEF Filed, InMem, Memory
        <3>4. CASE inflight[r].op = "refresh" /\ subs[id].applied
            <4>1. c.pc = "collect" /\ c.axis = "nodes" /\ c.op = "refresh" /\ c.undo = None
                BY <2>10, <3>4
            <4>2. ~Reverts(c)
                BY <4>1, ExitsAssumption DEF Reverts, ExitsAssumption
            <4>3. Progress(c, subs', InMem("nodes")', plane'["nodes"])
                BY <4>1, <4>2 DEF Progress
            <4>4. QED
                BY <1>2, <1>4, <2>11, <2>15, <2>16, <3>2, <3>4, <4>1, <4>3 DEF AxisMoved, Goes, Busy
        <3>5. CASE ~(inflight[r].op = "refresh" /\ subs[id].applied)
            <4>1. c = Idle
                BY <2>10, <3>5
            <4>2. "nodes" \notin torn
                BY <2>15, <2>16
            <4>3. inflight[r].op = "add" => ~subs[id].applied /\ Working("nodes") = {}
                BY <2>1, <2>16
            <4>4. ~subs[id].applied
                BY <1>2, <3>5, <4>3
            <4>5. NodesOf(g) = NodesOf(subs)
                BY <2>4, <2>6, <4>4, NodesWithout
            <4>6. /\ plane["nodes"] = InMem("nodes")
                  /\ \A q \in ExitRequest \ {r} : ~Busy(inflight[q], "nodes")
                BY <1>2, <1>3, <1>4, <4>2, <4>3, Opening
            <4>7. ~Busy(Idle, "nodes") /\ Idle.axis # "nodes"
                BY <1>3, IdleNotBusy DEF Busy
            <4>8. QED
                BY <1>3, <2>11, <3>2, <3>3, <4>1, <4>5, <4>6, <4>7 DEF AxisMoved, Goes
        <3>6. QED
            BY <3>4, <3>5
    <2>17. QED
        BY <1>2, <1>3, <2>9, <2>11, <2>12, <2>13, <2>14, <2>15, <2>16, AxisStep
<1>7. QED
    BY <1>5, <1>6
LEMMA FlagIs ==
    ASSUME NEW f, IsSubs(f), NEW id \in DOMAIN f, NEW v \in BOOLEAN, NEW g, g = Flag(f, id, v)
    PROVE  /\ IsSubs(g) /\ DOMAIN g = DOMAIN f
           /\ g[id].nodes = f[id].nodes /\ g[id].applied = v
           /\ \A i \in DOMAIN f \ {id} : g[i] = f[i]
<1>1. IsSub(f[id])
    BY SubsAre
<1>2. DOMAIN g = DOMAIN f /\ \A i \in DOMAIN f \ {id} : g[i] = f[i]
    BY DEF Flag
<1>3. g[id] = [f[id] EXCEPT !.applied = v]
    BY DEF Flag
<1>4. g[id].nodes = f[id].nodes /\ g[id].applied = v /\ IsSub(g[id])
    BY <1>1, <1>3 DEF IsSub
<1>5. \A i \in DOMAIN g : IsSub(g[i])
    BY <1>2, <1>4, SubsAre
<1>6. g = [i \in DOMAIN g |-> g[i]]
    BY DEF Flag, IsSubs
<1>7. \A i \in DOMAIN g : g[i] = [nodes |-> g[i].nodes, applied |-> g[i].applied]
    BY <1>5 DEF IsSub
<1>8. IsSubs(g)
    BY <1>5, <1>6, <1>7 DEF IsSubs, IsSub
<1>9. QED
    BY <1>2, <1>4, <1>8

\* A flag set twice is as it was.
LEMMA FlagBack ==
    ASSUME NEW f, IsSubs(f), NEW id \in DOMAIN f, NEW v \in BOOLEAN, NEW g, g = Flag(f, id, v)
    PROVE  Flag(g, id, f[id].applied) = f
<1>1. PICK h : h = Flag(g, id, f[id].applied)
    OBVIOUS
<1>2. IsSub(f[id])
    BY SubsAre
<1>3. /\ IsSubs(g) /\ DOMAIN g = DOMAIN f /\ g[id].nodes = f[id].nodes
      /\ \A i \in DOMAIN f \ {id} : g[i] = f[i]
    BY FlagIs
<1>4. /\ IsSubs(h) /\ DOMAIN h = DOMAIN g
      /\ h[id].nodes = g[id].nodes /\ h[id].applied = f[id].applied
      /\ \A i \in DOMAIN g \ {id} : h[i] = g[i]
    BY <1>1, <1>2, <1>3, FlagIs DEF IsSub
<1>5. \A i \in DOMAIN f : h[i].nodes = f[i].nodes /\ h[i].applied = f[i].applied
    BY <1>3, <1>4
<1>6. h = [i \in DOMAIN f |-> [nodes |-> f[i].nodes, applied |-> f[i].applied]]
    BY <1>3, <1>4, <1>5 DEF IsSubs
<1>7. QED
    BY <1>1, <1>6 DEF IsSubs

LEMMA WithAppliedIs ==
    ASSUME IsStores(Memory), NEW id, NEW v
    PROVE  WithApplied(id, v) = [Memory EXCEPT !.subs = Flag(subs, id, v)]
BY DEF WithApplied, Flag, Memory

LEMMA MarkStation ==
    ASSUME ExitTypes, NEW r \in ExitRequest, inflight[r].pc = "mark"
    PROVE  /\ inflight[r].undo = None /\ inflight[r].then = None
           /\ inflight[r].axis = "nodes" /\ inflight[r].op \in {"apply", "unapply"}
<1>1. Station(inflight[r])
    BY DEF ExitTypes
<1>2. QED
    BY <1>1 DEF Station, Doing, Idle

LEMMA MarkSubServes ==
    ASSUME ExitInv, ops' = ops, NEW r \in ExitRequest, MarkSub(r)
    PROVE  ExitInv'
<1>1. PICK id, apply : id = inflight[r].id /\ apply = (inflight[r].op = "apply")
    OBVIOUS
<1>2. /\ inflight[r].undo = None /\ inflight[r].then = None /\ inflight[r].pc = "mark"
      /\ inflight[r].axis = "nodes" /\ inflight[r].op \in {"apply", "unapply"} /\ IsCall(inflight[r])
    BY MarkStation DEF ExitInv, MarkSub, ExitTypes
<1>3. ExitTypes /\ plane' = plane /\ DOMAIN plane' = Axes /\ "nodes" \in Axes
    BY DEF ExitInv, MarkSub, ExitTypes, Axes
<1>4. "nodes" \notin torn
        => /\ plane["nodes"] = InMem("nodes") /\ OnDisk("nodes") = InMem("nodes")
           /\ \A q \in ExitRequest \ {r} : ~Busy(inflight[q], "nodes")
           /\ id \in DOMAIN subs /\ subs[id].applied = ~apply
    BY <1>1, <1>2, <1>3, AloneOn DEF Busy, Progress
<1>5. CASE id \notin DOMAIN subs /\ Finish(r) /\ Same /\ Well
    BY <1>2, <1>3, <1>4, <1>5, Leaves DEF Well
<1>6. CASE id \in DOMAIN subs
    <2>1. PICK g : g = Flag(subs, id, apply)
        OBVIOUS
    <2>2. PICK s : s = [Memory EXCEPT !.subs = g]
        OBVIOUS
    <2>3. IsSubs(subs)
        BY <1>3 DEF ExitTypes, IsStores, Memory
    <2>4. IsSubs(g)
        BY <1>1, <1>6, <2>1, <2>3, FlagIs
    <2>5. WithApplied(id, apply) = s
        BY <1>3, <2>1, <2>2, WithAppliedIs DEF ExitTypes
    <2>6. IsStores(s) /\ s.subs = g /\ \A f \in Parts \ {PartOf["nodes"]} : s[f] = Memory[f]
        BY <1>3, <2>2, <2>4, SubsPut DEF ExitTypes
    <2>7. inflight[r].op # "policy"
        BY <1>2
    <2>8. CASE /\ Saved({"subs"}, s) /\ Well
               /\ inflight' = [inflight EXCEPT ![r].pc = "collect",
                                               ![r].undo = IF apply THEN "clear" ELSE "set"]
        <3>1. PICK c : /\ c = [inflight[r] EXCEPT !.pc = "collect",
                                                  !.undo = IF apply THEN "clear" ELSE "set"]
                       /\ inflight' = [inflight EXCEPT ![r] = c]
            BY <1>3, <2>8 DEF ExitTypes
        <3>2. /\ IsCall(c) /\ c.pc = "collect" /\ c.undo = (IF apply THEN "clear" ELSE "set")
              /\ c.axis = "nodes" /\ c.op = inflight[r].op /\ c.id = id /\ c.then = None
            BY <1>1, <1>2, <3>1 DEF IsCall
        <3>3. Goes(r, c)
            BY <1>1, <1>2, <1>3, <3>1, <3>2, SetIs, StationGoes DEF Station, Doing
        <3>4. Filed(s, {"subs"}) /\ torn' = torn
            BY <1>3, <2>6, <2>8, SavedIs DEF Well
        <3>5. ASSUME "nodes" \notin torn'
              PROVE  AxisMoved(r, "nodes")
            <4>1. OnDisk("nodes")' = InMem("nodes")'
                BY <1>3, <3>4, StoresWritten DEF PartOf
            <4>2. subs' = g
                BY <2>6, <3>4 DEF Filed, Memory
            <4>3. Flag(g, id, ~apply) = subs
                <5>1. apply \in BOOLEAN
                    BY <1>1
                <5>2. Flag(g, id, subs[id].applied) = subs
                    BY <1>6, <2>1, <2>3, <5>1, FlagBack
                <5>3. subs[id].applied = ~apply
                    BY <1>4, <3>4, <3>5
                <5>4. QED
                    BY <5>2, <5>3
            <4>4. Back(c, g) = NodesOf(subs)
                BY <3>2, <4>3, <1>1 DEF Back
            <4>5. plane'["nodes"] = NodesOf(subs)
                BY <1>3, <1>4, <3>4, <3>5, DerivedIs DEF InMem, Memory
            <4>6. c.id \in DOMAIN subs'
                <5>1. DOMAIN g = DOMAIN subs
                    BY <2>1 DEF Flag
                <5>2. QED
                    BY <1>6, <3>2, <4>2, <5>1
            <4>7. Progress(c, subs', InMem("nodes")', plane'["nodes"])
                BY <3>2, <4>2, <4>4, <4>5, <4>6 DEF Progress
            <4>8. QED
                BY <1>4, <3>2, <3>3, <3>4, <3>5, <4>1, <4>7 DEF AxisMoved, Goes, Busy
        <3>6. c.op # "policy"
            BY <1>2, <3>2
        <3>7. QED
            BY <1>2, <1>3, <2>6, <2>7, <3>2, <3>3, <3>4, <3>5, <3>6, AxisStep
    <2>9. CASE Unsaved(s) /\ Finish(r) /\ Slip(r)
        <3>1. Goes(r, Idle) /\ Filed(s, {}) /\ "nodes" \in torn' /\ torn \subseteq torn'
            BY <1>2, <1>3, <2>6, <2>9, FinishIs, UnsavedIs DEF Slip
        <3>2. Idle.axis = None /\ Idle.then = None /\ Idle.op # "policy"
            BY <1>3, IdleNotBusy DEF Idle
        <3>3. QED
            BY <1>2, <1>3, <2>6, <2>7, <3>1, <3>2, AxisStep
    <2>10. QED
        BY <1>1, <1>6, <2>5, <2>8, <2>9 DEF MarkSub
<1>7. QED
    BY <1>1, <1>5, <1>6 DEF MarkSub
LEMMA DeleteSubServes ==
    ASSUME ExitInv, ops' = ops, NEW r \in ExitRequest, DeleteSub(r)
    PROVE  ExitInv'
<1>1. ExitTypes /\ inflight[r] = Idle /\ plane' = plane /\ DOMAIN plane' = Axes /\ "nodes" \in Axes
    BY DEF ExitInv, DeleteSub, ExitTypes, Axes
<1>2. PICK id \in DOMAIN subs :
        LET rest == [Memory EXCEPT !.subs = [i \in DOMAIN subs \ {id} |-> subs[i]]] IN
        \/ /\ Saved({"subs"}, rest)
           /\ IF subs[id].applied THEN Start(r, "collect", "nodes", "delete", id)
              ELSE UNCHANGED inflight
           /\ torn' = Beside("nodes")
        \/ Unsaved(rest) /\ torn' = torn \cup {"nodes"} /\ UNCHANGED inflight
    BY DEF DeleteSub
<1>3. PICK g : g = [i \in DOMAIN subs \ {id} |-> subs[i]]
    OBVIOUS
<1>4. PICK s : s = [Memory EXCEPT !.subs = g]
    OBVIOUS
<1>5. IsSubs(subs)
    BY <1>1 DEF ExitTypes, IsStores, Memory
<1>6. IsSubs(g)
    <2>1. DOMAIN g = DOMAIN subs \ {id} /\ \A i \in DOMAIN g : g[i] = subs[i]
        BY <1>3
    <2>2. \A i \in DOMAIN g : IsSub(g[i])
        BY <1>5, <2>1, SubsAre
    <2>3. \A i \in DOMAIN g : g[i] = [nodes |-> g[i].nodes, applied |-> g[i].applied]
        BY <2>2 DEF IsSub
    <2>4. g = [i \in DOMAIN g |-> g[i]]
        BY <1>3
    <2>5. QED
        BY <2>2, <2>3, <2>4 DEF IsSubs, IsSub
<1>7. IsStores(s) /\ s.subs = g /\ \A f \in Parts \ {PartOf["nodes"]} : s[f] = Memory[f]
    BY <1>1, <1>4, <1>6, SubsPut DEF ExitTypes
<1>8. inflight[r].op # "policy" /\ inflight[r].axis = None /\ inflight[r].then = None
    BY <1>1, OpNotPolicy DEF Idle
<1>9. torn \subseteq torn'
    BY <1>2 DEF Beside
<1>10. UNCHANGED inflight => Goes(r, Idle)
    BY <1>1, IdleNotBusy DEF Goes, ExitTypes
<1>11. Idle.axis = None /\ Idle.then = None /\ Idle.op # "policy"
    BY <1>1, IdleNotBusy DEF Idle
<1>12. CASE /\ Saved({"subs"}, s) /\ torn' = Beside("nodes")
            /\ IF subs[id].applied THEN Start(r, "collect", "nodes", "delete", id)
               ELSE UNCHANGED inflight
    <2>1. Filed(s, {"subs"})
        BY <1>1, <1>7, <1>12, SavedIs
    <2>2. ASSUME "nodes" \notin torn'
          PROVE  /\ plane'["nodes"] = NodesOf(subs) /\ OnDisk("nodes")' = InMem("nodes")'
                 /\ InMem("nodes")' = NodesOf(g)
                 /\ \A q \in ExitRequest : ~Busy(inflight[q], "nodes")
        <3>1. /\ plane["nodes"] = InMem("nodes")
              /\ \A q \in ExitRequest : ~Busy(inflight[q], "nodes")
            BY <1>1, <1>12, <2>2, BesideIs, Opening
        <3>2. OnDisk("nodes")' = InMem("nodes")'
            BY <1>1, <2>1, StoresWritten DEF PartOf
        <3>3. InMem("nodes")' = NodesOf(g) /\ InMem("nodes") = NodesOf(subs)
            BY <1>7, <2>1, DerivedIs DEF Filed, InMem, Memory
        <3>4. QED
            BY <1>1, <3>1, <3>2, <3>3
    <2>3. CASE subs[id].applied /\ Start(r, "collect", "nodes", "delete", id)
        <3>1. PICK c : /\ Becomes(r, c) /\ c.pc = "collect" /\ c.axis = "nodes" /\ c.op = "delete"
                       /\ c.undo = None /\ c.then = None
            BY <1>1, <2>3, StartIs
        <3>2. Goes(r, c)
            BY <3>1, StationGoes DEF Station, Doing
        <3>3. ~Reverts(c)
            BY <3>1, ExitsAssumption DEF Reverts, ExitsAssumption
        <3>4. Progress(c, subs', InMem("nodes")', plane'["nodes"])
            BY <3>1, <3>3 DEF Progress
        <3>5. "nodes" \notin torn' => AxisMoved(r, "nodes")
            BY <2>2, <3>1, <3>2, <3>4 DEF AxisMoved, Goes, Busy
        <3>6. QED
            BY <1>1, <1>7, <1>8, <1>9, <2>1, <3>1, <3>2, <3>5, AxisStep
    <2>4. CASE ~subs[id].applied /\ UNCHANGED inflight
        <3>1. DOMAIN g = DOMAIN subs \ {id} /\ \A i \in DOMAIN subs \ {id} : g[i] = subs[i]
            BY <1>3
        <3>2. NodesOf(g) = NodesOf(subs)
            BY <2>4, <3>1, NodesWithout
        <3>3. "nodes" \notin torn' => AxisMoved(r, "nodes")
            BY <1>10, <2>2, <2>4, <3>2, <1>1, IdleNotBusy DEF AxisMoved, Goes, Busy
        <3>4. QED
            BY <1>1, <1>7, <1>8, <1>9, <1>10, <1>11, <2>1, <2>4, <3>3, AxisStep
    <2>5. QED
        BY <1>12, <2>3, <2>4
<1>13. CASE Unsaved(s) /\ torn' = torn \cup {"nodes"} /\ UNCHANGED inflight
    <2>1. Filed(s, {})
        BY <1>1, <1>7, <1>13, UnsavedIs
    <2>2. QED
        BY <1>1, <1>7, <1>8, <1>9, <1>10, <1>11, <1>13, <2>1, AxisStep
<1>14. QED
    BY <1>2, <1>3, <1>4, <1>12, <1>13

LEMMA AddedAlike ==
    ASSUME NEW f, IsSubs(f), NEW id, id \notin DOMAIN f, NEW g,
           DOMAIN g = DOMAIN f \cup {id}, \A i \in DOMAIN f : g[i] = f[i],
           g[id].nodes = None, g[id].applied = FALSE
    PROVE  SubsAlike(f, g)
<1>1. NodesOf(g) = NodesOf(f)
    BY NodesWithout
<1>2. ASSUME NEW j \in DOMAIN f, NEW v \in BOOLEAN
      PROVE  NodesOf(Flag(g, j, v)) = NodesOf(Flag(f, j, v))
    <2>1. PICK h, k : h = Flag(g, j, v) /\ k = Flag(f, j, v)
        OBVIOUS
    <2>2. DOMAIN h = DOMAIN g /\ DOMAIN k = DOMAIN f /\ h[id] = g[id]
        BY <2>1 DEF Flag
    <2>3. \A i \in DOMAIN f : h[i] = k[i]
        BY <2>1 DEF Flag
    <2>4. NodesOf(k) = NodesOf(h)
        BY <2>2, <2>3, NodesWithout
    <2>5. QED
        BY <2>1, <2>4
<1>3. \A i : Wanted(g, i) = Wanted(f, i)
    <2>1. SUFFICES ASSUME NEW i PROVE Wanted(g, i) = Wanted(f, i)
        OBVIOUS
    <2>2. QED
        BY DEF Wanted
<1>4. QED
    BY <1>1, <1>2, <1>3, Zenon DEF SubsAlike

LEMMA AddSubServes ==
    ASSUME ExitInv, ops' = ops, NEW r \in ExitRequest, AddSub(r)
    PROVE  ExitInv'
<1>1. ExitTypes /\ inflight[r] = Idle /\ plane' = plane /\ DOMAIN plane' = Axes /\ torn' = torn
    BY DEF ExitInv, AddSub, ExitTypes
<1>2. IsSubs(subs) /\ IsStores(Memory)
    BY <1>1 DEF ExitTypes, IsStores, Memory
<1>3. PICK id \in Sub :
        /\ Unsaved(IF id \in DOMAIN subs THEN Memory ELSE With(id, [nodes |-> None, applied |-> FALSE]))
        /\ Start(r, "fetch", None, "add", id)
    BY DEF AddSub
<1>4. PICK c : /\ Becomes(r, c) /\ c.pc = "fetch" /\ c.axis = None /\ c.op = "add"
               /\ c.undo = None /\ c.then = None
    BY <1>1, <1>3, StartIs
<1>5. Goes(r, c)
    BY <1>4, StationGoes DEF Station, Doing
<1>6. PICK s : s = IF id \in DOMAIN subs THEN Memory ELSE With(id, [nodes |-> None, applied |-> FALSE])
    OBVIOUS
<1>7. /\ IsStores(s) /\ SubsAlike(subs, s.subs)
      /\ \A f \in Parts \ {PartOf["nodes"]} : s[f] = Memory[f]
    <2>1. CASE id \in DOMAIN subs
        <3>1. s = Memory /\ s.subs = subs
            BY <1>6, <2>1 DEF Memory
        <3>2. QED
            BY <1>2, <3>1, SubsStay
    <2>2. CASE id \notin DOMAIN subs
        <3>1. PICK x : x = [nodes |-> None, applied |-> FALSE]
            OBVIOUS
        <3>2. PICK g : g = Assign(subs, id, x)
            OBVIOUS
        <3>3. IsSubs(g)
            BY <1>2, <3>1, <3>2, AssignSub DEF IsSub
        <3>4. /\ DOMAIN g = DOMAIN subs \cup {id} /\ g[id] = x
              /\ \A i \in DOMAIN subs : g[i] = subs[i]
            BY <2>2, <3>2 DEF Assign
        <3>5. SubsAlike(subs, g)
            <4>1. g[id].nodes = None /\ g[id].applied = FALSE
                BY <3>1, <3>4
            <4>2. DOMAIN g = DOMAIN subs \cup {id} /\ \A i \in DOMAIN subs : g[i] = subs[i]
                BY <3>4
            <4>3. QED
                BY <1>2, <2>2, <4>1, <4>2, AddedAlike
        <3>6. s = [Memory EXCEPT !.subs = g]
            BY <1>6, <2>2, <3>1, <3>2 DEF With, Memory
        <3>7. QED
            BY <1>2, <3>3, <3>5, <3>6, SubsPut
    <2>3. QED
        BY <2>1, <2>2
<1>8. Filed(s, {})
    BY <1>1, <1>3, <1>6, <1>7, UnsavedIs
<1>9. ASSUME NEW a \in Axes \ torn
      PROVE  AxisStill(a)
    <2>1. OnDisk(a) = InMem(a)
        BY DEF ExitInv, Course, AxisCourse
    <2>2. InMem(a)' = InMem(a) /\ OnDisk(a)' = OnDisk(a)
        <3>1. CASE a = "nodes"
            <4>1. InMem("nodes")' = NodesOf(s.subs) /\ InMem("nodes") = NodesOf(subs)
                BY <1>8, DerivedIs DEF Filed, InMem, Memory
            <4>2. NodesOf(s.subs) = NodesOf(subs)
                BY <1>7 DEF SubsAlike
            <4>3. exitFiles' = exitFiles
                BY <1>3 DEF Unsaved
            <4>4. QED
                BY <3>1, <4>1, <4>2, <4>3 DEF OnDisk
        <3>2. CASE a # "nodes"
            <4>1. PartOf[a] \in Parts \ {PartOf["nodes"]}
                BY <3>2 DEF PartOf, Axes, Parts
            <4>2. QED
                BY <1>7, <1>8, <2>1, <4>1, StoresApart
        <3>3. QED
            BY <3>1, <3>2
    <2>3. ~Busy(inflight[r], a) /\ ~Busy(c, a)
        BY <1>1, <1>4, IdleNotBusy, ExitsAssumption DEF Busy, ExitsAssumption
    <2>4. a = "nodes" => SubsAlike(subs, subs')
        BY <1>7, <1>8 DEF Filed, Memory
    <2>5. QED
        BY <1>1, <1>5, <2>2, <2>3, <2>4 DEF AxisStill, Goes
<1>10. inflight[r].op # "policy" /\ c.op # "policy"
    BY <1>1, <1>4, OpNotPolicy
<1>11. \A a \in Axes \ torn' : (a \notin torn /\ AxisStill(a)) \/ AxisMoved(r, a)
    BY <1>1, <1>9
<1>12. QED
    BY <1>1, <1>5, <1>7, <1>8, <1>10, <1>11, ExitStep
-----------------------------------------------------------------------------
(***************************************************************************)
(* Gateways, endpoints and switched-off nodes                              *)
(***************************************************************************)
LEMMA PartPut ==
    ASSUME IsStores(Memory), NEW p \in Parts \ {"subs"}, NEW x, NEW s, s = [Memory EXCEPT ![p] = x]
    PROVE  /\ IsStores(s) /\ s.subs = subs /\ s[p] = x
           /\ \A f \in Parts \ {p} : s[f] = Memory[f]
BY DEF IsStores, IsSubs, Memory, Parts

\* The requests stay where they are, and so does every axis that is in step.
LEMMA ExitStay ==
    ASSUME ExitInv, ops' = ops, inflight' = inflight, plane' = plane, torn \subseteq torn',
           NEW s, IsStores(s), NEW saved, Filed(s, saved), s.subs = subs,
           \A a \in Axes \ torn' : Derived(s)[a] = InMem(a)
    PROVE  ExitInv'
<1>1. ExitTypes'
    <2>1. IsStores(Memory)' /\ IsStores(exitFiles)'
        BY StoresTyped DEF ExitInv
    <2>2. DOMAIN plane' = Axes /\ DOMAIN inflight' = ExitRequest
        BY DEF ExitInv, ExitTypes
    <2>3. \A r \in ExitRequest : IsCall(inflight'[r]) /\ Station(inflight'[r])
        BY DEF ExitInv, ExitTypes
    <2>4. QED
        BY <2>1, <2>2, <2>3, Zenon DEF ExitTypes, IsCall, Station, Doing, Idle
<1>2. HeldOnce'
    BY Zenon DEF ExitInv, HeldOnce, Holding
<1>3. subs' = subs
    BY DEF Filed, Memory
<1>4. ASSUME NEW a \in Axes \ torn'
      PROVE  a \notin torn /\ AxisStill(a)
    <2>1. a \notin torn /\ OnDisk(a) = InMem(a)
        BY DEF ExitInv, Course, AxisCourse
    <2>2. InMem(a)' = InMem(a)
        BY DEF Filed, InMem
    <2>3. OnDisk(a)' = OnDisk(a)
        <3>1. CASE PartOf[a] \in saved
            BY <2>1, <2>2, <3>1, StoresWritten
        <3>2. CASE PartOf[a] \notin saved
            <4>1. (exitFiles')[PartOf[a]] = exitFiles[PartOf[a]]
                BY <3>2 DEF Filed, PartOf, Axes, Parts
            <4>2. QED
                BY <4>1, DerivedBy DEF OnDisk
        <3>3. QED
            BY <3>1, <3>2
    <2>4. QED
        BY <1>3, <2>1, <2>2, <2>3, SubsStay DEF AxisStill
<1>5. \A a \in Axes \ torn' : Course(a)'
    BY <1>4, CourseStill DEF ExitInv
<1>6. "nodes" \in Axes
    BY DEF Axes
<1>7. NodesCarried'
    BY <1>4, <1>6, CarriedStill DEF ExitInv
<1>8. QED
    BY <1>1, <1>2, <1>5, <1>7 DEF ExitInv

\* Only the gateways change, and the exits were let slip unless they stay.
LEMMA GatewaysStay ==
    ASSUME ExitInv, ops' = ops, inflight' = inflight, plane' = plane, torn \subseteq torn',
           NEW x, NEW s, s = [Memory EXCEPT !.gateways = x], NEW saved, Filed(s, saved),
           "exits" \in torn' \/ ExitNodes(s) = ExitNodes(Memory)
    PROVE  ExitInv'
<1>1. IsStores(s) /\ \A f \in Parts \ {"gateways"} : s[f] = Memory[f]
    BY PartPut DEF ExitInv, ExitTypes, Parts
<1>2. s.subs = subs
    BY DEF Memory
<1>3. ASSUME NEW a \in Axes \ torn'
      PROVE  Derived(s)[a] = InMem(a)
    <2>1. CASE a = "exits"
        BY <2>1, DerivedIs DEF InMem
    <2>2. CASE a # "exits"
        <3>1. PartOf[a] \in Parts \ {"gateways"}
            BY <2>2 DEF PartOf, Axes, Parts
        <3>2. QED
            BY <1>1, <3>1, DerivedBy DEF InMem
    <2>3. QED
        BY <2>1, <2>2
<1>4. QED
    BY <1>1, <1>2, <1>3, ExitStay

LEMMA DeleteGatewayServes ==
    ASSUME ExitInv, ops' = ops, DeleteGateway
    PROVE  ExitInv'
<1>1. PICK id \in DOMAIN gateways :
        Saved(Registry, [Memory EXCEPT !.gateways = [g \in DOMAIN gateways \ {id} |-> gateways[g]]])
    BY DEF DeleteGateway
<1>2. PICK x, s : x = [g \in DOMAIN gateways \ {id} |-> gateways[g]] /\ s = [Memory EXCEPT !.gateways = x]
    OBVIOUS
<1>3. IsStores(s)
    BY <1>2, PartPut DEF ExitInv, ExitTypes, Parts
<1>4. Filed(s, Registry)
    BY <1>1, <1>2, <1>3, SavedIs DEF ExitInv
<1>5. inflight' = inflight /\ plane' = plane /\ torn' = torn \cup {"exits"}
    BY DEF DeleteGateway
<1>6. QED
    BY <1>2, <1>4, <1>5, GatewaysStay

LEMMA PatchGatewayServes ==
    ASSUME ExitInv, ops' = ops, NEW r \in ExitRequest, PatchGateway(r)
    PROVE  ExitInv'
<1>1. ExitTypes /\ inflight[r] = Idle /\ plane' = plane /\ DOMAIN plane' = Axes /\ "exits" \in Axes
    BY DEF ExitInv, PatchGateway, ExitTypes, Axes
<1>2. PICK id, x, y :
        /\ y = [g \in DOMAIN gateways \ {id} |-> gateways[g]]
        /\ \/ /\ Saved(Registry, [Memory EXCEPT !.gateways = x])
              /\ Start(r, "collect", "exits", "patch", id) /\ torn' = Beside("exits")
           \/ /\ Saved(Registry, [Memory EXCEPT !.gateways = y])
              /\ torn' = IF id \in DOMAIN gateways THEN torn \cup {"exits"} ELSE torn
              /\ inflight' = inflight
           \/ /\ Unsaved([Memory EXCEPT !.gateways = x])
              /\ torn' = torn \cup {"exits"} /\ inflight' = inflight
    <2>1. PICK id \in Gateway, patch \in GatewayPatch, add \in BOOLEAN :
            LET before == IF add THEN NoEntry ELSE gateways[id]
                entry == Patched(before, patch)
                changed == [Memory EXCEPT !.gateways = Assign(@, id, entry)]
                removed == [Memory EXCEPT !.gateways =
                                [g \in DOMAIN gateways \ {id} |-> gateways[g]]]
            IN  \/ /\ Saved(Registry, changed)
                   /\ Start(r, "collect", "exits", "patch", id) /\ torn' = Beside("exits")
                \/ /\ Saved(Registry, removed)
                   /\ torn' = IF id \in DOMAIN gateways THEN torn \cup {"exits"} ELSE torn
                   /\ inflight' = inflight
                \/ /\ Unsaved(changed)
                   /\ torn' = torn \cup {"exits"} /\ inflight' = inflight
        BY DEF PatchGateway
    <2>2. PICK x : x = Assign(Memory.gateways, id, Patched(IF add THEN NoEntry ELSE gateways[id], patch))
        OBVIOUS
    <2>3. QED
        BY <2>1, <2>2
<1>3. PICK s, t : s = [Memory EXCEPT !.gateways = x] /\ t = [Memory EXCEPT !.gateways = y]
    OBVIOUS
<1>4. /\ IsStores(s) /\ \A f \in Parts \ {PartOf["exits"]} : s[f] = Memory[f]
      /\ IsStores(t)
    <2>1. "gateways" \in Parts \ {"subs"} /\ PartOf["exits"] = "gateways" /\ IsStores(Memory)
        BY <1>1 DEF Parts, PartOf, ExitTypes
    <2>2. IsStores(s) /\ \A f \in Parts \ {"gateways"} : s[f] = Memory[f]
        BY <1>3, <2>1, PartPut
    <2>3. IsStores(t)
        BY <1>3, <2>1, PartPut
    <2>4. QED
        BY <2>1, <2>2, <2>3
<1>5. CASE /\ Saved(Registry, s)
           /\ Start(r, "collect", "exits", "patch", id) /\ torn' = Beside("exits")
    <2>1. Filed(s, Registry)
        BY <1>1, <1>4, <1>5, SavedIs
    <2>2. PICK c : /\ Becomes(r, c) /\ c.pc = "collect" /\ c.axis = "exits" /\ c.op = "patch"
                   /\ c.undo = None /\ c.then = None
        BY <1>1, <1>5, StartIs
    <2>3. Goes(r, c)
        BY <2>2, StationGoes DEF Station, Doing
    <2>4. ASSUME "exits" \notin torn'
          PROVE  AxisMoved(r, "exits")
        <3>1. \A q \in ExitRequest : ~Busy(inflight[q], "exits")
            BY <1>1, <1>5, <2>4, BesideIs, Opening
        <3>2. OnDisk("exits")' = InMem("exits")'
            BY <1>1, <2>1, StoresWritten DEF PartOf, Registry
        <3>3. ~Reverts(c)
            BY <2>2, ExitsAssumption DEF Reverts, ExitsAssumption
        <3>4. Progress(c, subs', InMem("exits")', plane'["exits"])
            BY <2>2, <3>3 DEF Progress
        <3>5. QED
            BY <2>2, <2>3, <3>1, <3>2, <3>4 DEF AxisMoved, Goes, Busy
    <2>5. torn \ {"exits"} \subseteq torn'
        BY <1>5 DEF Beside
    <2>6. /\ inflight[r].op # "policy" /\ inflight[r].axis = None /\ inflight[r].then = None
          /\ c.op # "policy"
        BY <1>1, <2>2, OpNotPolicy DEF Idle
    <2>7. QED
        BY <1>1, <1>4, <2>1, <2>2, <2>3, <2>4, <2>5, <2>6, AxisStep
<1>6. CASE /\ Saved(Registry, t)
           /\ torn' = IF id \in DOMAIN gateways THEN torn \cup {"exits"} ELSE torn
           /\ inflight' = inflight
    <2>1. Filed(t, Registry) /\ torn \subseteq torn'
        BY <1>1, <1>4, <1>6, SavedIs
    <2>2. "exits" \in torn' \/ ExitNodes(t) = ExitNodes(Memory)
        <3>1. CASE id \notin DOMAIN gateways
            <4>1. DOMAIN y = DOMAIN gateways /\ \A g \in DOMAIN gateways : y[g] = gateways[g]
                BY <1>2, <3>1
            <4>2. t.gateways = y /\ Memory.gateways = gateways
                BY <1>3 DEF Memory
            <4>3. QED
                BY <4>1, <4>2 DEF ExitNodes
        <3>2. QED
            BY <1>6, <3>1
    <2>3. QED
        BY <1>1, <1>3, <1>6, <2>1, <2>2, GatewaysStay
<1>7. CASE Unsaved(s) /\ torn' = torn \cup {"exits"} /\ inflight' = inflight
    <2>1. Filed(s, {}) /\ torn \subseteq torn'
        BY <1>1, <1>4, <1>7, UnsavedIs
    <2>2. QED
        BY <1>1, <1>3, <1>7, <2>1, GatewaysStay
<1>8. QED
    BY <1>2, <1>3, <1>5, <1>6, <1>7
LEMMA PatchLocalServes ==
    ASSUME ExitInv, ops' = ops, NEW r \in ExitRequest, PatchLocal(r)
    PROVE  ExitInv'
<1>1. ExitTypes /\ inflight[r] = Idle /\ plane' = plane /\ DOMAIN plane' = Axes
    BY DEF ExitInv, PatchLocal, ExitTypes
<1>2. PICK mode : Saved(Registry, [Memory EXCEPT !.localMode = mode])
    BY DEF PatchLocal
<1>3. PICK s : s = [Memory EXCEPT !.localMode = mode]
    OBVIOUS
<1>4. IsStores(s) /\ \A f \in Parts \ {"localMode"} : s[f] = Memory[f]
    BY <1>1, <1>3, PartPut DEF ExitTypes, Parts
<1>5. Filed(s, Registry)
    BY <1>1, <1>2, <1>3, <1>4, SavedIs
<1>6. PICK c : /\ c = [Idle EXCEPT !.pc = "collect", !.axis = "exits", !.then = "client"]
               /\ inflight' = [inflight EXCEPT ![r] = c]
    BY DEF PatchLocal
<1>7. /\ IsCall(c) /\ c.pc = "collect" /\ c.axis = "exits" /\ c.op = None /\ c.then = "client"
      /\ c.undo = None
    BY <1>6 DEF IsCall, Idle
<1>8. Goes(r, c)
    BY <1>1, <1>6, <1>7, SetIs, StationGoes DEF Station, Doing
<1>9. torn' = Beside("exits") \cup (IF Working("client") = {} THEN {} ELSE {"client"})
    BY DEF PatchLocal
<1>10. torn \subseteq torn'
    BY <1>9 DEF Beside
<1>11. inflight[r].op # "policy" /\ c.op # "policy"
    BY <1>1, <1>7, OpNotPolicy, ExitsAssumption DEF ExitsAssumption
<1>12. \A a \in Axes \ {"exits", "client"} : s[PartOf[a]] = Memory[PartOf[a]]
    <2>1. \A a \in Axes \ {"exits", "client"} : PartOf[a] \in Parts \ {"localMode"}
        BY DEF PartOf, Axes, Parts
    <2>2. QED
        BY <1>4, <2>1
<1>13. Confined(r, c, s, {"exits", "client"})
    BY <1>1, <1>7, <1>10, <1>12, IdleNotBusy DEF Confined, Busy
<1>14. ASSUME NEW a \in {"exits", "client"}, a \notin torn'
       PROVE  AxisMoved(r, a)
    <2>1. Working(a) = {} /\ a \notin torn /\ a \in Axes
        BY <1>9, <1>14 DEF Beside, Axes
    <2>2. \A q \in ExitRequest : ~Busy(inflight[q], a)
        BY <2>1, Opening
    <2>3. OnDisk(a)' = InMem(a)'
        BY <1>5, <2>1, StoresWritten DEF PartOf, Registry
    <2>4. Busy(c, a)
        BY <1>7 DEF Busy
    <2>5. ~Reverts(c)
        BY <1>7, ExitsAssumption DEF Reverts, ExitsAssumption
    <2>6. c.axis = a => Progress(c, subs', InMem(a)', plane'[a])
        BY <1>7, <2>5 DEF Progress
    <2>7. QED
        BY <1>8, <2>2, <2>3, <2>4, <2>6 DEF AxisMoved, Goes
<1>15. MovedOn(r, {"exits", "client"})
    BY <1>14 DEF MovedOn
<1>16. QED
    BY <1>1, <1>4, <1>5, <1>8, <1>11, <1>13, <1>15, ExitStepOn

LEMMA ChangeStation ==
    ASSUME ExitTypes, NEW r \in ExitRequest, inflight[r].pc = "change"
    PROVE  /\ inflight[r].then = None /\ inflight[r].op = "restore"
           /\ inflight[r].axis \in {"endpoints", "disabled"}
<1>1. Station(inflight[r])
    BY DEF ExitTypes
<1>2. QED
    BY <1>1 DEF Station, Doing, Idle

\* A change of the endpoints or of the nodes that are switched off.
LEMMA ChangeOf ==
    ASSUME ExitInv, ops' = ops, NEW r \in ExitRequest, inflight[r].pc = "change",
           NEW p \in {"endpoints", "disabled"}, p = inflight[r].axis,
           NEW new, NEW s, IsStores(s), s[p] = new, \A f \in Parts \ {p} : s[f] = Memory[f],
           plane' = plane,
           \/ /\ Saved({p}, s) /\ Well
              /\ \/ Goto(r, "collect") /\ p = "endpoints"
                 \/ inflight' = [inflight EXCEPT ![r].pc = "push", ![r].list = new]
           \/ Unsaved(s) /\ Finish(r) /\ Slip(r)
    PROVE  ExitInv'
<1>1. /\ ExitTypes /\ DOMAIN plane' = Axes /\ p \in Axes /\ p \in Parts /\ PartOf[p] = p
      /\ IsCall(inflight[r])
    BY DEF ExitInv, ExitTypes, Axes, Parts, PartOf
<1>2. inflight[r].then = None /\ inflight[r].op = "restore" /\ inflight[r].axis = p
    BY <1>1, ChangeStation
<1>3. IsStores(s) /\ s[p] = new /\ \A f \in Parts \ {p} : s[f] = Memory[f]
    OBVIOUS
<1>4. inflight[r].op # "policy"
    BY <1>2
<1>5. CASE /\ Saved({p}, s) /\ Well
           /\ \/ Goto(r, "collect") /\ p = "endpoints"
              \/ inflight' = [inflight EXCEPT ![r].pc = "push", ![r].list = new]
    <2>1. Filed(s, {p}) /\ torn' = torn
        BY <1>1, <1>3, <1>5, SavedIs DEF Well
    <2>2. PICK c : /\ Becomes(r, c) /\ c.axis = p /\ c.op = "restore" /\ c.then = None
                   /\ c.undo = inflight[r].undo
                   /\ (c.pc = "collect" /\ p = "endpoints") \/ (c.pc = "push" /\ c.list = new)
        <3>1. CASE Goto(r, "collect") /\ p = "endpoints"
            <4>0. ExitTypes /\ Goto(r, "collect")
                BY <1>1, <3>1
            <4>1. PICK c : /\ Becomes(r, c) /\ c.pc = "collect"
                           /\ c.axis = inflight[r].axis /\ c.op = inflight[r].op /\ c.id = inflight[r].id
                           /\ c.list = inflight[r].list /\ c.undo = inflight[r].undo
                           /\ c.then = inflight[r].then
                BY <4>0, GotoIs
            <4>2. QED
                BY <1>2, <3>1, <4>1
        <3>2. CASE inflight' = [inflight EXCEPT ![r].pc = "push", ![r].list = new]
            <4>1. PICK c : /\ c = [inflight[r] EXCEPT !.pc = "push", !.list = new]
                           /\ inflight' = [inflight EXCEPT ![r] = c]
                BY <1>1, <3>2 DEF ExitTypes
            <4>2. /\ IsCall(c) /\ c.pc = "push" /\ c.list = new /\ c.axis = p /\ c.op = "restore"
                  /\ c.then = None /\ c.undo = inflight[r].undo
                BY <1>1, <1>2, <4>1 DEF IsCall
            <4>3. QED
                BY <1>1, <4>1, <4>2, SetIs
        <3>3. QED
            BY <1>5, <3>1, <3>2
    <2>3. Goes(r, c)
        BY <2>2, StationGoes DEF Station, Doing
    <2>4. ASSUME p \notin torn'
          PROVE  AxisMoved(r, p)
        <3>1. /\ \A q \in ExitRequest \ {r} : ~Busy(inflight[q], p)
              /\ Progress(inflight[r], subs, InMem(p), plane[p])
            BY <1>1, <1>2, <2>1, <2>4, AloneOn DEF Busy
        <3>2. plane[p] = inflight[r].undo
            BY <1>2, <3>1 DEF Progress, Reverts, Back
        <3>3. OnDisk(p)' = InMem(p)'
            BY <1>1, <2>1, StoresWritten
        <3>4. InMem(p)' = new
            <4>1. InMem(p)' = Derived(s)[p]
                BY <2>1 DEF Filed, InMem
            <4>2. CASE p = "endpoints"
                BY <1>3, <4>1, <4>2, DerivedIs
            <4>3. CASE p = "disabled"
                BY <1>3, <4>1, <4>3, DerivedIs
            <4>4. QED
                BY <4>2, <4>3
        <3>5. Progress(c, subs', InMem(p)', plane'[p])
            BY <2>2, <3>2, <3>4 DEF Progress, Back
        <3>6. QED
            BY <2>2, <2>3, <3>1, <3>3, <3>5 DEF AxisMoved, Goes, Busy
    <2>5. QED
        BY <1>1, <1>2, <1>3, <1>4, <2>1, <2>2, <2>3, <2>4, AxisStep
<1>6. CASE Unsaved(s) /\ Finish(r) /\ Slip(r)
    <2>1. Goes(r, Idle) /\ Filed(s, {}) /\ p \in torn' /\ torn \subseteq torn'
        BY <1>1, <1>3, <1>6, FinishIs, UnsavedIs DEF Slip
    <2>2. Idle.axis = None /\ Idle.then = None /\ Idle.op # "policy"
        BY <1>1, IdleNotBusy DEF Idle
    <2>3. QED
        BY <1>1, <1>2, <1>3, <1>4, <2>1, <2>2, AxisStep
<1>7. QED
    BY <1>5, <1>6

LEMMA ChangeEndpointsServes ==
    ASSUME ExitInv, ops' = ops, NEW r \in ExitRequest, ChangeEndpoints(r)
    PROVE  ExitInv'
<1>1. PICK new : \/ Saved({"endpoints"}, [Memory EXCEPT !.endpoints = new]) /\ Goto(r, "collect") /\ Well
                 \/ Unsaved([Memory EXCEPT !.endpoints = new]) /\ Finish(r) /\ Slip(r)
    BY DEF ChangeEndpoints
<1>2. PICK s : s = [Memory EXCEPT !.endpoints = new]
    OBVIOUS
<1>3. IsStores(Memory) /\ "endpoints" \in Parts \ {"subs"}
    BY DEF ExitInv, ExitTypes, Parts
<1>4. IsStores(s) /\ s["endpoints"] = new /\ \A f \in Parts \ {"endpoints"} : s[f] = Memory[f]
    BY <1>2, <1>3, PartPut
<1>5. inflight[r].pc = "change" /\ inflight[r].axis = "endpoints" /\ plane' = plane
    BY DEF ChangeEndpoints
<1>6. QED
    BY <1>1, <1>2, <1>4, <1>5, ChangeOf

LEMMA ChangeDisabledServes ==
    ASSUME ExitInv, ops' = ops, NEW r \in ExitRequest, ChangeDisabled(r)
    PROVE  ExitInv'
<1>1. PICK new : \/ /\ Saved({"disabled"}, [Memory EXCEPT !.disabled = new]) /\ Well
                    /\ inflight' = [inflight EXCEPT ![r].pc = "push", ![r].list = new]
                 \/ Unsaved([Memory EXCEPT !.disabled = new]) /\ Finish(r) /\ Slip(r)
    BY DEF ChangeDisabled
<1>2. PICK s : s = [Memory EXCEPT !.disabled = new]
    OBVIOUS
<1>3. IsStores(Memory) /\ "disabled" \in Parts \ {"subs"}
    BY DEF ExitInv, ExitTypes, Parts
<1>4. IsStores(s) /\ s["disabled"] = new /\ \A f \in Parts \ {"disabled"} : s[f] = Memory[f]
    BY <1>2, <1>3, PartPut
<1>5. inflight[r].pc = "change" /\ inflight[r].axis = "disabled" /\ plane' = plane
    BY DEF ChangeDisabled
<1>6. QED
    BY <1>1, <1>2, <1>4, <1>5, ChangeOf
-----------------------------------------------------------------------------
(***************************************************************************)
(* Into the data plane, and back                                           *)
(***************************************************************************)
\* A step of r on the axes it is busy with.
LEMMA BusyStep ==
    ASSUME ExitInv, ops' = ops, NEW r \in ExitRequest, NEW c, Goes(r, c),
           inflight[r].op # "policy", c.op # "policy",
           NEW s, IsStores(s), NEW saved, Filed(s, saved), DOMAIN plane' = Axes,
           \A a \in Axes : Busy(c, a) => Busy(inflight[r], a),
           \A a \in Axes : ~Busy(inflight[r], a) =>
                /\ s[PartOf[a]] = Memory[PartOf[a]] /\ plane'[a] = plane[a]
                /\ a \in torn => a \in torn',
           \A a \in Axes \ torn' : Busy(inflight[r], a) => AxisMoved(r, a)
    PROVE  ExitInv'
<1>1. PICK X : X = {a \in Axes : Busy(inflight[r], a)}
    OBVIOUS
<1>2. Confined(r, c, s, X)
    BY <1>1 DEF Confined
<1>3. MovedOn(r, X)
    BY <1>1 DEF MovedOn
<1>4. QED
    BY <1>2, <1>3, ExitStepOn

\* Where a request that serves its list can be.
LEMMA ServeStation ==
    ASSUME ExitTypes, NEW r \in ExitRequest, NEW c, c = inflight[r], c.pc \in {"collect", "push", "undo"}
    PROVE  /\ IsCall(c) /\ Station(c) /\ c.axis \in Axes /\ c.op # "policy"
           /\ c.then \in {None, "client"} /\ c.then # c.axis
           /\ c.pc = "undo" => Reverts(c) /\ c.then = None
<1>1. IsCall(c) /\ Station(c)
    BY DEF ExitTypes
<1>2. c # Idle
    BY DEF Idle
<1>3. QED
    BY <1>1, <1>2, ExitsAssumption DEF Station, Doing, Reverts, Axes, ExitsAssumption

LEMMA OnTheWay ==
    ASSUME NEW b, Station(b), IsCall(b), b.pc \in {"collect", "push"}, NEW c, IsCall(c),
           c.axis = b.axis, c.op = b.op, c.undo = b.undo, c.then = b.then,
           \/ b.pc = "collect" /\ c.pc = "push"
           \/ b.pc = "push" /\ c.pc = "undo" /\ b.undo # None
    PROVE  Station(c)
<1>1. b # Idle
    BY DEF Idle
<1>2. CASE b.pc = "collect" /\ c.pc = "push"
    BY <1>1, <1>2 DEF Station, Doing
<1>3. CASE b.pc = "push" /\ c.pc = "undo" /\ b.undo # None
    BY <1>1, <1>3 DEF Station, Doing
<1>4. QED
    BY <1>2, <1>3

LEMMA MemoryStays ==
    ASSUME ExitTypes, Same, NEW a \in Axes
    PROVE  /\ IsStores(Memory) /\ Filed(Memory, {}) /\ subs' = subs
           /\ InMem(a)' = InMem(a) /\ OnDisk(a)' = OnDisk(a)
BY SameIs DEF ExitTypes, Same, InMem, OnDisk, Memory

LEMMA CollectServes ==
    ASSUME ExitInv, ops' = ops, NEW r \in ExitRequest, Collect(r)
    PROVE  ExitInv'
<1>1. ExitTypes /\ Same /\ plane' = plane /\ torn' = torn /\ DOMAIN plane' = Axes /\ inflight[r].pc = "collect"
    BY DEF ExitInv, Collect, ExitTypes, Well
<1>2. PICK b : b = inflight[r]
    OBVIOUS
<1>3. /\ IsCall(b) /\ Station(b) /\ b.axis \in Axes /\ b.op # "policy" /\ b.pc = "collect"
      /\ b.then \in {None, "client"}
    BY <1>1, <1>2, ServeStation
<1>4. PICK c : /\ c = [b EXCEPT !.pc = "push", !.list = InMem(b.axis)]
               /\ inflight' = [inflight EXCEPT ![r] = c]
    BY <1>1, <1>2 DEF Collect, ExitTypes, InMem
<1>5. /\ IsCall(c) /\ c.pc = "push" /\ c.list = InMem(b.axis)
      /\ c.axis = b.axis /\ c.op = b.op /\ c.id = b.id /\ c.undo = b.undo /\ c.then = b.then
    BY <1>3, <1>4 DEF IsCall
<1>6. Goes(r, c)
    BY <1>1, <1>3, <1>4, <1>5, SetIs, OnTheWay, StationGoes
<1>7. IsStores(Memory) /\ Filed(Memory, {})
    BY <1>1, SameIs DEF ExitTypes
<1>8. ASSUME NEW a \in Axes \ torn', Busy(b, a)
      PROVE  AxisMoved(r, a)
    <2>1. a \notin torn
        BY <1>1
    <2>2. /\ OnDisk(a) = InMem(a) /\ \A q \in ExitRequest \ {r} : ~Busy(inflight[q], a)
          /\ b.axis = a => Progress(b, subs, InMem(a), plane[a])
        BY <1>2, <1>8, <2>1, AloneOn
    <2>3. InMem(a)' = InMem(a) /\ OnDisk(a)' = OnDisk(a) /\ subs' = subs
        BY <1>1, MemoryStays
    <2>4. Busy(c, a)
        BY <1>5, <1>8 DEF Busy
    <2>5. ASSUME c.axis = a PROVE Progress(c, subs, InMem(a), plane[a])
        <3>1. Progress(b, subs, InMem(a), plane[a])
            BY <1>5, <2>2, <2>5
        <3>2. Back(c, subs) = Back(b, subs) /\ (Reverts(c) <=> Reverts(b))
            BY <1>5 DEF Back, Reverts
        <3>3. QED
            BY <1>5, <2>5, <3>1, <3>2 DEF Progress
    <2>6. QED
        BY <1>1, <1>6, <2>2, <2>3, <2>4, <2>5 DEF AxisMoved, Goes
<1>9. \A a \in Axes : Busy(c, a) <=> Busy(b, a)
    BY <1>5 DEF Busy
<1>10. QED
    BY <1>1, <1>2, <1>3, <1>5, <1>6, <1>7, <1>8, <1>9, BusyStep
\* A list is served: nobody else is on its axis and everything follows from it,
\* or the axis stays torn.
LEMMA PushedIs ==
    ASSUME ExitInv, NEW r \in ExitRequest, NEW a \in Axes, a = inflight[r].axis,
           inflight[r].pc = "push", Same, plane' = [plane EXCEPT ![a] = inflight[r].list],
           torn' = IF InStep(r, a, inflight[r].list) THEN torn \ {a} ELSE torn, a \notin torn'
    PROVE  /\ \A q \in ExitRequest \ {r} : ~Busy(inflight[q], a)
           /\ OnDisk(a)' = InMem(a)' /\ plane'[a] = InMem(a)'
<1>1. ExitTypes /\ plane'[a] = inflight[r].list
    BY DEF ExitInv, ExitTypes
<1>2. InMem(a)' = InMem(a) /\ OnDisk(a)' = OnDisk(a)
    BY <1>1, MemoryStays
<1>3. CASE a \notin torn
    <2>1. Busy(inflight[r], a)
        BY DEF Busy
    <2>2. QED
        BY <1>1, <1>2, <1>3, <2>1, AloneOn DEF Progress
<1>4. CASE InStep(r, a, inflight[r].list)
    <2>1. \A q \in ExitRequest \ {r} : ~Busy(inflight[q], a)
        BY <1>4, WorkingIs DEF InStep
    <2>2. InMem(a) = inflight[r].list /\ OnDisk(a) = inflight[r].list
        BY <1>4 DEF InStep, InMem, OnDisk
    <2>3. QED
        BY <1>1, <1>2, <2>1, <2>2
<1>5. QED
    BY <1>3, <1>4

LEMMA PushDone ==
    ASSUME ExitInv, ops' = ops, NEW r \in ExitRequest, inflight[r].pc = "push", Same,
           NEW a \in Axes, a = inflight[r].axis, plane' = [plane EXCEPT ![a] = inflight[r].list],
           torn' = IF InStep(r, a, inflight[r].list) THEN torn \ {a} ELSE torn,
           IF inflight[r].then = None THEN Finish(r)
           ELSE inflight' = [inflight EXCEPT ![r] =
                    [Idle EXCEPT !.pc = "collect", !.axis = inflight[r].then]]
    PROVE  ExitInv'
<1>1. ExitTypes /\ DOMAIN plane' = Axes /\ \A x \in Axes \ {a} : plane'[x] = plane[x]
    BY DEF ExitInv, ExitTypes
<1>2. PICK b : b = inflight[r]
    OBVIOUS
<1>3. /\ IsCall(b) /\ Station(b) /\ b.axis = a /\ b.op # "policy" /\ b.pc = "push"
      /\ b.then \in {None, "client"} /\ b.then # a
    BY <1>1, <1>2, ServeStation
<1>4. PICK c : /\ Goes(r, c) /\ c.axis = b.then /\ c.then = None /\ c.op # "policy"
               /\ c.pc \in {"idle", "collect"} /\ c.undo = None
    <2>1. CASE b.then = None
        <3>1. Goes(r, Idle)
            BY <1>1, <1>2, <2>1, FinishIs
        <3>2. Idle.op # "policy"
            BY <1>3, IdleNotBusy
        <3>3. QED
            BY <2>1, <3>1, <3>2 DEF Idle
    <2>2. CASE b.then = "client"
        <3>1. PICK c : /\ c = [Idle EXCEPT !.pc = "collect", !.axis = "client"]
                       /\ inflight' = [inflight EXCEPT ![r] = c]
            BY <1>2, <2>2, ExitsAssumption DEF ExitsAssumption, Axes
        <3>2. /\ IsCall(c) /\ c.pc = "collect" /\ c.axis = "client" /\ c.op = None /\ c.then = None
              /\ c.undo = None
            BY <3>1 DEF IsCall, Idle
        <3>3. Goes(r, c)
            BY <1>1, <3>1, <3>2, SetIs, StationGoes DEF Station, Doing
        <3>4. QED
            BY <2>2, <3>2, <3>3, ExitsAssumption DEF ExitsAssumption
    <2>3. QED
        BY <1>3, <2>1, <2>2
<1>5. IsStores(Memory) /\ Filed(Memory, {})
    BY <1>1, SameIs DEF ExitTypes
<1>6. /\ torn \ {a} \subseteq torn' /\ torn' \subseteq torn
    OBVIOUS
<1>7. ~Reverts(c)
    BY <1>3, <1>4, ExitsAssumption DEF Reverts, Axes, ExitsAssumption
<1>8. ASSUME a \notin torn' PROVE AxisMoved(r, a)
    <2>1. /\ \A q \in ExitRequest \ {r} : ~Busy(inflight[q], a)
          /\ OnDisk(a)' = InMem(a)' /\ plane'[a] = InMem(a)'
        BY <1>2, <1>3, <1>8, PushedIs
    <2>2. c.axis # a
        BY <1>3, <1>4
    <2>3. QED
        BY <1>4, <2>1, <2>2 DEF AxisMoved, Goes
<1>9. ASSUME NEW x \in Axes \ torn', x # a, Busy(b, x) PROVE AxisMoved(r, x)
    <2>1. x \notin torn /\ b.then = x
        BY <1>3, <1>6, <1>9 DEF Busy
    <2>2. OnDisk(x) = InMem(x) /\ \A q \in ExitRequest \ {r} : ~Busy(inflight[q], x)
        BY <1>2, <1>9, <2>1, AloneOn
    <2>3. InMem(x)' = InMem(x) /\ OnDisk(x)' = OnDisk(x)
        BY <1>1, MemoryStays
    <2>4. Busy(c, x)
        BY <1>4, <2>1 DEF Busy
    <2>5. Progress(c, subs', InMem(x)', plane'[x])
        BY <1>4, <1>7 DEF Progress
    <2>6. QED
        BY <1>4, <2>2, <2>3, <2>4, <2>5 DEF AxisMoved, Goes
<1>10. \A x \in Axes : Busy(c, x) => Busy(b, x)
    BY <1>4, ExitsAssumption DEF Busy, ExitsAssumption
<1>11. \A x \in Axes : ~Busy(b, x) => x # a
    BY <1>3 DEF Busy
<1>12. QED
    BY <1>1, <1>2, <1>3, <1>4, <1>5, <1>6, <1>8, <1>9, <1>10, <1>11, BusyStep

LEMMA PushRefused ==
    ASSUME ExitInv, ops' = ops, NEW r \in ExitRequest, inflight[r].pc = "push", Same,
           NEW a \in Axes, a = inflight[r].axis, plane' = plane,
           IF inflight[r].undo # None THEN Goto(r, "undo") /\ UNCHANGED torn
           ELSE /\ Finish(r)
                /\ torn' = torn \cup {a} \cup ({inflight[r].then} \ {None})
    PROVE  ExitInv'
<1>1. ExitTypes /\ DOMAIN plane' = Axes
    BY DEF ExitInv, ExitTypes
<1>2. PICK b : b = inflight[r]
    OBVIOUS
<1>3. /\ IsCall(b) /\ Station(b) /\ b.axis = a /\ b.op # "policy" /\ b.pc = "push"
      /\ b.then \in {None, "client"}
    BY <1>1, <1>2, ServeStation
<1>4. IsStores(Memory) /\ Filed(Memory, {})
    BY <1>1, SameIs DEF ExitTypes
<1>5. CASE b.undo = None
    <2>1. Goes(r, Idle) /\ torn' = torn \cup {a} \cup ({b.then} \ {None})
        BY <1>1, <1>2, <1>5, FinishIs
    <2>2. \A x \in Axes : Busy(b, x) => x \in torn'
        BY <1>3, <2>1, ExitsAssumption DEF Busy, ExitsAssumption
    <2>3. Idle.op # "policy" /\ \A x \in Axes : ~Busy(Idle, x)
        BY <1>3, IdleNotBusy
    <2>4. QED
        BY <1>1, <1>2, <1>3, <1>4, <2>1, <2>2, <2>3, BusyStep
<1>6. CASE b.undo # None
    <2>1. Goto(r, "undo") /\ torn' = torn
        BY <1>2, <1>6
    <2>2. PICK c : /\ Becomes(r, c) /\ c.pc = "undo"
                   /\ c.axis = inflight[r].axis /\ c.op = inflight[r].op /\ c.id = inflight[r].id
                   /\ c.list = inflight[r].list /\ c.undo = inflight[r].undo
                   /\ c.then = inflight[r].then
        BY <1>1, <2>1, GotoIs
    <2>3. Goes(r, c)
        BY <1>2, <1>3, <1>6, <2>2, OnTheWay, StationGoes DEF Becomes
    <2>4. ASSUME NEW x \in Axes \ torn', Busy(b, x)
          PROVE  AxisMoved(r, x)
        <3>1. /\ OnDisk(x) = InMem(x) /\ \A q \in ExitRequest \ {r} : ~Busy(inflight[q], x)
              /\ b.axis = x => Progress(b, subs, InMem(x), plane[x])
            BY <1>2, <2>1, <2>4, AloneOn
        <3>2. InMem(x)' = InMem(x) /\ OnDisk(x)' = OnDisk(x) /\ subs' = subs
            BY <1>1, MemoryStays
        <3>3. Busy(c, x)
            BY <1>2, <2>2, <2>4 DEF Busy
        <3>4. ASSUME c.axis = x PROVE Progress(c, subs, InMem(x), plane[x])
            <4>1. Progress(b, subs, InMem(x), plane[x])
                BY <1>2, <2>2, <3>1, <3>4
            <4>2. Back(c, subs) = Back(b, subs) /\ (Reverts(c) <=> Reverts(b))
                BY <1>2, <2>2 DEF Back, Reverts
            <4>3. QED
                BY <1>2, <2>2, <4>1, <4>2 DEF Progress
        <3>5. QED
            BY <1>1, <2>3, <3>1, <3>2, <3>3, <3>4 DEF AxisMoved, Goes
    <2>5. c.op # "policy" /\ \A x \in Axes : Busy(c, x) => Busy(b, x)
        BY <1>2, <1>3, <2>2 DEF Busy
    <2>6. QED
        BY <1>1, <1>2, <1>3, <1>4, <2>1, <2>3, <2>4, <2>5, BusyStep
<1>7. QED
    BY <1>5, <1>6

LEMMA PushServes ==
    ASSUME ExitInv, ops' = ops, NEW r \in ExitRequest, Push(r)
    PROVE  ExitInv'
<1>1. PICK a : a = inflight[r].axis
    OBVIOUS
<1>2. a \in Axes
    BY <1>1, ServeStation DEF Push, ExitInv
<1>3. CASE /\ plane' = [plane EXCEPT ![a] = inflight[r].list]
           /\ torn' = IF InStep(r, a, inflight[r].list) THEN torn \ {a} ELSE torn
           /\ IF inflight[r].then = None THEN Finish(r)
              ELSE inflight' = [inflight EXCEPT ![r] =
                    [Idle EXCEPT !.pc = "collect", !.axis = inflight[r].then]]
    BY <1>1, <1>2, <1>3, PushDone DEF Push
<1>4. CASE /\ IF inflight[r].undo # None THEN Goto(r, "undo") /\ UNCHANGED torn
              ELSE /\ Finish(r)
                   /\ torn' = torn \cup {a} \cup ({inflight[r].then} \ {None})
           /\ UNCHANGED plane
    BY <1>1, <1>2, <1>4, PushRefused DEF Push
<1>5. QED
    BY <1>1, <1>3, <1>4 DEF Push
\* The rollback: memory follows again from what is served.
LEMMA UndoneIs ==
    ASSUME ExitTypes, NEW b, NEW s, NEW u, u = b.undo,
           \/ b.axis = "endpoints" /\ s = [Memory EXCEPT !.endpoints = u]
           \/ b.axis = "disabled" /\ s = [Memory EXCEPT !.disabled = u]
           \/ b.axis = "nodes" /\ b.id \notin DOMAIN subs /\ s = Memory
           \/ b.axis = "nodes" /\ b.id \in DOMAIN subs /\ s = WithApplied(b.id, u = "set")
    PROVE  /\ IsStores(s) /\ \A f \in Parts \ {PartOf[b.axis]} : s[f] = Memory[f]
           /\ b.axis # "nodes" \/ b.id \in DOMAIN subs => Derived(s)[b.axis] = Back(b, subs)
<1>1. IsStores(Memory) /\ IsSubs(subs)
    BY DEF ExitTypes, IsStores, Memory
<1>2. CASE b.axis = "endpoints" /\ s = [Memory EXCEPT !.endpoints = u]
    <2>1. "endpoints" \in Parts \ {"subs"}
        BY DEF Parts
    <2>2. IsStores(s) /\ s.endpoints = u /\ \A f \in Parts \ {"endpoints"} : s[f] = Memory[f]
        BY <1>1, <1>2, <2>1 DEF IsStores, IsSubs, Memory, Parts
    <2>3. Derived(s)[b.axis] = u
        <3>1. Derived(s)["endpoints"] = s.endpoints
            BY DerivedIs
        <3>2. QED
            BY <1>2, <2>2, <3>1
    <2>4. Back(b, subs) = u /\ PartOf[b.axis] = "endpoints"
        BY <1>2 DEF Back, PartOf
    <2>5. QED
        BY <2>2, <2>3, <2>4
<1>3. CASE b.axis = "disabled" /\ s = [Memory EXCEPT !.disabled = u]
    <2>2. IsStores(s) /\ s.disabled = u /\ \A f \in Parts \ {"disabled"} : s[f] = Memory[f]
        BY <1>1, <1>3 DEF IsStores, IsSubs, Memory, Parts
    <2>3. Derived(s)[b.axis] = u
        <3>1. Derived(s)["disabled"] = s.disabled
            BY DerivedIs
        <3>2. QED
            BY <1>3, <2>2, <3>1
    <2>4. Back(b, subs) = u /\ PartOf[b.axis] = "disabled"
        BY <1>3 DEF Back, PartOf
    <2>5. QED
        BY <2>2, <2>3, <2>4
<1>4. CASE b.axis = "nodes" /\ b.id \notin DOMAIN subs /\ s = Memory
    BY <1>1, <1>4
<1>5. CASE b.axis = "nodes" /\ b.id \in DOMAIN subs /\ s = WithApplied(b.id, u = "set")
    <2>1. PICK v \in BOOLEAN : v = (u = "set")
        OBVIOUS
    <2>6. PICK g : g = Flag(subs, b.id, v)
        OBVIOUS
    <2>7. b.id \in DOMAIN subs
        BY <1>5
    <2>2. s = [Memory EXCEPT !.subs = g]
        BY <1>1, <1>5, <2>1, <2>6, WithAppliedIs
    <2>3. IsSubs(g)
        BY <1>1, <2>6, <2>7, FlagIs
    <2>4. IsStores(s) /\ s.subs = g /\ \A f \in Parts \ {PartOf["nodes"]} : s[f] = Memory[f]
        BY <1>1, <2>2, <2>3 DEF IsStores, Memory, Parts, PartOf
    <2>5. QED
        BY <1>5, <2>1, <2>4, <2>6, DerivedIs DEF Back
<1>6. QED
    BY <1>2, <1>3, <1>4, <1>5

LEMMA UndoStation ==
    ASSUME ExitTypes, NEW r \in ExitRequest, NEW b, b = inflight[r], b.pc = "undo"
    PROVE  /\ b.axis \in {"nodes", "endpoints", "disabled"} /\ b.then = None
           /\ b.axis \in Axes /\ Reverts(b) /\ b.op # "policy"
<1>1. Station(b)
    BY DEF ExitTypes
<1>2. b # Idle
    BY DEF Idle
<1>3. QED
    BY <1>1, <1>2, ExitsAssumption DEF Station, Doing, Reverts, Axes, ExitsAssumption

LEMMA UndoServes ==
    ASSUME ExitInv, ops' = ops, NEW r \in ExitRequest, Undo(r)
    PROVE  ExitInv'
<1>1. ExitTypes /\ plane' = plane /\ DOMAIN plane' = Axes /\ inflight[r].pc = "undo"
    BY DEF ExitInv, ExitTypes, Undo
<1>2. PICK b, a : b = inflight[r] /\ a = b.axis
    OBVIOUS
<1>3. a \in {"nodes", "endpoints", "disabled"} /\ b.then = None /\ a \in Axes /\ Reverts(b) /\ b.op # "policy"
    BY <1>1, <1>2, UndoStation
<1>4. PICK s : s = Undone(r)
    OBVIOUS
<1>5. /\ IsStores(s) /\ \A f \in Parts \ {PartOf[a]} : s[f] = Memory[f]
      /\ a # "nodes" \/ b.id \in DOMAIN subs => Derived(s)[a] = Back(b, subs)
    <2>1. PICK u : u = b.undo
        OBVIOUS
    <2>2. \/ b.axis = "endpoints" /\ s = [Memory EXCEPT !.endpoints = u]
          \/ b.axis = "disabled" /\ s = [Memory EXCEPT !.disabled = u]
          \/ b.axis = "nodes" /\ b.id \notin DOMAIN subs /\ s = Memory
          \/ b.axis = "nodes" /\ b.id \in DOMAIN subs /\ s = WithApplied(b.id, u = "set")
        BY <1>2, <1>3, <1>4, <2>1 DEF Undone
    <2>3. QED
        BY <1>1, <1>2, <2>1, <2>2, UndoneIs
<1>6. Goes(r, Idle) /\ Idle.axis = None /\ Idle.then = None /\ Idle.op # "policy" /\ ~Busy(Idle, a)
    BY <1>1, <1>3, FinishIs, IdleNotBusy DEF Undo, Idle
<1>7. CASE Saved({IF a = "nodes" THEN "subs" ELSE a}, s) /\ Well
    <2>1. torn' = torn /\ Filed(s, {IF a = "nodes" THEN "subs" ELSE a})
        BY <1>1, <1>5, <1>7, SavedIs DEF Well
    <2>2. PartOf[a] \in {IF a = "nodes" THEN "subs" ELSE a}
        BY <1>3 DEF PartOf
    <2>3. ASSUME a \notin torn' PROVE AxisMoved(r, a)
        <3>1. /\ \A q \in ExitRequest \ {r} : ~Busy(inflight[q], a)
              /\ Progress(b, subs, InMem(a), plane[a])
            BY <1>2, <1>3, <2>1, <2>3, AloneOn DEF Busy
        <3>2. plane[a] = Back(b, subs) /\ (a = "nodes" => b.id \in DOMAIN subs)
            BY <1>2, <1>3, <3>1 DEF Progress
        <3>3. Derived(s)[a] = plane[a]
            BY <1>5, <3>2
        <3>4. InMem(a)' = plane[a]
            BY <2>1, <3>3 DEF InMem, Filed
        <3>5. OnDisk(a)' = InMem(a)'
            BY <1>3, <2>1, <2>2, StoresWritten
        <3>6. Idle.axis # a
            BY <1>6 DEF Busy
        <3>7. QED
            BY <1>1, <1>6, <3>1, <3>4, <3>5, <3>6 DEF AxisMoved, Goes
    <2>4. QED
        BY <1>1, <1>2, <1>3, <1>5, <1>6, <2>1, <2>3, AxisStep
<1>8. CASE Unsaved(s) /\ Slip(r)
    <2>1. Filed(s, {}) /\ torn' = torn \cup {a}
        BY <1>1, <1>2, <1>5, <1>8, UnsavedIs DEF Slip
    <2>2. QED
        BY <1>1, <1>2, <1>3, <1>5, <1>6, <2>1, AxisStep
<1>9. QED
    BY <1>2, <1>4, <1>7, <1>8 DEF Undo
-----------------------------------------------------------------------------
(***************************************************************************)
(* The switches and activations, on the nodes                              *)
(***************************************************************************)
\* Only r goes on, as o.
Turns(r, o) ==
    ops'[r] = o /\ \A q \in PolicyRequest \ {r} : ops'[q] = ops[q]

LEMMA Continued ==
    ASSUME OpTypes, NEW r \in PolicyRequest, NEW o, NEW p, NEW slip, Continue(r, o, p, slip)
    PROVE  Turns(r, IF o.plan = <<>> THEN Resting ELSE o)
BY DEF OpTypes, Continue, Turns

LEMMA RestHoldsNothing == ~Holds(Resting)
BY AtRest DEF Holds

\* One of them holds the nodes at a time.
LEMMA OneHolds ==
    ASSUME OpTypes, NEW r \in PolicyRequest, ops[r].op \in Sweeps
    PROVE  \A q \in PolicyRequest \ {r} : ~Holds(ops[q])
BY DEF OpTypes, Holds

\* Whatever holds the nodes is at rest among the requests of Exits.
LEMMA HolderIs ==
    ASSUME ExitTypes, NEW e \in Holding
    PROVE  /\ e \in ExitRequest /\ inflight[e].axis = "nodes" /\ inflight[e].then = None
           /\ inflight[e].pc = "idle" /\ inflight[e].undo = None
           /\ \A a \in Axes : Busy(inflight[e], a) <=> a = "nodes"
           /\ \A f, list, served : Progress(inflight[e], f, list, served)
<1>1. e \in ExitRequest /\ Station(inflight[e]) /\ inflight[e].op = "policy"
    BY DEF ExitTypes, Holding
<1>2. inflight[e] # Idle
    BY <1>1, ExitsAssumption DEF Idle, ExitsAssumption
<1>3. /\ inflight[e].axis = "nodes" /\ inflight[e].then = None
      /\ inflight[e].pc = "idle" /\ inflight[e].undo = None
    BY <1>1, <1>2, ExitsAssumption DEF Station, Doing, ExitsAssumption
<1>4. \A a \in Axes : Busy(inflight[e], a) <=> a = "nodes"
    BY <1>3, ExitsAssumption DEF Busy, ExitsAssumption
<1>5. ~Reverts(inflight[e])
    BY <1>3, ExitsAssumption DEF Reverts, ExitsAssumption
<1>6. QED
    BY <1>1, <1>3, <1>4, <1>5 DEF Progress

\* Nothing of the exits moves.
LEMMA ExitsStay ==
    ASSUME ExitInv, UNCHANGED exitVars, HeldOnce', NodesCarried'
    PROVE  ExitInv'
<1>1. /\ subs' = subs /\ gateways' = gateways /\ localMode' = localMode /\ endpoints' = endpoints
      /\ disabled' = disabled /\ exitFiles' = exitFiles /\ plane' = plane /\ inflight' = inflight
      /\ torn' = torn
    BY DEF exitVars
<1>2. Memory' = Memory
    BY <1>1 DEF Memory
<1>3. ExitTypes'
    <2>1. IsStores(Memory) /\ Same /\ ExitTypes
        BY <1>1 DEF ExitInv, ExitTypes, Same
    <2>2. IsStores(Memory)' /\ IsStores(exitFiles)'
        BY <2>1, SameIs, StoresTyped
    <2>3. DOMAIN plane' = Axes /\ DOMAIN inflight' = ExitRequest
        BY <1>1, <2>1 DEF ExitTypes
    <2>4. \A r \in ExitRequest : IsCall(inflight'[r]) /\ Station(inflight'[r])
        BY <1>1, <2>1 DEF ExitTypes
    <2>5. QED
        BY <2>2, <2>3, <2>4, Zenon DEF ExitTypes, IsCall, Station, Doing, Idle
<1>4. ASSUME NEW a \in Axes \ torn'
      PROVE  Course(a)'
    <2>1. Course(a)
        BY <1>1 DEF ExitInv
    <2>2. InMem(a)' = InMem(a) /\ OnDisk(a)' = OnDisk(a)
        BY <1>1, <1>2 DEF InMem, OnDisk
    <2>3. AxisStill(a)
        BY <1>1, <2>2, SubsStay DEF AxisStill
    <2>4. QED
        BY <2>1, <2>3, CourseStill DEF ExitInv
<1>5. QED
    BY <1>3, <1>4 DEF ExitInv

LEMMA Unheld ==
    ASSUME ExitInv, UNCHANGED exitVars, NEW r \in PolicyRequest, NEW o, Turns(r, o),
           ~Holds(ops[r]), ~Holds(o)
    PROVE  ExitInv'
<1>1. \A q \in PolicyRequest : Holds(ops'[q]) <=> Holds(ops[q])
    BY DEF Turns
<1>2. \A q \in PolicyRequest : Holds(ops'[q]) => ops'[q] = ops[q]
    BY DEF Turns
<1>3. inflight' = inflight /\ subs' = subs /\ plane' = plane /\ torn' = torn /\ Memory' = Memory
    BY DEF exitVars, Memory
<1>4. Holding' = Holding
    BY <1>3 DEF Holding
<1>5. HeldOnce'
    BY <1>1, <1>4 DEF ExitInv, HeldOnce
<1>6. InMem("nodes")' = InMem("nodes")
    BY <1>3 DEF InMem
<1>7. NodesCarried'
    <2>1. SUFFICES ASSUME "nodes" \notin torn', NEW q \in PolicyRequest, Holds(ops'[q])
                   PROVE  Carried(ops'[q], subs', InMem("nodes")', plane'["nodes"])
        BY Zenon DEF NodesCarried
    <2>2. Carried(ops[q], subs, InMem("nodes"), plane["nodes"])
        BY <1>1, <1>3, <2>1 DEF ExitInv, NodesCarried
    <2>3. QED
        BY <1>2, <1>3, <1>6, <2>1, <2>2
<1>8. QED
    BY <1>5, <1>7, ExitsStay

\* The nodes move, and one of the requests with them.
LEMMA NodesMove ==
    ASSUME ExitInv, NEW e \in ExitRequest, NEW c, Goes(e, c),
           \A a \in Axes \ {"nodes"} : ~Busy(inflight[e], a) /\ ~Busy(c, a),
           NEW s, IsStores(s), NEW saved, Filed(s, saved),
           \A f \in Parts \ {"subs"} : s[f] = Memory[f],
           DOMAIN plane' = Axes, \A a \in Axes \ {"nodes"} : plane'[a] = plane[a],
           torn \ {"nodes"} \subseteq torn', "nodes" \notin torn' => AxisMoved(e, "nodes"),
           HeldOnce', NodesCarried'
    PROVE  ExitInv'
<1>1. ExitTypes'
    BY GoesTyped DEF ExitInv
<1>2. ASSUME NEW a \in Axes \ torn', a # "nodes"
      PROVE  Course(a)'
    <2>1. Course(a) /\ a \notin torn
        BY <1>2 DEF ExitInv
    <2>2. PartOf[a] \in Parts \ {"subs"}
        BY <1>2 DEF PartOf, Axes, Parts
    <2>3. s[PartOf[a]] = Memory[PartOf[a]] /\ OnDisk(a) = InMem(a)
        BY <2>1, <2>2 DEF Course, AxisCourse
    <2>4. InMem(a)' = InMem(a) /\ OnDisk(a)' = OnDisk(a)
        BY <2>3, StoresApart
    <2>5. AxisStill(a)
        BY <1>2, <2>4 DEF AxisStill, Goes
    <2>6. QED
        BY <2>1, <2>5, CourseStill DEF ExitInv
<1>3. "nodes" \notin torn' => Course("nodes")'
    BY CourseMoved DEF Axes
<1>4. \A a \in Axes \ torn' : Course(a)'
    BY <1>2, <1>3
<1>5. QED
    BY <1>1, <1>4 DEF ExitInv
\* Whoever holds the nodes goes on holding them.
LEMMA HolderStep ==
    ASSUME ExitInv, OpTypes, NEW r \in PolicyRequest, Holds(ops[r]), NEW o, Turns(r, o), Holds(o),
           inflight' = inflight, NEW s, IsStores(s), NEW saved, Filed(s, saved),
           \A f \in Parts \ {"subs"} : s[f] = Memory[f],
           DOMAIN plane' = Axes, \A a \in Axes \ {"nodes"} : plane'[a] = plane[a],
           torn \subseteq torn',
           "nodes" \notin torn' =>
                /\ OnDisk("nodes")' = InMem("nodes")'
                /\ Carried(o, subs', InMem("nodes")', plane'["nodes"])
    PROVE  ExitInv'
<1>1. PICK e \in Holding : \A d \in Holding : d = e
    BY DEF ExitInv, HeldOnce
<1>2. /\ e \in ExitRequest /\ ExitTypes
      /\ \A a \in Axes : Busy(inflight[e], a) <=> a = "nodes"
      /\ \A f, list, served : Progress(inflight[e], f, list, served)
    BY HolderIs DEF ExitInv
<1>3. Goes(e, inflight[e])
    BY <1>2 DEF Goes, ExitTypes
<1>4. \A a \in Axes \ {"nodes"} : ~Busy(inflight[e], a)
    BY <1>2
<1>5. \A q \in PolicyRequest \ {r} : ~Holds(ops'[q])
    BY OneHolds DEF Turns, Holds
<1>6. HeldOnce'
    <2>1. Holding' = Holding
        BY DEF Holding
    <2>2. Holds(ops'[r])
        BY DEF Turns
    <2>3. QED
        BY <1>1, <2>1, <2>2 DEF HeldOnce
<1>7. NodesCarried'
    <2>1. SUFFICES ASSUME "nodes" \notin torn', NEW q \in PolicyRequest, Holds(ops'[q])
                   PROVE  Carried(ops'[q], subs', InMem("nodes")', plane'["nodes"])
        BY Zenon DEF NodesCarried
    <2>2. q = r /\ ops'[q] = o
        BY <1>5, <2>1 DEF Turns
    <2>3. QED
        BY <2>1, <2>2
<1>8. ASSUME "nodes" \notin torn' PROVE AxisMoved(e, "nodes")
    <2>1. "nodes" \notin torn /\ "nodes" \in Axes /\ Busy(inflight[e], "nodes")
        BY <1>2, <1>8 DEF Axes
    <2>2. \A q \in ExitRequest \ {e} : ~Busy(inflight[q], "nodes")
        BY <1>2, <2>1, AloneOn
    <2>3. QED
        BY <1>2, <1>8, <2>1, <2>2 DEF AxisMoved
<1>9. QED
    BY <1>2, <1>3, <1>4, <1>6, <1>7, <1>8, NodesMove

\* Whoever holds the nodes lets go of them, and finds them in step.
LEMMA LetGo ==
    ASSUME ExitInv, OpTypes, NEW r \in PolicyRequest, Holds(ops[r]), NEW o, Turns(r, o), ~Holds(o),
           DOMAIN inflight' = ExitRequest,
           \A e \in ExitRequest : inflight'[e] = IF e \in Holding THEN Idle ELSE inflight[e],
           NEW s, IsStores(s), NEW saved, Filed(s, saved),
           \A f \in Parts \ {"subs"} : s[f] = Memory[f], plane' = plane,
           torn \ {"nodes"} \subseteq torn',
           "nodes" \notin torn' =>
                /\ OnDisk("nodes")' = InMem("nodes")' /\ plane["nodes"] = InMem("nodes")'
                /\ "nodes" \notin torn
                    \/ \A q \in ExitRequest : Busy(inflight[q], "nodes") => q \in Holding
    PROVE  ExitInv'
<1>1. PICK e \in Holding : \A d \in Holding : d = e
    BY DEF ExitInv, HeldOnce
<1>2. /\ e \in ExitRequest /\ ExitTypes
      /\ \A a \in Axes : Busy(inflight[e], a) <=> a = "nodes"
    BY <1>1, HolderIs DEF ExitInv
<1>3. Goes(e, Idle)
    BY <1>1, <1>2, IdleNotBusy DEF Goes, Axes
<1>4. \A a \in Axes : ~Busy(Idle, a)
    BY IdleNotBusy
<1>5. \A q \in PolicyRequest : ~Holds(ops'[q])
    BY OneHolds DEF Turns, Holds
<1>6. HeldOnce'
    <2>1. Holding' = {}
        <3>1. \A q \in ExitRequest : inflight'[q].op # "policy"
            BY IdleNotBusy DEF Holding, Axes
        <3>2. QED
            BY <3>1 DEF Holding
    <2>2. QED
        BY <1>5, <2>1 DEF HeldOnce
<1>7. NodesCarried'
    BY <1>5, Zenon DEF NodesCarried
<1>8. ASSUME "nodes" \notin torn' PROVE AxisMoved(e, "nodes")
    <2>1. "nodes" \in Axes /\ Busy(inflight[e], "nodes")
        BY <1>2 DEF Axes
    <2>2. \A q \in ExitRequest \ {e} : ~Busy(inflight[q], "nodes")
        BY <1>1, <1>2, <1>8, <2>1, AloneOn
    <2>3. Idle.axis # "nodes"
        BY <1>4, <2>1 DEF Busy
    <2>4. QED
        BY <1>2, <1>3, <1>8, <2>1, <2>2, <2>3 DEF AxisMoved, Goes
<1>9. DOMAIN plane' = Axes
    BY <1>2 DEF ExitTypes
<1>10. QED
    BY <1>2, <1>3, <1>4, <1>6, <1>7, <1>8, <1>9, NodesMove

\* A switch or an activation reads the nodes and holds them.
LEMMA TakeUp ==
    ASSUME ExitInv, NEW r \in PolicyRequest, \A q \in PolicyRequest : ~Holds(ops[q]),
           NEW o, Turns(r, o), Holds(o), Hold, Same, plane' = plane,
           plane["nodes"] = InMem("nodes")
                => Carried(o, subs, InMem("nodes"), plane["nodes"])
    PROVE  ExitInv'
<1>1. Holding = {}
    BY DEF ExitInv, HeldOnce
<1>2. PICK e \in ExitRequest :
            /\ inflight[e] = Idle
            /\ inflight' = [inflight EXCEPT ![e] = [Idle EXCEPT !.axis = "nodes", !.op = "policy"]]
    BY DEF Hold
<1>3. PICK c : c = [Idle EXCEPT !.axis = "nodes", !.op = "policy"]
    OBVIOUS
<1>4. /\ IsCall(c) /\ c.pc = "idle" /\ c.axis = "nodes" /\ c.op = "policy" /\ c.undo = None /\ c.then = None
    BY <1>3 DEF Idle, IsCall
<1>5. ExitTypes /\ torn' = Beside("nodes") /\ DOMAIN plane' = Axes /\ "nodes" \in Axes
    BY DEF ExitInv, ExitTypes, Hold, Axes
<1>6. Goes(e, c)
    BY <1>2, <1>3, <1>4, <1>5, SetIs, StationGoes DEF Station, Doing
<1>7. Holding' = {e}
    BY <1>1, <1>4, <1>6 DEF Holding, Goes
<1>8. \A q \in PolicyRequest \ {r} : ~Holds(ops'[q])
    BY DEF Turns
<1>9. HeldOnce'
    BY <1>7, Zenon DEF HeldOnce, Turns
<1>10. IsStores(Memory) /\ Filed(Memory, {}) /\ subs' = subs
       /\ InMem("nodes")' = InMem("nodes") /\ OnDisk("nodes")' = OnDisk("nodes")
    BY <1>5, MemoryStays
<1>11. "nodes" \notin torn' => /\ plane["nodes"] = InMem("nodes") /\ OnDisk("nodes") = InMem("nodes")
                               /\ \A q \in ExitRequest : ~Busy(inflight[q], "nodes")
    BY <1>5, BesideIs, Opening
<1>12. NodesCarried'
    <2>1. SUFFICES ASSUME "nodes" \notin torn', NEW q \in PolicyRequest, Holds(ops'[q])
                   PROVE  Carried(ops'[q], subs', InMem("nodes")', plane'["nodes"])
        BY Zenon DEF NodesCarried
    <2>2. q = r /\ ops'[q] = o
        BY <1>8, <2>1 DEF Turns
    <2>3. QED
        BY <1>10, <1>11, <2>1, <2>2
<1>13. ASSUME "nodes" \notin torn' PROVE AxisMoved(e, "nodes")
    <2>1. ~Reverts(c)
        BY <1>4, ExitsAssumption DEF Reverts, ExitsAssumption
    <2>2. Progress(c, subs', InMem("nodes")', plane'["nodes"])
        BY <1>4, <2>1 DEF Progress
    <2>3. Busy(c, "nodes")
        BY <1>4 DEF Busy
    <2>4. QED
        BY <1>6, <1>10, <1>11, <1>13, <2>2, <2>3 DEF AxisMoved, Goes
<1>14. \A a \in Axes \ {"nodes"} : ~Busy(inflight[e], a) /\ ~Busy(c, a)
    BY <1>2, <1>4, IdleNotBusy, ExitsAssumption DEF Busy, ExitsAssumption
<1>15. torn \ {"nodes"} \subseteq torn'
    BY <1>5 DEF Beside
<1>16. QED
    BY <1>5, <1>6, <1>9, <1>10, <1>12, <1>13, <1>14, <1>15, NodesMove

\* It lets go without a change of the stores.
LEMMA ReleaseServes ==
    ASSUME ExitInv, OpTypes, NEW r \in PolicyRequest, Holds(ops[r]), NEW o, Turns(r, o), ~Holds(o),
           Release, Same, plane' = plane, "nodes" \notin torn => plane["nodes"] = InMem("nodes")
    PROVE  ExitInv'
<1>1. PICK e \in Holding : \A d \in Holding : d = e
    BY DEF ExitInv, HeldOnce
<1>2. e = CHOOSE h \in Holding : TRUE
    BY <1>1
<1>3. /\ inflight' = [inflight EXCEPT ![e] = Idle]
      /\ torn' = IF InStep(e, "nodes", plane.nodes) THEN torn \ {"nodes"} ELSE torn
    BY <1>2 DEF Release
<1>4. ExitTypes /\ "nodes" \in Axes
    BY DEF ExitInv, Axes
<1>5. /\ DOMAIN inflight' = ExitRequest
      /\ \A q \in ExitRequest : inflight'[q] = IF q \in Holding THEN Idle ELSE inflight[q]
    BY <1>1, <1>3, <1>4 DEF ExitTypes
<1>6. IsStores(Memory) /\ Filed(Memory, {}) /\ subs' = subs
      /\ InMem("nodes")' = InMem("nodes") /\ OnDisk("nodes")' = OnDisk("nodes")
    BY <1>4, MemoryStays
<1>7. ASSUME "nodes" \notin torn'
      PROVE  /\ OnDisk("nodes")' = InMem("nodes")' /\ plane["nodes"] = InMem("nodes")'
             /\ "nodes" \notin torn
                    \/ \A q \in ExitRequest : Busy(inflight[q], "nodes") => q \in Holding
    <2>1. CASE "nodes" \notin torn
        BY <1>4, <1>6, <2>1 DEF ExitInv, Course, AxisCourse
    <2>2. CASE InStep(e, "nodes", plane.nodes)
        <3>1. /\ Working("nodes") = {e}
              /\ InMem("nodes") = plane["nodes"] /\ OnDisk("nodes") = plane["nodes"]
            BY <2>2 DEF InStep, InMem, OnDisk
        <3>2. QED
            BY <1>1, <1>6, <3>1, WorkingIs
    <2>3. QED
        BY <1>3, <1>7, <2>1, <2>2
<1>8. torn \ {"nodes"} \subseteq torn'
    BY <1>3
<1>9. QED
    BY <1>5, <1>6, <1>7, <1>8, LetGo
-----------------------------------------------------------------------------
(***************************************************************************)
(* The steps of the policy requests, on the nodes                          *)
(***************************************************************************)
\* A step that goes on with the plan, and one that ends it.
LEMMA ForthTurns ==
    ASSUME PackInv, NEW r \in PolicyRequest, NEW step \in SweepSteps, At(r, step),
           NEW b, b = ops[r], NEW p, NEW slip,
           Continue(r, [b EXCEPT !.plan = Tail(@)], p, slip)
    PROVE  \E o : /\ o.op = b.op /\ o.arg = b.arg /\ o.list = b.list /\ o.plan = Tail(b.plan)
                  /\ Turns(r, IF o.plan = <<>> THEN Resting ELSE o)
<1>1. IsOp(b) /\ OpTypes
    BY SweepAt DEF PackInv
<1>2. PICK o : o = [b EXCEPT !.plan = Tail(@)]
    OBVIOUS
<1>3. o.op = b.op /\ o.arg = b.arg /\ o.list = b.list /\ o.plan = Tail(b.plan)
    BY <1>1, <1>2 DEF IsOp
<1>4. Turns(r, IF o.plan = <<>> THEN Resting ELSE o)
    BY <1>1, <1>2, Continued
<1>5. QED
    BY <1>3, <1>4

LEMMA StopTurns ==
    ASSUME PackInv, NEW r \in PolicyRequest, NEW step \in SweepSteps, At(r, step), Stop(r)
    PROVE  Turns(r, Resting)
<1>1. IsOp(ops[r]) /\ OpTypes
    BY SweepAt DEF PackInv
<1>2. PICK o : o = [ops[r] EXCEPT !.plan = <<>>] /\ Continue(r, o, policy, {})
    BY DEF Stop
<1>3. o.plan = <<>>
    BY <1>1, <1>2 DEF IsOp
<1>4. QED
    BY <1>1, <1>2, <1>3, Continued

LEMMA HoldsAt ==
    ASSUME PackInv, NEW r \in PolicyRequest, NEW step \in SweepSteps, At(r, step)
    PROVE  /\ OpTypes /\ ops[r].op \in Sweeps /\ Head(ops[r].plan) = step
           /\ SweepPlan(ops[r].op, ops[r].plan)
           /\ Holds(ops[r]) <=> step \notin {"leave", "load"}
BY SweepAt DEF PackInv, Holds, SweepKind

LEMMA LeaveKeeps == ASSUME ExitInv, PackInv, NEW r \in PolicyRequest, Leave(r) PROVE ExitInv'
<1>1. At(r, "leave") /\ UNCHANGED exitVars /\ "leave" \in SweepSteps
    BY DEF Leave, SweepSteps
<1>2. /\ OpTypes /\ ops[r].op \in Sweeps /\ Head(ops[r].plan) = "leave"
      /\ SweepPlan(ops[r].op, ops[r].plan) /\ ~Holds(ops[r])
    BY <1>1, HoldsAt
<1>3. CASE Stop(r)
    BY <1>1, <1>2, <1>3, StopTurns, RestHoldsNothing, Unheld
<1>4. CASE Forth(r, ops[r], policy)
    <2>1. PICK b : b = ops[r]
        OBVIOUS
    <2>2. Continue(r, [b EXCEPT !.plan = Tail(@)], policy, {})
        BY <1>4, <2>1 DEF Forth
    <2>3. PICK o : /\ o.op = b.op /\ o.plan = Tail(b.plan)
                   /\ Turns(r, IF o.plan = <<>> THEN Resting ELSE o)
        BY <1>1, <2>1, <2>2, ForthTurns
    <2>4. o.plan # <<>> /\ Head(o.plan) = "load"
        BY <1>2, <2>1, <2>3 DEF SweepPlan
    <2>5. ~Holds(o)
        BY <2>4 DEF Holds
    <2>6. QED
        BY <1>1, <1>2, <2>3, <2>4, <2>5, Unheld
<1>5. QED
    BY <1>3, <1>4 DEF Leave

LEMMA LoadKeeps == ASSUME ExitInv, PackInv, NEW r \in PolicyRequest, Load(r) PROVE ExitInv'
<1>1. At(r, "load") /\ StoresStay /\ plane' = plane /\ "load" \in SweepSteps
    BY DEF Load, SweepSteps
<1>2. /\ OpTypes /\ ops[r].op \in Sweeps /\ Head(ops[r].plan) = "load"
      /\ SweepPlan(ops[r].op, ops[r].plan) /\ ~Holds(ops[r])
    BY <1>1, HoldsAt
<1>3. CASE Stop(r) /\ UNCHANGED <<inflight, torn>>
    <2>1. UNCHANGED exitVars
        BY <1>1, <1>3 DEF StoresStay, exitVars
    <2>2. QED
        BY <1>1, <1>2, <1>3, <2>1, StopTurns, RestHoldsNothing, Unheld
<1>4. ASSUME NEW slot, Hold,
             Forth(r, [ops[r] EXCEPT !.next = Content(slot), !.prev = policy.mem,
                                     !.list = plane.nodes], policy)
      PROVE  ExitInv'
    <2>1. PICK o : /\ o = [[ops[r] EXCEPT !.next = Content(slot), !.prev = policy.mem,
                                          !.list = plane.nodes] EXCEPT !.plan = Tail(@)]
                   /\ Continue(r, o, policy, {})
        BY <1>4 DEF Forth
    <2>2. IsOp(ops[r])
        BY AtWork
    <2>3. o.op = ops[r].op /\ o.plan = Tail(ops[r].plan) /\ o.list = plane["nodes"]
        BY <2>1, <2>2 DEF IsOp
    <2>4. o.plan # <<>> /\ Head(o.plan) = "plane" /\ o.op = "switch"
        BY <1>2, <2>3 DEF SweepPlan
    <2>5. Turns(r, o)
        BY <1>2, <2>1, <2>4, Continued
    <2>6. Holds(o) /\ (plane["nodes"] = InMem("nodes") =>
                            Carried(o, subs, InMem("nodes"), plane["nodes"]))
        BY <2>3, <2>4 DEF Holds, Carried, Sweeps
    <2>7. \A q \in PolicyRequest : ~Holds(ops[q])
        BY <1>2, OneHolds
    <2>8. Same
        BY <1>1 DEF StoresStay, Same
    <2>9. QED
        BY <1>1, <1>4, <2>5, <2>6, <2>7, <2>8, TakeUp
<1>5. QED
    BY <1>3, <1>4, Zenon DEF Load

LEMMA PlaneKeeps == ASSUME ExitInv, PackInv, NEW r \in PolicyRequest, Plane(r) PROVE ExitInv'
<1>1. At(r, "plane") /\ StoresStay /\ "plane" \in SweepSteps
    BY DEF Plane, SweepSteps
<1>2. PICK b : b = ops[r]
    OBVIOUS
<1>3. /\ OpTypes /\ b.op \in Sweeps /\ Head(b.plan) = "plane" /\ SweepPlan(b.op, b.plan) /\ Holds(b)
      /\ IsOp(b)
    BY <1>1, <1>2, HoldsAt, AtWork
<1>4. Same /\ ExitTypes /\ "nodes" \in Axes /\ DOMAIN plane = Axes
    BY <1>1 DEF StoresStay, Same, ExitInv, ExitTypes, Axes
<1>5. IsStores(Memory) /\ Filed(Memory, {}) /\ subs' = subs
      /\ InMem("nodes")' = InMem("nodes") /\ OnDisk("nodes")' = OnDisk("nodes")
    BY <1>4, MemoryStays
<1>6. "nodes" \notin torn => /\ OnDisk("nodes") = InMem("nodes")
                             /\ Carried(b, subs, InMem("nodes"), plane["nodes"])
    BY <1>2, <1>3, <1>4 DEF ExitInv, Course, AxisCourse, NodesCarried
<1>7. CASE /\ Forth(r, ops[r], [policy EXCEPT !.held = ops[r].next])
           /\ plane' = [plane EXCEPT !.nodes = ops[r].list]
           /\ UNCHANGED <<inflight, torn>>
    <2>1. PICK p : Continue(r, [b EXCEPT !.plan = Tail(@)], p, {})
        BY <1>2, <1>7 DEF Forth
    <2>2. PICK o : /\ o.op = b.op /\ o.arg = b.arg /\ o.list = b.list /\ o.plan = Tail(b.plan)
                   /\ Turns(r, IF o.plan = <<>> THEN Resting ELSE o)
        BY <1>1, <1>2, <2>1, ForthTurns
    <2>3. o.plan # <<>> /\ Head(o.plan) = "alignSets"
        BY <1>3, <2>2 DEF SweepPlan
    <2>4. Turns(r, o) /\ Holds(o)
        BY <1>3, <2>2, <2>3 DEF Holds
    <2>5. /\ DOMAIN plane' = Axes /\ \A a \in Axes \ {"nodes"} : plane'[a] = plane[a]
          /\ plane'["nodes"] = b.list
        BY <1>2, <1>4, <1>7
    <2>6. "nodes" \notin torn => Carried(o, subs, InMem("nodes"), b.list)
        BY <1>3, <1>6, <2>2, <2>3 DEF Carried
    <2>7. QED
        BY <1>2, <1>3, <1>5, <1>6, <1>7, <2>4, <2>5, <2>6, HolderStep
<1>8. CASE /\ Continue(r, [ops[r] EXCEPT !.op = "back", !.next = ops[r].prev, !.list = plane.nodes,
                             !.plan = <<"plane", "alignSets", "alignRules">>], policy, {})
           /\ ops[r].op = "switch"
           /\ UNCHANGED <<inflight, torn, plane, posture>>
    <2>1. PICK o : /\ o = [ops[r] EXCEPT !.op = "back", !.next = ops[r].prev, !.list = plane.nodes,
                             !.plan = <<"plane", "alignSets", "alignRules">>]
                   /\ Continue(r, o, policy, {})
        BY <1>8
    <2>2. o.op = "back" /\ o.list = plane["nodes"] /\ o.plan = <<"plane", "alignSets", "alignRules">>
        BY <1>2, <1>3, <2>1 DEF IsOp
    <2>3. o.plan # <<>> /\ Head(o.plan) = "plane"
        BY <2>2, SMT
    <2>4. Turns(r, o) /\ Holds(o)
        BY <1>3, <2>1, <2>2, <2>3, Continued DEF Holds, Sweeps
    <2>5. "nodes" \notin torn => Carried(o, subs, InMem("nodes"), plane["nodes"])
        BY <1>2, <1>6, <1>8, <2>2, <2>3 DEF Carried
    <2>6. QED
        BY <1>2, <1>3, <1>4, <1>5, <1>6, <1>8, <2>4, <2>5, HolderStep
<1>9. CASE ops[r].op # "switch" /\ Stop(r) /\ Release /\ UNCHANGED <<plane, posture>>
    <2>1. Turns(r, Resting) /\ ~Holds(Resting)
        BY <1>1, <1>9, StopTurns, RestHoldsNothing
    <2>2. "nodes" \notin torn => plane["nodes"] = InMem("nodes")
        BY <1>3, <1>6 DEF Carried
    <2>3. QED
        BY <1>2, <1>3, <1>4, <1>9, <2>1, <2>2, ReleaseServes
<1>10. QED
    BY <1>7, <1>8, <1>9 DEF Plane

\* Only what goes back ends with the stores.
AlignPlan(op, plan) ==
    Head(plan) \in Aligning =>
        \/ op = "back" /\ Len(plan) = 1 /\ Tail(plan) = <<>>
        \/ Len(plan) # 1 /\ Tail(plan) # <<>>

LEMMA AlignPlans == ASSUME NEW op \in Sweeps, NEW plan \in Tails(op) PROVE AlignPlan(op, plan)
<1>1. CASE op = "switch"
    <2>0. plan \in SwitchTails
        BY <1>1 DEF Tails, PackOps
    <2>1. CASE plan = <<"leave", "load", "plane", "alignSets", "alignRules", "settle">>
        BY <1>1, <2>1, SMT DEF AlignPlan, Aligning
    <2>2. CASE plan = <<"load", "plane", "alignSets", "alignRules", "settle">>
        BY <1>1, <2>2, SMT DEF AlignPlan, Aligning
    <2>3. CASE plan = <<"plane", "alignSets", "alignRules", "settle">>
        BY <1>1, <2>3, SMT DEF AlignPlan, Aligning
    <2>4. CASE plan = <<"alignSets", "alignRules", "settle">>
        BY <1>1, <2>4, SMT DEF AlignPlan, Aligning
    <2>5. CASE plan = <<"alignRules", "settle">>
        BY <1>1, <2>5, SMT DEF AlignPlan, Aligning
    <2>6. CASE plan = <<"settle">>
        BY <1>1, <2>6, SMT DEF AlignPlan, Aligning
    <2>7. QED
        BY <2>0, <2>1, <2>2, <2>3, <2>4, <2>5, <2>6 DEF SwitchTails
<1>2. CASE op = "back"
    <2>0. plan \in BackTails
        BY <1>2 DEF Tails, PackOps
    <2>1. CASE plan = <<"plane", "alignSets", "alignRules">>
        BY <1>2, <2>1, SMT DEF AlignPlan, Aligning
    <2>2. CASE plan = <<"alignSets", "alignRules">>
        BY <1>2, <2>2, SMT DEF AlignPlan, Aligning
    <2>3. CASE plan = <<"alignRules">>
        BY <1>2, <2>3, SMT DEF AlignPlan, Aligning
    <2>4. QED
        BY <2>0, <2>1, <2>2, <2>3 DEF BackTails
<1>3. CASE op = "activate"
    <2>0. plan \in ActivateTails
        BY <1>3 DEF Tails, PackOps
    <2>1. CASE plan = <<"plane", "alignSets", "alignRules", "clear", "mark">>
        BY <1>3, <2>1, SMT DEF AlignPlan, Aligning
    <2>2. CASE plan = <<"alignSets", "alignRules", "clear", "mark">>
        BY <1>3, <2>2, SMT DEF AlignPlan, Aligning
    <2>3. CASE plan = <<"alignRules", "clear", "mark">>
        BY <1>3, <2>3, SMT DEF AlignPlan, Aligning
    <2>4. CASE plan = <<"clear", "mark">>
        BY <1>3, <2>4, SMT DEF AlignPlan, Aligning
    <2>5. CASE plan = <<"mark">>
        BY <1>3, <2>5, SMT DEF AlignPlan, Aligning
    <2>6. QED
        BY <2>0, <2>1, <2>2, <2>3, <2>4, <2>5 DEF ActivateTails
<1>4. QED
    BY <1>1, <1>2, <1>3 DEF Sweeps

LEMMA AlignKeeps == ASSUME ExitInv, PackInv, NEW r \in PolicyRequest, Align(r) PROVE ExitInv'
<1>1. PICK step \in {"alignSets", "alignRules"} : At(r, step)
    BY DEF Align
<1>2. PICK b : b = ops[r]
    OBVIOUS
<1>3. step \in SweepSteps /\ StoresStay /\ plane' = plane
    BY DEF SweepSteps, Align
<1>4. /\ OpTypes /\ b.op \in Sweeps /\ Head(b.plan) = step /\ SweepPlan(b.op, b.plan) /\ Holds(b)
      /\ OpStation(b)
    BY <1>1, <1>2, <1>3, HoldsAt, AtWork
<1>5. AlignPlan(b.op, b.plan)
    BY <1>4, AlignPlans DEF OpStation
<1>6. Same /\ ExitTypes /\ "nodes" \in Axes /\ DOMAIN plane' = Axes
    BY <1>3 DEF StoresStay, Same, ExitInv, ExitTypes, Axes
<1>7. IsStores(Memory) /\ Filed(Memory, {}) /\ subs' = subs
      /\ InMem("nodes")' = InMem("nodes") /\ OnDisk("nodes")' = OnDisk("nodes")
    BY <1>6, MemoryStays
<1>8. "nodes" \notin torn => /\ OnDisk("nodes") = InMem("nodes")
                             /\ Carried(b, subs, InMem("nodes"), plane["nodes"])
    BY <1>2, <1>4, <1>6 DEF ExitInv, Course, AxisCourse, NodesCarried
<1>9. PICK p, slip : Continue(r, [b EXCEPT !.plan = Tail(@)], p, slip)
    BY <1>2 DEF Align, Forth
<1>10. PICK o : /\ o.op = b.op /\ o.arg = b.arg /\ o.list = b.list /\ o.plan = Tail(b.plan)
                /\ Turns(r, IF o.plan = <<>> THEN Resting ELSE o)
    BY <1>1, <1>2, <1>3, <1>9, ForthTurns
<1>11. CASE Tail(b.plan) = <<>>
    <2>1. b.op = "back" /\ Len(b.plan) = 1
        BY <1>1, <1>4, <1>5, <1>11 DEF AlignPlan, Aligning
    <2>2. Release
        BY <1>2, <2>1 DEF Align
    <2>3. Turns(r, Resting) /\ ~Holds(Resting)
        BY <1>10, <1>11, RestHoldsNothing
    <2>4. "nodes" \notin torn => plane["nodes"] = InMem("nodes")
        BY <1>8, <2>1 DEF Carried
    <2>5. QED
        BY <1>2, <1>3, <1>4, <1>6, <2>2, <2>3, <2>4, ReleaseServes
<1>12. CASE Tail(b.plan) # <<>>
    <2>1. Len(b.plan) # 1
        BY <1>1, <1>4, <1>5, <1>12 DEF AlignPlan, Aligning
    <2>2. inflight' = inflight /\ torn' = torn
        BY <1>2, <2>1 DEF Align
    <2>3. Head(o.plan) \in {"alignRules", "settle", "clear"}
        BY <1>1, <1>4, <1>10, <1>12 DEF SweepPlan
    <2>4. Turns(r, o) /\ Holds(o)
        BY <1>4, <1>10, <1>12, <2>3 DEF Holds
    <2>5. "nodes" \notin torn => Carried(o, subs, InMem("nodes"), plane["nodes"])
        BY <1>1, <1>4, <1>8, <1>10, <2>3 DEF Carried
    <2>6. QED
        BY <1>2, <1>3, <1>4, <1>6, <1>7, <1>8, <2>2, <2>4, <2>5, HolderStep
<1>13. QED
    BY <1>11, <1>12

LEMMA SettleKeeps == ASSUME ExitInv, PackInv, NEW r \in PolicyRequest, Settle(r) PROVE ExitInv'
<1>1. At(r, "settle") /\ "settle" \in SweepSteps /\ StoresStay /\ plane' = plane /\ Stop(r) /\ Release
    BY DEF Settle, SweepSteps
<1>2. PICK b : b = ops[r]
    OBVIOUS
<1>3. OpTypes /\ Head(b.plan) = "settle" /\ SweepPlan(b.op, b.plan) /\ Holds(b)
    BY <1>1, <1>2, HoldsAt
<1>4. Turns(r, Resting) /\ ~Holds(Resting)
    BY <1>1, StopTurns, RestHoldsNothing
<1>5. b.op = "switch"
    BY <1>3 DEF SweepPlan
<1>6. "nodes" \notin torn => plane["nodes"] = InMem("nodes")
    BY <1>2, <1>3, <1>5 DEF ExitInv, NodesCarried, Carried
<1>7. Same
    BY <1>1 DEF StoresStay, Same
<1>8. QED
    BY <1>1, <1>2, <1>3, <1>4, <1>6, <1>7, ReleaseServes

-----------------------------------------------------------------------------
\* What has to do with the policy only.
LEMMA ContinueUnheld ==
    ASSUME ExitInv, PackInv, UNCHANGED exitVars, NEW r \in PolicyRequest, ops[r].op \notin Sweeps,
           NEW o, o.op \notin Sweeps, NEW p, NEW slip, Continue(r, o, p, slip)
    PROVE  ExitInv'
<1>1. Turns(r, IF o.plan = <<>> THEN Resting ELSE o)
    BY Continued DEF PackInv
<1>2. ~Holds(IF o.plan = <<>> THEN Resting ELSE o) /\ ~Holds(ops[r])
    BY RestHoldsNothing DEF Holds
<1>3. QED
    BY <1>1, <1>2, Unheld

\* A step of Packs is the step of a request that is no switch and no activation.
LEMMA PackTurns ==
    ASSUME PackInv, NEW r \in PolicyRequest, PackStep(r)
    PROVE  /\ ops[r].op \notin Sweeps /\ ops[r].plan # <<>>
           /\ \E o, p, slip : o.op \notin Sweeps /\ Continue(r, o, p, slip)
<1>1. PICK b : b = ops[r]
    OBVIOUS
<1>2. IsOp(b) /\ OpStation(b) /\ ArePolicies(policy)
    BY <1>1, AtWork
<1>0. b.plan # <<>>
    BY <1>1 DEF PackStep, Change, Serve, Restore
<1>3. ASSUME Head(b.plan) \in Changes \cup Serving \cup {"restoreRules", "restoreSets"}
      PROVE  b.op \notin Sweeps
    <2>1. PackKind(b) \/ EditKind(b) \/ FileKind(b) \/ UndoneKind(b)
        BY <1>0, <1>2, <1>3, HeadsTell
    <2>2. QED
        BY <2>1 DEF PackKind, EditKind, FileKind, UndoneKind, Sweeps, PackOps, Editing
<1>4. b.op \notin Sweeps
    <2>1. CASE Change(r)
        <3>1. ASSUME NEW q \in Outcomes(b, Head(b.plan)) PROVE Head(b.plan) \in Changes
            BY <1>2, OutcomeOf DEF ArePolicies
        <3>2. Outcomes(b, Head(b.plan)) = {} => Head(b.plan) = "approve"
            BY <1>1, <2>1 DEF Change
        <3>3. QED
            BY <1>3, <3>1, <3>2 DEF Changes, RuleSteps
    <2>2. CASE Serve(r) \/ Restore(r)
        BY <1>1, <1>3, <2>2 DEF Serve, Restore
    <2>3. QED
        BY <2>1, <2>2 DEF PackStep
<1>5. ASSUME NEW p, Fails(r, p)
      PROVE  \E o, x, slip : o.op \notin Sweeps /\ Continue(r, o, x, slip)
    <2>1. PICK o, slip : /\ o = [b EXCEPT !.op = "undone", !.plan = Recovery(b.op, Head(b.plan))]
                         /\ Continue(r, o, p, slip)
        BY <1>1, <1>5 DEF Fails
    <2>2. o.op \notin Sweeps
        BY <1>2, <2>1 DEF IsOp, Sweeps
    <2>3. QED
        BY <2>1, <2>2
<1>6. ASSUME NEW plan, NEW list, NEW p, NEW slip,
             Continue(r, [b EXCEPT !.plan = plan, !.list = list], p, slip)
      PROVE  \E o, x, y : o.op \notin Sweeps /\ Continue(r, o, x, y)
    <2>1. PICK o : o = [b EXCEPT !.plan = plan, !.list = list]
        OBVIOUS
    <2>2. o.op \notin Sweeps
        BY <1>2, <1>4, <2>1 DEF IsOp
    <2>3. QED
        BY <1>6, <2>1, <2>2
<1>7. ASSUME NEW plan, NEW p, NEW slip, Continue(r, [b EXCEPT !.plan = plan], p, slip)
      PROVE  \E o, x, y : o.op \notin Sweeps /\ Continue(r, o, x, y)
    <2>1. PICK o : o = [b EXCEPT !.plan = plan]
        OBVIOUS
    <2>2. o.op \notin Sweeps
        BY <1>2, <1>4, <2>1 DEF IsOp
    <2>3. QED
        BY <1>7, <2>1, <2>2
<1>8. \E o, p, slip : o.op \notin Sweeps /\ Continue(r, o, p, slip)
    <2>1. CASE Change(r)
        <3>1. \/ \E q \in Outcomes(b, Head(b.plan)) :
                    \/ \E list, slip :
                        Continue(r, [b EXCEPT !.plan = Tail(@), !.list = list],
                                 Saves(q, StoreOf(Head(b.plan))), slip)
                    \/ Fails(r, [policy EXCEPT !.mem = q])
              \/ Continue(r, [b EXCEPT !.plan = <<>>], policy, {})
            BY <1>1, <2>1 DEF Change
        <3>2. QED
            BY <1>5, <1>6, <1>7, <3>1
    <2>2. CASE Serve(r)
        <3>1. (\E p : Continue(r, [b EXCEPT !.plan = Tail(@)], p, {})) \/ Fails(r, policy)
            BY <1>1, <2>2 DEF Serve
        <3>2. QED
            BY <1>5, <1>7, <3>1
    <2>3. CASE Restore(r)
        <3>1. \E p, slip : Continue(r, [b EXCEPT !.plan = Tail(@)], p, slip)
            BY <1>1, <2>3 DEF Restore
        <3>2. QED
            BY <1>7, <3>1
    <2>4. QED
        BY <2>1, <2>2, <2>3 DEF PackStep
<1>9. QED
    BY <1>0, <1>1, <1>4, <1>8

LEMMA PackKeeps ==
    ASSUME ExitInv, PackInv, UNCHANGED exitVars, NEW r \in PolicyRequest, PackStep(r)
    PROVE  ExitInv'
BY PackTurns, ContinueUnheld

LEMMA BeginUnheld ==
    ASSUME ExitInv, PackInv, UNCHANGED exitVars, NEW r \in PolicyRequest, NEW op, NEW arg, NEW plan,
           Begin(r, op, arg, plan), op \notin Sweeps \/ Head(plan) = "leave"
    PROVE  ExitInv'
<1>1. PICK o : /\ o = [Resting EXCEPT !.op = op, !.arg = arg, !.plan = plan,
                                      !.prev = [s \in Kept(op) |-> policy.mem[s]]]
               /\ ops' = [ops EXCEPT ![r] = o]
    BY DEF Begin
<1>2. o.op = op /\ o.plan = plan
    BY <1>1 DEF Resting
<1>3. Turns(r, o)
    BY <1>1 DEF PackInv, OpTypes, Turns
<1>4. ~Holds(ops[r]) /\ ~Holds(o)
    BY <1>2, RestHoldsNothing DEF Begin, Holds
<1>5. QED
    BY <1>3, <1>4, Unheld

LEMMA BeginPolicyKeeps ==
    ASSUME ExitInv, PackInv, NEW r \in PolicyRequest, BeginPolicy(r)
    PROVE  ExitInv'
<1>1. PICK op \in Editing \cup {"request"} \cup PackOps : \E arg, plan : Begin(r, op, arg, plan)
    BY DEF BeginPolicy, BeginEdit, BeginJudgement, BeginPack, Editing
<1>2. UNCHANGED exitVars /\ op \notin Sweeps
    BY DEF BeginPolicy, Editing, PackOps, Sweeps
<1>3. QED
    BY <1>1, <1>2, BeginUnheld

LEMMA BeginSwitchKeeps ==
    ASSUME ExitInv, PackInv, NEW r \in PolicyRequest, BeginSwitch(r)
    PROVE  ExitInv'
<1>1. PICK arg : Begin(r, "switch", arg, SwitchPlan)
    BY DEF BeginSwitch
<1>2. Head(SwitchPlan) = "leave"
    BY SMT DEF SwitchPlan
<1>3. UNCHANGED exitVars
    BY DEF BeginSwitch
<1>4. QED
    BY <1>1, <1>2, <1>3, BeginUnheld

LEMMA BeginActivateKeeps ==
    ASSUME ExitInv, PackInv, NEW r \in PolicyRequest, BeginActivate(r)
    PROVE  ExitInv'
<1>0. PICK name :
            ops' = [ops EXCEPT ![r] =
                [Resting EXCEPT !.op = "activate", !.arg = profiles[name].sub, !.plan = ProfilePlan,
                    !.next = Content(profiles[name]),
                    !.list = IF profiles[name].sub \notin DOMAIN subs \/ subs[profiles[name].sub].nodes = None
                             THEN {} ELSE {<<profiles[name].sub, subs[profiles[name].sub].nodes>>}]]
    BY Zenon DEF BeginActivate
<1>1. PICK sub, o :
            /\ sub = profiles[name].sub
            /\ o = [Resting EXCEPT !.op = "activate", !.arg = sub, !.plan = ProfilePlan,
                        !.next = Content(profiles[name]),
                        !.list = IF sub \notin DOMAIN subs \/ subs[sub].nodes = None THEN {}
                                 ELSE {<<sub, subs[sub].nodes>>}]
            /\ ops' = [ops EXCEPT ![r] = o]
    BY <1>0
<1>2. o.op = "activate" /\ o.arg = sub /\ o.plan = ProfilePlan /\ o.list = Wanted(subs, sub)
    BY <1>1 DEF Resting, Wanted
<1>3. Head(ProfilePlan) = "plane"
    BY SMT DEF ProfilePlan
<1>4. Holds(o) /\ (plane["nodes"] = InMem("nodes") =>
                        Carried(o, subs, InMem("nodes"), plane["nodes"]))
    BY <1>2, <1>3 DEF Holds, Sweeps, Carried
<1>5. Turns(r, o)
    BY <1>1 DEF PackInv, OpTypes, Turns
<1>6. \A q \in PolicyRequest : ~Holds(ops[q])
    BY DEF BeginActivate, Sweeping, Holds
<1>7. Hold /\ Same /\ plane' = plane
    BY DEF BeginActivate, StoresStay, Same
<1>8. QED
    BY <1>4, <1>5, <1>6, <1>7, TakeUp

-----------------------------------------------------------------------------
\* ClearAllApplied and SetApplied: no store of the others changes.
Remarked(s) ==
    \/ Saved({"subs"}, s) /\ Well
    \/ Unsaved(s) /\ torn' = torn \cup {"nodes"}

LEMMA RemarkIs ==
    ASSUME ExitTypes, NEW g, IsSubs(g), NEW s, s = [Memory EXCEPT !.subs = g], Remarked(s)
    PROVE  /\ IsStores(s) /\ s.subs = g /\ \A f \in Parts \ {"subs"} : s[f] = Memory[f]
           /\ torn \subseteq torn'
           /\ \E saved : Filed(s, saved) /\ (saved = {"subs"} \/ "nodes" \in torn')
<1>1. IsStores(Memory)
    BY DEF ExitTypes
<1>2. IsStores(s) /\ s.subs = g /\ \A f \in Parts \ {"subs"} : s[f] = Memory[f]
    BY <1>1, SubsPut DEF PartOf
<1>3. CASE Saved({"subs"}, s) /\ Well
    BY <1>2, <1>3, SavedIs DEF Well
<1>4. CASE Unsaved(s) /\ torn' = torn \cup {"nodes"}
    <2>1. Filed(s, {})
        BY <1>2, <1>4, UnsavedIs
    <2>2. QED
        BY <1>2, <1>4, <2>1
<1>5. QED
    BY <1>3, <1>4 DEF Remarked

LEMMA ClearedIs ==
    ASSUME NEW f, IsSubs(f), NEW g, g = [i \in DOMAIN f |-> [f[i] EXCEPT !.applied = FALSE]]
    PROVE  IsSubs(g) /\ NodesOf(g) = {} /\ \A id : Wanted(g, id) = Wanted(f, id)
<1>1. ASSUME NEW i \in DOMAIN f
      PROVE  g[i].nodes = f[i].nodes /\ g[i].applied = FALSE /\ IsSub(g[i])
    <2>1. IsSub(f[i]) /\ g[i] = [f[i] EXCEPT !.applied = FALSE]
        BY SubsAre
    <2>2. QED
        BY <2>1 DEF IsSub
<1>2. DOMAIN g = DOMAIN f
    OBVIOUS
<1>3. g = [i \in DOMAIN g |-> g[i]] /\ \A i \in DOMAIN g : IsSub(g[i])
    BY <1>1, <1>2
<1>4. \A i \in DOMAIN g : g[i] = [nodes |-> g[i].nodes, applied |-> g[i].applied]
    BY <1>1, <1>2 DEF IsSub
<1>5. IsSubs(g)
    BY <1>3, <1>4 DEF IsSubs, IsSub
<1>6. NodesOf(g) = {}
    BY <1>1, <1>2 DEF NodesOf
<1>7. \A id : Wanted(g, id) = Wanted(f, id)
    BY <1>1, <1>2 DEF Wanted
<1>8. QED
    BY <1>5, <1>6, <1>7

LEMMA MarkedIs ==
    ASSUME NEW f, IsSubs(f), NodesOf(f) = {}, NEW id \in DOMAIN f, NEW g, g = Flag(f, id, TRUE)
    PROVE  NodesOf(g) = Wanted(f, id)
<1>1. DOMAIN g = DOMAIN f /\ \A i \in DOMAIN f \ {id} : g[i] = f[i]
    BY DEF Flag
<1>2. g[id] = [f[id] EXCEPT !.applied = TRUE] /\ IsSub(f[id])
    BY SubsAre DEF Flag
<1>3. g[id].nodes = f[id].nodes /\ g[id].applied
    BY <1>2 DEF IsSub
<1>4. \A i \in DOMAIN f : ~(f[i].applied /\ f[i].nodes # None)
    BY DEF NodesOf
<1>5. \A i \in DOMAIN g : (g[i].applied /\ g[i].nodes # None) <=> (i = id /\ f[id].nodes # None)
    BY <1>1, <1>3, <1>4
<1>6. CASE f[id].nodes = None
    <2>1. {i \in DOMAIN g : g[i].applied /\ g[i].nodes # None} = {}
        BY <1>5, <1>6
    <2>2. QED
        BY <1>6, <2>1 DEF NodesOf, Wanted
<1>7. CASE f[id].nodes # None
    <2>1. {i \in DOMAIN g : g[i].applied /\ g[i].nodes # None} = {id}
        BY <1>1, <1>5, <1>7
    <2>2. NodesOf(g) = {<<id, g[id].nodes>>}
        BY <2>1 DEF NodesOf
    <2>3. QED
        BY <1>3, <1>7, <2>2 DEF Wanted
<1>8. QED
    BY <1>6, <1>7
LEMMA ClearKeeps == ASSUME ExitInv, PackInv, NEW r \in PolicyRequest, ClearSubs(r) PROVE ExitInv'
<1>1. At(r, "clear") /\ "clear" \in SweepSteps /\ plane' = plane /\ inflight' = inflight
    BY DEF ClearSubs, SweepSteps
<1>2. PICK b : b = ops[r]
    OBVIOUS
<1>3. OpTypes /\ Head(b.plan) = "clear" /\ SweepPlan(b.op, b.plan) /\ Holds(b)
    BY <1>1, <1>2, HoldsAt
<1>4. b.op = "activate" /\ Tail(b.plan) # <<>> /\ Head(Tail(b.plan)) = "mark"
    BY <1>3 DEF SweepPlan
<1>5. PICK o : /\ o.op = b.op /\ o.arg = b.arg /\ o.list = b.list /\ o.plan = Tail(b.plan)
               /\ Turns(r, IF o.plan = <<>> THEN Resting ELSE o)
    <2>1. Continue(r, [b EXCEPT !.plan = Tail(@)], policy, {})
        BY <1>2 DEF ClearSubs, Forth
    <2>2. QED
        BY <1>1, <1>2, <2>1, ForthTurns
<1>6. Turns(r, o) /\ Holds(o)
    BY <1>4, <1>5 DEF Holds, Sweeps
<1>7. ExitTypes /\ IsSubs(subs) /\ DOMAIN plane' = Axes /\ "nodes" \in Axes
    BY <1>1 DEF ExitInv, ExitTypes, IsStores, Memory, Axes
<1>8. PICK g : g = [i \in DOMAIN subs |-> [subs[i] EXCEPT !.applied = FALSE]]
    OBVIOUS
<1>9. IsSubs(g) /\ NodesOf(g) = {} /\ \A id : Wanted(g, id) = Wanted(subs, id)
    BY <1>7, <1>8, ClearedIs
<1>10. \A s, saved :
            /\ IsStores(s) /\ Filed(s, saved) /\ torn \subseteq torn'
            /\ \A f \in Parts \ {"subs"} : s[f] = Memory[f]
            /\ NodesOf(s.subs) = {} /\ \A id : Wanted(s.subs, id) = Wanted(subs, id)
            /\ "nodes" \notin torn' => saved = {"subs"} \/ Same
            => ExitInv'
    <2>1. SUFFICES ASSUME NEW s, NEW saved, IsStores(s), Filed(s, saved), torn \subseteq torn',
                          \A f \in Parts \ {"subs"} : s[f] = Memory[f],
                          NodesOf(s.subs) = {}, \A id : Wanted(s.subs, id) = Wanted(subs, id),
                          "nodes" \notin torn' => saved = {"subs"} \/ Same
                   PROVE  ExitInv'
        BY Zenon
    <2>2. InMem("nodes")' = {} /\ subs' = s.subs
        BY <2>1, DerivedIs DEF InMem, Filed, Memory
    <2>3. ASSUME "nodes" \notin torn'
          PROVE  /\ OnDisk("nodes")' = InMem("nodes")'
                 /\ Carried(o, subs', InMem("nodes")', plane'["nodes"])
        <3>1. /\ OnDisk("nodes") = InMem("nodes")
              /\ Carried(b, subs, InMem("nodes"), plane["nodes"])
            BY <1>2, <1>3, <1>7, <2>1, <2>3 DEF ExitInv, Course, AxisCourse, NodesCarried
        <3>2. b.list = Wanted(subs, b.arg) /\ plane["nodes"] = b.list
            BY <1>3, <1>4, <3>1 DEF Carried
        <3>3. OnDisk("nodes")' = InMem("nodes")'
            <4>1. CASE saved = {"subs"}
                BY <1>7, <2>1, <4>1, StoresWritten DEF PartOf
            <4>2. CASE Same
                BY <1>7, <3>1, <4>2, MemoryStays
            <4>3. QED
                BY <2>1, <2>3, <4>1, <4>2
        <3>4. Carried(o, s.subs, {}, plane["nodes"])
            BY <1>4, <1>5, <2>1, <3>2 DEF Carried
        <3>5. QED
            BY <1>1, <2>2, <3>3, <3>4
    <2>4. QED
        BY <1>1, <1>2, <1>3, <1>6, <1>7, <2>1, <2>3, HolderStep
<1>11. CASE \E id \in DOMAIN subs : subs[id].applied
    <2>1. PICK s : s = [Memory EXCEPT !.subs = g]
        OBVIOUS
    <2>2. Remarked(s)
        BY <1>8, <1>11, <2>1 DEF ClearSubs, Cleared, Remark, Remarked
    <2>3. /\ IsStores(s) /\ s.subs = g /\ \A f \in Parts \ {"subs"} : s[f] = Memory[f]
          /\ torn \subseteq torn'
          /\ \E saved : Filed(s, saved) /\ (saved = {"subs"} \/ "nodes" \in torn')
        BY <1>7, <1>9, <2>1, <2>2, RemarkIs
    <2>4. QED
        BY <1>9, <1>10, <2>3
<1>12. CASE ~\E id \in DOMAIN subs : subs[id].applied
    <2>1. Same /\ torn' = torn
        BY <1>12 DEF ClearSubs, Remark, Well
    <2>2. IsStores(Memory) /\ Filed(Memory, {}) /\ Memory.subs = subs
        BY <1>7, <2>1, MemoryStays DEF Memory
    <2>3. NodesOf(subs) = {}
        BY <1>12 DEF NodesOf
    <2>4. QED
        BY <1>10, <2>1, <2>2, <2>3
<1>13. QED
    BY <1>11, <1>12

LEMMA MarkKeeps == ASSUME ExitInv, PackInv, NEW r \in PolicyRequest, MarkProfile(r) PROVE ExitInv'
<1>1. At(r, "mark") /\ "mark" \in SweepSteps /\ plane' = plane /\ Stop(r)
      /\ inflight' = [e \in ExitRequest |-> IF e \in Holding THEN Idle ELSE inflight[e]]
    BY DEF MarkProfile, SweepSteps
<1>2. PICK b : b = ops[r]
    OBVIOUS
<1>3. OpTypes /\ Head(b.plan) = "mark" /\ SweepPlan(b.op, b.plan) /\ Holds(b)
    BY <1>1, <1>2, HoldsAt
<1>4. Turns(r, Resting) /\ ~Holds(Resting) /\ b.op = "activate"
    BY <1>1, <1>3, StopTurns, RestHoldsNothing DEF SweepPlan
<1>5. ExitTypes /\ IsStores(Memory) /\ IsSubs(subs) /\ "nodes" \in Axes
    BY DEF ExitInv, ExitTypes, IsStores, Memory, Axes
<1>6. "nodes" \notin torn =>
        /\ OnDisk("nodes") = InMem("nodes") /\ InMem("nodes") = {}
        /\ plane["nodes"] = Wanted(subs, b.arg)
    BY <1>2, <1>3, <1>4, <1>5 DEF ExitInv, Course, AxisCourse, NodesCarried, Carried
<1>7. InMem("nodes") = NodesOf(subs)
    BY DerivedIs DEF InMem, Memory
<1>8. CASE b.arg \in DOMAIN subs /\ Remark(TRUE, WithApplied(b.arg, TRUE))
    <2>0. PICK v \in BOOLEAN : v = TRUE
        OBVIOUS
    <2>1. PICK g : g = Flag(subs, b.arg, v)
        OBVIOUS
    <2>2. IsSubs(g)
        BY <1>5, <1>8, <2>1, FlagIs
    <2>3. NodesOf(subs) = {} => NodesOf(g) = Wanted(subs, b.arg)
        <3>1. g = Flag(subs, b.arg, TRUE) /\ b.arg \in DOMAIN subs
            BY <1>8, <2>0, <2>1
        <3>2. QED
            BY <1>5, <3>1, MarkedIs
    <2>4. PICK t : t = [Memory EXCEPT !.subs = g] /\ Remarked(t)
        <3>1. PICK t : t = WithApplied(b.arg, TRUE)
            OBVIOUS
        <3>2. t = [Memory EXCEPT !.subs = g]
            BY <1>5, <2>0, <2>1, <3>1, WithAppliedIs
        <3>3. Remarked(t)
            BY <1>8, <3>1 DEF Remark, Remarked
        <3>4. QED
            BY <3>2, <3>3
    <2>5. PICK saved :
            /\ IsStores(t) /\ Filed(t, saved) /\ \A f \in Parts \ {"subs"} : t[f] = Memory[f]
            /\ torn \subseteq torn'
            /\ t.subs = g /\ (saved = {"subs"} \/ "nodes" \in torn')
        BY <1>5, <2>2, <2>4, RemarkIs
    <2>6. InMem("nodes")' = NodesOf(g)
        BY <2>5, DerivedIs DEF InMem, Filed
    <2>7. ASSUME "nodes" \notin torn'
          PROVE  /\ OnDisk("nodes")' = InMem("nodes")' /\ plane["nodes"] = InMem("nodes")'
                 /\ "nodes" \notin torn
        <3>1. "nodes" \notin torn /\ saved = {"subs"}
            BY <2>5, <2>7
        <3>2. OnDisk("nodes")' = InMem("nodes")'
            BY <1>5, <2>5, <3>1, StoresWritten DEF PartOf
        <3>3. QED
            BY <1>6, <1>7, <2>3, <2>6, <3>1, <3>2
    <2>8. QED
        BY <1>1, <1>2, <1>3, <1>4, <2>5, <2>7, LetGo
<1>9. CASE b.arg \notin DOMAIN subs /\ Same /\ torn' = torn
    <2>1. Filed(Memory, {}) /\ InMem("nodes")' = InMem("nodes") /\ OnDisk("nodes")' = OnDisk("nodes")
        BY <1>5, <1>9, MemoryStays
    <2>2. Wanted(subs, b.arg) = {}
        BY <1>9 DEF Wanted
    <2>3. "nodes" \notin torn' =>
            /\ OnDisk("nodes")' = InMem("nodes")' /\ plane["nodes"] = InMem("nodes")'
            /\ "nodes" \notin torn
        BY <1>6, <1>9, <2>1, <2>2
    <2>4. QED
        BY <1>1, <1>2, <1>3, <1>4, <1>5, <1>9, <2>1, <2>3, LetGo
<1>10. QED
    BY <1>2, <1>8, <1>9 DEF MarkProfile, Remark, Well
-----------------------------------------------------------------------------
(***************************************************************************)
(* The daemon starts                                                       *)
(***************************************************************************)
\* Nobody is in flight and everything follows from the files.
Begun ==
    /\ IsStores(Memory) /\ exitFiles = Memory /\ plane = Derived(Memory)
    /\ inflight = [r \in ExitRequest |-> Idle] /\ ops = [r \in PolicyRequest |-> Resting]

LEMMA Afresh == Begun => ExitInv
<1>0. SUFFICES ASSUME IsStores(Memory), exitFiles = Memory, plane = Derived(Memory),
                      inflight = [r \in ExitRequest |-> Idle], ops = [r \in PolicyRequest |-> Resting]
               PROVE  ExitInv
    BY DEF Begun
<1>1. \A r \in ExitRequest : /\ inflight[r] = Idle /\ IsCall(Idle) /\ Station(Idle) /\ Idle.op # "policy"
                             /\ \A a \in Axes : ~Busy(Idle, a)
    BY <1>0, IdleNotBusy DEF Axes
<1>2. DOMAIN plane = Axes
    BY <1>0, DerivedIs
<1>3. ExitTypes
    BY <1>0, <1>1, <1>2, Zenon DEF ExitTypes
<1>4. Holding = {}
    BY <1>1 DEF Holding
<1>5. \A r \in PolicyRequest : ~Holds(ops[r])
    BY <1>0, RestHoldsNothing
<1>6. HeldOnce /\ NodesCarried
    BY <1>4, <1>5, Zenon DEF HeldOnce, NodesCarried
<1>7. ASSUME NEW a \in Axes PROVE Course(a)
    <2>1. \A r \in ExitRequest : ~Busy(inflight[r], a) /\ inflight[r].axis # a
        BY <1>1 DEF Busy
    <2>2. plane[a] = InMem(a) /\ OnDisk(a) = InMem(a)
        BY <1>0 DEF InMem, OnDisk
    <2>3. QED
        BY <2>1, <2>2, Zenon DEF Course, AxisCourse
<1>8. QED
    BY <1>3, <1>6, <1>7 DEF ExitInv

LEMMA ExitsStart == SettingsInit => ExitInv
<1>1. SUFFICES ASSUME SettingsInit PROVE ExitInv
    OBVIOUS
<1>2. /\ exitFiles = Memory /\ plane = Derived(Memory) /\ inflight = [r \in ExitRequest |-> Idle]
      /\ ops = [r \in PolicyRequest |-> Resting] /\ subs = <<>>
    BY <1>1 DEF SettingsInit, ExitInit, PackInit, Fresh
<1>3. IsSubs(subs)
    BY <1>2, SMT DEF IsSubs
<1>4. IsStores(Memory)
    BY <1>3 DEF IsStores, Memory
<1>5. QED
    BY <1>2, <1>4, Afresh DEF Begun

LEMMA BootKeeps == ASSUME ExitInv, Boot PROVE ExitInv'
<1>1. IsStores(exitFiles)
    BY DEF ExitInv, ExitTypes
<1>2. Memory' = exitFiles /\ exitFiles' = exitFiles
    BY <1>1, PutIs DEF Boot, Restart
<1>3. IsStores(Memory)'
    BY <1>1, <1>2 DEF IsStores, IsSubs
<1>4. plane' = Derived(Memory)' /\ inflight' = [r \in ExitRequest |-> Idle]
      /\ ops' = [r \in PolicyRequest |-> Resting]
    BY <1>2 DEF Boot, Restart, Reload
<1>5. Begun'
    BY <1>2, <1>3, <1>4 DEF Begun
<1>6. QED
    BY <1>5, Afresh, PTL

-----------------------------------------------------------------------------
LEMMA ExitsKeep ==
    ASSUME ExitInv, ops' = ops, NEW r \in ExitRequest, OtherStep(r) \/ SubStep(r)
    PROVE  ExitInv'
BY AddSubServes, RefreshSubServes, FetchedServes, LookSubServes, MarkSubServes, DeleteSubServes,
   CollectServes, PushServes, UndoServes, PatchGatewayServes, PatchLocalServes, DeleteGatewayServes,
   ReadPreviousServes, ChangeEndpointsServes, ChangeDisabledServes
DEF OtherStep, SubStep, ServeStep

LEMMA PolicyKeeps == ASSUME ExitInv, PackInv, NEW r \in PolicyRequest, PolicyStep(r) PROVE ExitInv'
BY BeginPolicyKeeps, PackKeeps, BeginSwitchKeeps, LeaveKeeps, LoadKeeps, PlaneKeeps, AlignKeeps,
   SettleKeeps, BeginActivateKeeps, ClearKeeps, MarkKeeps
DEF PolicyStep

\* Neither the exits nor the requests of the policy move.
LEMMA StillKeeps == ASSUME ExitInv, UNCHANGED exitVars, ops' = ops PROVE ExitInv'
<1>1. inflight' = inflight /\ subs' = subs /\ plane' = plane /\ torn' = torn /\ Memory' = Memory
    BY DEF exitVars, Memory
<1>2. HeldOnce'
    <2>1. Holding' = Holding
        BY <1>1 DEF Holding
    <2>2. QED
        BY <2>1, Zenon DEF ExitInv, HeldOnce
<1>3. NodesCarried'
    <2>1. InMem("nodes")' = InMem("nodes")
        BY <1>1 DEF InMem
    <2>2. QED
        BY <1>1, <2>1, Zenon DEF ExitInv, NodesCarried
<1>4. QED
    BY <1>2, <1>3, ExitsStay

LEMMA ExitsStep == ASSUME ExitInv, PackInv, [SettingsNext]_allVars PROVE ExitInv'
<1>1. CASE UNCHANGED allVars
    BY <1>1, StillKeeps DEF allVars, packVars
<1>2. ASSUME NEW r \in PolicyRequest, PolicyStep(r)
      PROVE  ExitInv'
    BY <1>2, PolicyKeeps
<1>3. CASE AddProfile \/ DeleteProfile
    BY <1>3, StillKeeps DEF AddProfile, DeleteProfile, packVars
<1>4. ASSUME NEW r \in ExitRequest, OtherStep(r) \/ SubStep(r), UNCHANGED packVars
      PROVE  ExitInv'
    BY <1>4, ExitsKeep DEF packVars
<1>5. CASE Boot
    BY <1>5, BootKeeps
<1>6. QED
    BY <1>1, <1>2, <1>3, <1>4, <1>5 DEF SettingsNext

LEMMA ExitInvHolds == SettingsSpec => []ExitInv
<1>1. SettingsInit => ExitInv
    BY ExitsStart
<1>2. ExitInv /\ PackInv /\ [SettingsNext]_allVars => ExitInv'
    BY ExitsStep
<1>3. QED
    BY <1>1, <1>2, PackInvHolds, PTL DEF SettingsSpec

\* Whenever no request works on an axis, the data plane serves what the store
\* says and what the file would boot into, except where something was let slip
\* (handleApplySub: "Roll the flag back if Apply fails so store matches the
\* plane"): for any number of requests, subscriptions, gateways and endpoints, and
\* beside switches and activations that carry the nodes through a rebuild.
THEOREM SettingsListsAreServed == SettingsSpec => []ListsAreServed
<1>1. ExitInv => ListsAreServed
    <2>1. SUFFICES ASSUME ExitInv, NEW axis \in Axes \ torn, Working(axis) = {}
                   PROVE  plane[axis] = Derived(Memory)[axis] /\ plane[axis] = Derived(exitFiles)[axis]
        BY DEF ListsAreServed
    <2>2. plane[axis] = InMem(axis) /\ OnDisk(axis) = InMem(axis)
        BY <2>1, Opening
    <2>3. QED
        BY <2>2 DEF InMem, OnDisk
<1>2. QED
    BY <1>1, ExitInvHolds, PTL
-----------------------------------------------------------------------------
(***************************************************************************)
(* The packs that are in force have their sets                             *)
(***************************************************************************)
\* Every set of the pack is there, in force, with the axes the pack wants.
Whole(sets, pack) ==
    \A tag \in DOMAIN Preset[pack].sets :
        /\ tag \in DOMAIN sets
        /\ sets[tag].on
        /\ Preset[pack].sets[tag] \subseteq sets[tag].role

\* A request that may go back to the sets there were when it began, and one that
\* has merged its pack, or has a pack without sets.
Returning(o) ==
    o.op \in PackOps \cup {"set"} \/ (o.op = "undone" /\ Pending(o.plan, {"restoreSets"}))
Through(o) == o.op \in {"apply", "on"} /\ ~Pending(o.plan, SetEditing)

WantedInv ==
    /\ wanted \subseteq DOMAIN Preset
    /\ "sets" \in loose => wanted = {}
    /\ \A pack \in wanted : Whole(policy.mem.sets, pack)
    /\ \A r \in PolicyRequest :
        /\ ops[r].op \in Sweeps \cup {"set"} => wanted = {}
        /\ ops[r].op \in PackOps => ops[r].arg \in DOMAIN Preset \ wanted
        /\ Returning(ops[r]) => \A pack \in wanted : Whole(ops[r].prev.sets, pack)
        /\ Through(ops[r]) /\ "sets" \notin loose => Whole(policy.mem.sets, ops[r].arg)

LEMMA RestRemembersNothing ==
    ~Returning(Resting) /\ ~Through(Resting) /\ Resting.op \notin Sweeps \cup {"set"} \cup PackOps
BY PacksAssumption DEF Returning, Through, Resting, Sweeps, PackOps, PacksAssumption

\* Whoever changes sets, or may go back to some, has to do with the store.
LEMMA SetsInHand ==
    ASSUME NEW o
    PROVE  /\ Returning(o) => "sets" \in Hands(o)
           /\ o.op \in Sweeps \cup PackOps \cup {"set"} => "sets" \in Hands(o)
           /\ Through(o) => o.op \in PackOps
<1>1. o.op \in Sweeps => "sets" \in Hands(o)
    BY SweepStage DEF Stores
<1>2. o.op \in PackOps => "sets" \in Hands(o)
    BY PackStage DEF Stores
<1>3. o.op = "set" => "sets" \in Hands(o)
    BY EditStage DEF Editing
<1>4. o.op = "undone" /\ Pending(o.plan, {"restoreSets"}) => "sets" \in Hands(o)
    BY DEF Hands, PlanStores, Pending, StoreOf, SetSteps
<1>5. QED
    BY <1>1, <1>2, <1>3, <1>4 DEF Returning, Through, PackOps

LEMMA OneHand ==
    ASSUME PackInv, "sets" \notin loose, NEW r \in PolicyRequest, "sets" \in Hands(ops[r]),
           NEW q \in PolicyRequest \ {r}
    PROVE  /\ ~Returning(ops[q]) /\ ~Through(ops[q])
           /\ ops[q].op \notin Sweeps \cup PackOps \cup {"set"}
<1>1. "sets" \notin Hands(ops[q])
    BY DEF PackInv, StoreCourse, Stores
<1>2. QED
    BY <1>1, SetsInHand

\* What a pack does to the sets does not take any axes from another one.
LEMMA OthersStayWhole ==
    ASSUME NEW sets, NEW p \in DOMAIN Preset, NEW pack \in DOMAIN Preset \ {p}, Whole(sets, pack)
    PROVE  Whole(Merged(sets, p), pack) /\ Whole(Subtracted(sets, p), pack) /\ Whole(Withdrawn(sets, p), pack)
<1>1. ASSUME NEW tag \in DOMAIN Preset[pack].sets
      PROVE  /\ tag \in DOMAIN sets /\ sets[tag].on
             /\ Preset[pack].sets[tag] \subseteq sets[tag].role
             /\ Preset[pack].sets[tag] \subseteq {"permit"} \cup Routes /\ Preset[pack].sets[tag] # {}
             /\ tag \in DOMAIN Preset[p].sets =>
                   /\ Preset[pack].sets[tag] \cap Preset[p].sets[tag] = {}
                   /\ Preset[pack].sets[tag] \cap Routes = {} \/ Preset[p].sets[tag] \cap Routes = {}
    <2>1. tag \in DOMAIN sets /\ sets[tag].on /\ Preset[pack].sets[tag] \subseteq sets[tag].role
        BY DEF Whole
    <2>2. Preset[pack].sets[tag] \subseteq {"permit"} \cup Routes /\ Preset[pack].sets[tag] # {}
        BY PresetsAssumption DEF PresetsAssumption
    <2>3. tag \in DOMAIN Preset[p].sets =>
                   /\ Preset[pack].sets[tag] \cap Preset[p].sets[tag] = {}
                   /\ Preset[pack].sets[tag] \cap Routes = {} \/ Preset[p].sets[tag] \cap Routes = {}
        BY PresetsAssumption DEF PresetsAssumption
    <2>4. QED
        BY <2>1, <2>2, <2>3, Zenon
<1>2. ASSUME NEW tag \in DOMAIN Preset[pack].sets \cap DOMAIN Preset[p].sets
      PROVE  /\ Preset[pack].sets[tag] \subseteq MergeRuleRoles(RoleIn(sets, tag), Preset[p].sets[tag])
             /\ Preset[pack].sets[tag] \subseteq Left(sets, p, tag) /\ Left(sets, p, tag) # {}
    <2> DEFINE wants == Preset[pack].sets[tag]
               other == Preset[p].sets[tag]
               role == sets[tag].role
    <2>1. wants \subseteq role /\ wants \subseteq {"permit"} \cup Routes /\ wants # {}
          /\ wants \cap other = {} /\ (wants \cap Routes = {} \/ other \cap Routes = {})
        BY <1>1
    <2>2. RoleIn(sets, tag) = role
        BY <1>1 DEF RoleIn
    <2> HIDE DEF wants, other, role
    <2>3. wants \subseteq MergeRuleRoles(role, other)
        BY <2>1 DEF MergeRuleRoles
    <2>4. wants \subseteq SubtractRuleRoles(role, other)
        BY <2>1 DEF SubtractRuleRoles
    <2>5. wants \subseteq Left(sets, p, tag) /\ Left(sets, p, tag) # {}
        BY <2>1, <2>4 DEF Left, wants, other, role
    <2>6. QED
        BY <2>2, <2>3, <2>5 DEF wants, other
<1>3. ASSUME NEW tag \in DOMAIN Preset[pack].sets
      PROVE  /\ tag \in DOMAIN Merged(sets, p) /\ Merged(sets, p)[tag].on
             /\ Preset[pack].sets[tag] \subseteq Merged(sets, p)[tag].role
    <2>1. CASE tag \in DOMAIN Preset[p].sets
        <3>1. tag \in DOMAIN Merged(sets, p) /\ Merged(sets, p)[tag] =
                [role |-> MergeRuleRoles(RoleIn(sets, tag), Preset[p].sets[tag]), on |-> TRUE]
            BY <2>1 DEF Merged
        <3>2. QED
            BY <1>2, <2>1, <3>1
    <2>2. CASE tag \notin DOMAIN Preset[p].sets
        <3>1. tag \in DOMAIN Merged(sets, p) /\ Merged(sets, p)[tag] = sets[tag]
            BY <1>1, <2>2 DEF Merged
        <3>2. QED
            BY <1>1, <3>1
    <2>3. QED
        BY <2>1, <2>2
<1>4. ASSUME NEW tag \in DOMAIN Preset[pack].sets
      PROVE  /\ tag \in DOMAIN Subtracted(sets, p) /\ Subtracted(sets, p)[tag].on
             /\ Preset[pack].sets[tag] \subseteq Subtracted(sets, p)[tag].role
    <2>1. CASE tag \in DOMAIN Preset[p].sets
        <3>1. tag \in Concerned(sets, p) /\ Left(sets, p, tag) # {}
            BY <1>1, <1>2, <2>1 DEF Concerned
        <3>2. tag \in DOMAIN Subtracted(sets, p)
              /\ Subtracted(sets, p)[tag] = [role |-> Left(sets, p, tag), on |-> TRUE]
            BY <1>1, <3>1 DEF Subtracted
        <3>3. QED
            BY <1>2, <2>1, <3>2
    <2>2. CASE tag \notin DOMAIN Preset[p].sets
        <3>1. tag \notin Concerned(sets, p)
            BY <2>2 DEF Concerned
        <3>2. tag \in DOMAIN Subtracted(sets, p) /\ Subtracted(sets, p)[tag] = sets[tag]
            BY <1>1, <3>1 DEF Subtracted
        <3>3. QED
            BY <1>1, <3>2
    <2>3. QED
        BY <2>1, <2>2
<1>5. ASSUME NEW tag \in DOMAIN Preset[pack].sets
      PROVE  tag \in DOMAIN Withdrawn(sets, p) /\ Withdrawn(sets, p)[tag] = Subtracted(sets, p)[tag]
    <2>1. tag \in DOMAIN sets /\ (tag \in Concerned(sets, p) => Left(sets, p, tag) # {})
        BY <1>1, <1>2 DEF Concerned
    <2>2. QED
        BY <2>1 DEF Withdrawn
<1>6. QED
    BY <1>3, <1>4, <1>5 DEF Whole

LEMMA MergedIsWhole == ASSUME NEW sets, NEW pack \in DOMAIN Preset PROVE Whole(Merged(sets, pack), pack)
<1>1. SUFFICES ASSUME NEW tag \in DOMAIN Preset[pack].sets
               PROVE  /\ tag \in DOMAIN Merged(sets, pack) /\ Merged(sets, pack)[tag].on
                      /\ Preset[pack].sets[tag] \subseteq Merged(sets, pack)[tag].role
    BY DEF Whole
<1>2. Preset[pack].sets[tag] \subseteq {"permit"} \cup Routes
    BY PresetsAssumption DEF PresetsAssumption
<1>3. tag \in DOMAIN Merged(sets, pack) /\ Merged(sets, pack)[tag] =
        [role |-> MergeRuleRoles(RoleIn(sets, tag), Preset[pack].sets[tag]), on |-> TRUE]
    BY DEF Merged
<1>4. QED
    BY <1>2, <1>3 DEF MergeRuleRoles

\* A step of r that goes on as o with the stores p.
LEMMA WantedGoes ==
    ASSUME PackInv, WantedInv, NEW r \in PolicyRequest, NEW o, NEW p, NEW slip, Continue(r, o, p, slip),
           o.op \in PackOps => o.op = ops[r].op /\ o.arg = ops[r].arg,
           o.op \in Sweeps \cup {"set"} => ops[r].op \in Sweeps \cup {"set"},
           Returning(o) => Returning(ops[r]) /\ o.prev = ops[r].prev,
           p.mem.sets = policy.mem.sets \/ "sets" \in Hands(ops[r]),
           "sets" \notin loose \cup slip =>
                /\ \A pack \in wanted : Whole(p.mem.sets, pack)
                /\ Through(o) => Whole(p.mem.sets, o.arg)
    PROVE  WantedInv'
<1>1. PICK mended : /\ mended = {s \in loose \ slip : o.plan = <<>> /\ Others(r, s) = {} /\ Agree(p, s)}
                    /\ policy' = p
                    /\ ops' = [ops EXCEPT ![r] = IF o.plan = <<>> THEN Resting ELSE o]
                    /\ loose' = (loose \cup slip) \ mended
                    /\ wanted' = IF "sets" \in loose \cup slip THEN {}
                                 ELSE IF o.plan = <<>> /\ o.op \in {"apply", "on"}
                                      THEN wanted \cup {o.arg} ELSE wanted
    BY DEF Continue
<1>2. DOMAIN ops = PolicyRequest /\ DOMAIN ops' = PolicyRequest
    BY <1>1 DEF PackInv, OpTypes
<1>3. \A q \in PolicyRequest \ {r} : ops'[q] = ops[q]
    BY <1>1, <1>2
<1>4. ops'[r] = IF o.plan = <<>> THEN Resting ELSE o
    BY <1>1, <1>2
<1>5. CASE "sets" \in loose \cup slip
    <2>1. wanted' = {}
        BY <1>1, <1>5
    <2>2. \A q \in PolicyRequest : ops'[q].op \in PackOps => ops'[q].arg \in DOMAIN Preset
        BY <1>3, <1>4, RestRemembersNothing DEF WantedInv
    <2>3. ASSUME NEW q \in PolicyRequest, Through(ops'[q]), "sets" \notin loose' PROVE FALSE
        <3>1. "sets" \in mended
            BY <1>1, <1>5, <2>3
        <3>2. o.plan = <<>> /\ Others(r, "sets") = {}
            BY <1>1, <3>1
        <3>3. q # r /\ ops'[q] = ops[q]
            BY <1>3, <1>4, <2>3, <3>2, RestRemembersNothing
        <3>4. ops[q].op \in PackOps
            BY <2>3, <3>3, SetsInHand
        <3>5. "sets" \in Hands(ops[q]) /\ OpStation(ops[q])
            BY <3>4, SetsInHand, AtWork
        <3>6. "sets" \in Touches(ops[q].op)
            BY <3>5, HandsIn
        <3>7. QED
            BY <3>2, <3>3, <3>6 DEF Others
    <2>4. QED
        BY <2>1, <2>2, <2>3, Zenon DEF WantedInv
<1>6. CASE "sets" \notin loose \cup slip
    <2>1. CASE o.plan = <<>> /\ o.op \in {"apply", "on"}
        <3>1. wanted' = wanted \cup {o.arg}
            BY <1>1, <1>6, <2>1
        <3>2. Through(o) /\ o.op \in PackOps /\ o.arg = ops[r].arg /\ ops[r].op \in PackOps
            BY <2>1 DEF Through, Pending, PackOps
        <3>3. o.arg \in DOMAIN Preset /\ Whole(p.mem.sets, o.arg)
            BY <1>6, <3>2 DEF WantedInv
        <3>4. \A q \in PolicyRequest \ {r} :
                  ~Returning(ops[q]) /\ ~Through(ops[q]) /\ ops[q].op \notin Sweeps \cup PackOps \cup {"set"}
            BY <1>6, <3>2, SetsInHand, OneHand
        <3>5. ops'[r] = Resting
            BY <1>4, <2>1
        <3>6. \A q \in PolicyRequest :
                ~Returning(ops'[q]) /\ ~Through(ops'[q]) /\ ops'[q].op \notin Sweeps \cup PackOps \cup {"set"}
            BY <1>3, <3>4, <3>5, RestRemembersNothing
        <3>7. \A pack \in wanted' : Whole(policy'.mem.sets, pack)
            BY <1>1, <1>6, <3>1, <3>3
        <3>8. wanted' \subseteq DOMAIN Preset /\ "sets" \notin loose'
            BY <1>1, <1>6, <3>1, <3>3 DEF WantedInv
        <3>9. QED
            BY <3>6, <3>7, <3>8, Zenon DEF WantedInv
    <2>2. CASE ~(o.plan = <<>> /\ o.op \in {"apply", "on"})
        <3>1. wanted' = wanted
            BY <1>1, <1>6, <2>2
        <3>2. ASSUME NEW q \in PolicyRequest
              PROVE  /\ ops'[q].op \in Sweeps \cup {"set"} => wanted = {}
                     /\ ops'[q].op \in PackOps => ops'[q].arg \in DOMAIN Preset \ wanted
                     /\ Returning(ops'[q]) => \A pack \in wanted : Whole(ops'[q].prev.sets, pack)
            <4>1. CASE q = r /\ o.plan # <<>>
                <5>1. ops'[q] = o
                    BY <1>4, <4>1
                <5>2. QED
                    BY <5>1 DEF WantedInv
            <4>2. CASE q = r /\ o.plan = <<>>
                BY <1>4, <4>2, RestRemembersNothing
            <4>3. CASE q # r
                BY <1>3, <4>3 DEF WantedInv
            <4>4. QED
                BY <4>1, <4>2, <4>3
        <3>3. ASSUME NEW q \in PolicyRequest, Through(ops'[q]) PROVE Whole(policy'.mem.sets, ops'[q].arg)
            <4>1. CASE q = r
                <5>1. ops'[q] = o
                    BY <1>4, <3>3, <4>1, RestRemembersNothing
                <5>2. QED
                    BY <1>1, <1>6, <3>3, <5>1
            <4>2. CASE q # r
                <5>1. ops'[q] = ops[q]
                    BY <1>3, <4>2
                <5>2. "sets" \notin Hands(ops[r])
                    BY <1>6, <3>3, <4>2, <5>1, OneHand
                <5>3. QED
                    BY <1>1, <1>6, <3>3, <5>1, <5>2 DEF WantedInv
            <4>3. QED
                BY <4>1, <4>2
        <3>4. wanted' \subseteq DOMAIN Preset /\ "sets" \notin loose'
              /\ \A pack \in wanted' : Whole(policy'.mem.sets, pack)
            BY <1>1, <1>6, <3>1 DEF WantedInv
        <3>5. QED
            BY <3>1, <3>2, <3>3, <3>4, Zenon DEF WantedInv
    <2>3. QED
        BY <2>1, <2>2
<1>7. QED
    BY <1>5, <1>6

\* A request begins as o, and the stores stay.
LEMMA WantedOpens ==
    ASSUME PackInv, WantedInv, NEW r \in PolicyRequest, NEW o, ops' = [ops EXCEPT ![r] = o],
           policy' = policy, loose \subseteq loose', wanted' \subseteq wanted,
           "sets" \in loose' => wanted' = {},
           o.op \in Sweeps \cup {"set"} => wanted' = {},
           o.op \in PackOps => o.arg \in DOMAIN Preset \ wanted',
           Returning(o) => o.prev.sets = policy.mem.sets \/ wanted' = {},
           Through(o) => DOMAIN Preset[o.arg].sets = {}
    PROVE  WantedInv'
<1>1. DOMAIN ops = PolicyRequest /\ DOMAIN ops' = PolicyRequest
    BY DEF PackInv, OpTypes
<1>2. \A q \in PolicyRequest : ops'[q] = IF q = r THEN o ELSE ops[q]
    BY <1>1
<1>3. ASSUME NEW q \in PolicyRequest
      PROVE  /\ ops'[q].op \in Sweeps \cup {"set"} => wanted' = {}
             /\ ops'[q].op \in PackOps => ops'[q].arg \in DOMAIN Preset \ wanted'
             /\ Returning(ops'[q]) => \A pack \in wanted' : Whole(ops'[q].prev.sets, pack)
             /\ Through(ops'[q]) /\ "sets" \notin loose' => Whole(policy'.mem.sets, ops'[q].arg)
    <2>1. CASE q = r
        <3>1. ops'[q] = o
            BY <1>2, <2>1
        <3>2. \A pack \in wanted' : Whole(policy.mem.sets, pack)
            BY DEF WantedInv
        <3>3. Through(o) => Whole(policy'.mem.sets, o.arg)
            BY DEF Whole
        <3>4. QED
            BY <3>1, <3>2, <3>3
    <2>2. CASE q # r
        <3>1. ops'[q] = ops[q]
            BY <1>2, <2>2
        <3>2. QED
            BY <3>1 DEF WantedInv
    <2>3. QED
        BY <2>1, <2>2
<1>4. wanted' \subseteq DOMAIN Preset /\ \A pack \in wanted' : Whole(policy'.mem.sets, pack)
    BY DEF WantedInv
<1>5. QED
    BY <1>3, <1>4, Zenon DEF WantedInv

\* A switch or an activation goes on.
LEMMA SweepWants ==
    ASSUME PackInv, WantedInv, NEW r \in PolicyRequest, ops[r].op \in Sweeps,
           NEW o, NEW p, NEW slip, Continue(r, o, p, slip), o.op \in Sweeps
    PROVE  WantedInv'
<1>1. o.op \notin PackOps \cup {"set", "undone", "apply", "on"}
    BY DEF Sweeps, PackOps
<1>2. ~Returning(o) /\ ~Through(o)
    BY <1>1 DEF Returning, Through
<1>3. "sets" \in Hands(ops[r]) /\ wanted = {}
    BY SetsInHand DEF WantedInv
<1>4. QED
    BY <1>1, <1>2, <1>3, WantedGoes

LEMMA SweepsWant ==
    ASSUME PackInv, WantedInv, NEW r \in PolicyRequest,
           Leave(r) \/ Load(r) \/ Plane(r) \/ Align(r) \/ Settle(r) \/ ClearSubs(r) \/ MarkProfile(r)
    PROVE  WantedInv'
<1>1. PICK step \in SweepSteps : At(r, step)
    BY DEF Leave, Load, Plane, Align, Settle, ClearSubs, MarkProfile, SweepSteps
<1>2. ops[r].op \in Sweeps /\ IsOp(ops[r])
    BY <1>1, AtWork, HeadsTell DEF At, SweepKind
<1>3. ASSUME NEW plan PROVE [ops[r] EXCEPT !.plan = plan].op = ops[r].op
    BY <1>2 DEF IsOp
<1>4. ASSUME NEW next, NEW prev, NEW list, NEW plan
      PROVE  [ops[r] EXCEPT !.next = next, !.prev = prev, !.list = list, !.plan = plan].op = ops[r].op
    BY <1>2 DEF IsOp
<1>5. ASSUME NEW next, NEW list, NEW plan
      PROVE  [ops[r] EXCEPT !.op = "back", !.next = next, !.list = list, !.plan = plan].op \in Sweeps
    BY <1>2 DEF IsOp, Sweeps
<1>6. Stop(r) => WantedInv'
    BY <1>2, <1>3, SweepWants DEF Stop
<1>7. ASSUME NEW p, Forth(r, ops[r], p) PROVE WantedInv'
    BY <1>2, <1>3, <1>7, SweepWants DEF Forth
<1>8. CASE Leave(r)
    BY <1>6, <1>7, <1>8 DEF Leave
<1>9. CASE Load(r)
    <2>1. \/ Stop(r)
          \/ \E next, prev, list :
                Forth(r, [ops[r] EXCEPT !.next = next, !.prev = prev, !.list = list], policy)
        BY <1>9, Zenon DEF Load
    <2>2. ASSUME NEW next, NEW prev, NEW list,
                 Forth(r, [ops[r] EXCEPT !.next = next, !.prev = prev, !.list = list], policy)
          PROVE  WantedInv'
        <3>1. PICK o : /\ o = [[ops[r] EXCEPT !.next = next, !.prev = prev, !.list = list]
                                  EXCEPT !.plan = Tail(@)]
                       /\ Continue(r, o, policy, {})
            BY <2>2 DEF Forth
        <3>2. o.op = ops[r].op
            BY <1>2, <3>1 DEF IsOp
        <3>3. QED
            BY <1>2, <3>1, <3>2, SweepWants
    <2>3. QED
        BY <1>6, <2>1, <2>2
<1>10. CASE Plane(r)
    BY <1>2, <1>5, <1>6, <1>7, <1>10, SweepWants DEF Plane
<1>11. CASE Align(r)
    <2>1. \E p : Forth(r, ops[r], p) \/ \E slip : Continue(r, [ops[r] EXCEPT !.plan = Tail(@)], p, slip)
        BY <1>11 DEF Align
    <2>2. QED
        BY <1>2, <1>3, <1>7, <2>1, SweepWants
<1>12. CASE Settle(r)
    BY <1>6, <1>12 DEF Settle
<1>13. CASE ClearSubs(r)
    BY <1>7, <1>13 DEF ClearSubs
<1>14. CASE MarkProfile(r)
    BY <1>6, <1>14 DEF MarkProfile
<1>15. QED
    BY <1>8, <1>9, <1>10, <1>11, <1>12, <1>13, <1>14

\* What a change does to the sets leaves the packs in force whole, and makes its
\* own whole when that is what it is for.
LEMMA PackHeads ==
    ASSUME NEW op \in {"apply", "on"}, NEW plan \in Tails(op), Head(plan) \in SetEditing
    PROVE  Head(plan) = "merge"
<1>1. CASE op = "apply"
    BY <1>1, PackPlans DEF PackPlan, PackOps, SetEditing
<1>2. CASE op = "on"
    <2>1. plan \in PackTails("enable", "merge", "passSets") \cup EditTails("enable")
        BY <1>2 DEF Tails, PackOps
    <2>2. Head(plan) \in {"enable", "merge", "passSets", "serveRules"}
        BY <2>1, TailsOf, SMT DEF PackTails, EditTails
    <2>3. QED
        BY <2>2 DEF SetEditing
<1>3. QED
    BY <1>1, <1>2

LEMMA ChangedSets ==
    ASSUME PackInv, WantedInv, NEW r \in PolicyRequest, ops[r].plan # <<>>,
           NEW step, step = Head(ops[r].plan), NEW q \in Outcomes(ops[r], step)
    PROVE  /\ PackKind(ops[r]) \/ EditKind(ops[r]) \/ FileKind(ops[r])
           /\ q.sets = policy.mem.sets \/ "sets" \in Hands(ops[r])
           /\ "sets" \notin loose =>
                /\ \A pack \in wanted : Whole(q.sets, pack)
                /\ ops[r].op \in {"apply", "on"} /\ ~Pending(Tail(ops[r].plan), SetEditing)
                      => Whole(q.sets, ops[r].arg)
<1>1. OpStation(ops[r]) /\ IsPolicy(policy.mem)
    BY AtWork DEF ArePolicies
<1>2. step \in Changes /\ \A s \in Stores \ {StoreOf(step)} : q[s] = policy.mem[s]
    BY <1>1, OutcomeOf
<1>3. PackKind(ops[r]) \/ EditKind(ops[r]) \/ FileKind(ops[r])
    BY <1>1, <1>2, HeadsTell
<1>4. CASE step \in RuleSteps
    <2>1. StoreOf(step) = "rules"
        BY <1>2, <1>3, <1>4, ChangesOwn
    <2>2. q.sets = policy.mem.sets
        BY <1>2, <2>1 DEF Stores
    <2>3. ASSUME ops[r].op \in {"apply", "on"}, ~Pending(Tail(ops[r].plan), SetEditing)
          PROVE  Through(ops[r])
        <3>1. PackKind(ops[r])
            BY <1>3, <2>3 DEF EditKind, FileKind, Editing
        <3>2. step \in RuleEditing
            BY <1>4, <3>1 DEF PackKind, PackPlan, RuleSteps, RuleEditing, SetEditing
        <3>3. QED
            BY <2>3, <3>1, <3>2 DEF PackKind, PackPlan, Through
    <2>4. QED
        BY <1>3, <2>2, <2>3 DEF WantedInv
<1>5. CASE step \in SetEditing
    <2>1. CASE PackKind(ops[r])
        <3>1. ops[r].op \in PackOps /\ ops[r].arg \in DOMAIN Preset \ wanted /\ step # "import"
            BY <1>5, <2>1 DEF PackKind, PackPlan, WantedInv, RuleEditing, SetEditing
        <3>2. \/ step = "merge" /\ q = Sets(Merged(policy.mem.sets, ops[r].arg))
              \/ step = "subtract" /\ q = Sets(Subtracted(policy.mem.sets, ops[r].arg))
              \/ step = "withdraw" /\ q = Sets(Withdrawn(policy.mem.sets, ops[r].arg))
            BY <1>5, <3>1 DEF Outcomes, SetEditing
        <3>3. \A s : Sets(s).sets = s
            BY <1>1 DEF Sets, IsPolicy
        <3>4. "sets" \in Hands(ops[r])
            BY <3>1, SetsInHand
        <3>5. \A pack \in wanted : Whole(q.sets, pack)
            <4>1. SUFFICES ASSUME NEW pack \in wanted PROVE Whole(q.sets, pack)
                OBVIOUS
            <4>2. pack \in DOMAIN Preset \ {ops[r].arg} /\ Whole(policy.mem.sets, pack)
                BY <3>1 DEF WantedInv
            <4>3. QED
                BY <3>1, <3>2, <3>3, <4>2, OthersStayWhole
        <3>6. ops[r].op \in {"apply", "on"} => Whole(q.sets, ops[r].arg)
            <4>1. ops[r].op \in {"apply", "on"} => step = "merge"
                BY <1>1, <1>5, PackHeads DEF OpStation
            <4>2. QED
                BY <3>1, <3>2, <3>3, <4>1, MergedIsWhole
        <3>7. QED
            BY <1>3, <3>4, <3>5, <3>6
    <2>2. CASE ~PackKind(ops[r])
        <3>1. EditKind(ops[r])
            BY <1>3, <1>5, <2>2 DEF FileKind, SetEditing
        <3>2. step = FirstOf(ops[r].op) /\ ops[r].op \in Editing
            BY <1>2, <3>1, ChangesOwn DEF EditKind
        <3>3. ops[r].op = "set"
            BY <1>5, <3>2 DEF FirstOf, Editing, SetEditing
        <3>4. wanted = {} /\ "sets" \in Hands(ops[r])
            BY <3>3, SetsInHand DEF WantedInv
        <3>5. QED
            BY <1>3, <3>3, <3>4
    <2>3. QED
        BY <2>1, <2>2
<1>6. QED
    BY <1>2, <1>4, <1>5 DEF Changes

LEMMA RecoveryReturns ==
    ASSUME NEW op, NEW step, Pending(Recovery(op, step), {"restoreSets"})
    PROVE  op \in PackOps \cup {"set"}
<1>1. ASSUME op \notin PackOps \cup {"set"} PROVE FALSE
    <2>1. Recovery(op, step) \in {<<"restoreRules">>, <<>>}
        BY <1>1 DEF Recovery, PackOps
    <2>2. ~Pending(<<"restoreRules">>, {"restoreSets"}) /\ ~Pending(<<>>, {"restoreSets"})
        BY SMT DEF Pending
    <2>3. QED
        BY <2>1, <2>2
<1>2. QED
    BY <1>1

LEMMA FailsWants ==
    ASSUME PackInv, WantedInv, NEW r \in PolicyRequest, NEW p, Fails(r, p),
           p.mem.sets = policy.mem.sets \/ "sets" \in Hands(ops[r]),
           "sets" \notin loose => \A pack \in wanted : Whole(p.mem.sets, pack)
    PROVE  WantedInv'
<1>1. PICK o, slip : /\ o = [ops[r] EXCEPT !.op = "undone", !.plan = Recovery(ops[r].op, Head(ops[r].plan))]
                     /\ Continue(r, o, p, slip)
    BY DEF Fails
<1>2. o.op = "undone" /\ o.plan = Recovery(ops[r].op, Head(ops[r].plan)) /\ o.prev = ops[r].prev
    BY <1>1, AtWork DEF IsOp
<1>3. Returning(o) => Returning(ops[r])
    BY <1>2, RecoveryReturns DEF Returning, PackOps
<1>4. ~Through(o) /\ o.op \notin PackOps \cup Sweeps \cup {"set"}
    BY <1>2 DEF Through, PackOps, Sweeps
<1>5. QED
    BY <1>1, <1>2, <1>3, <1>4, WantedGoes

LEMMA ChangeWants == ASSUME PackInv, WantedInv, NEW r \in PolicyRequest, Change(r) PROVE WantedInv'
<1>1. ops[r].plan # <<>> /\ IsOp(ops[r]) /\ ArePolicies(policy)
    BY AtWork DEF Change
<1>2. PICK step, store : /\ step = Head(ops[r].plan) /\ store = StoreOf(step)
        /\ \/ \E p \in Outcomes(ops[r], step) :
                \/ \E list : Continue(r, [ops[r] EXCEPT !.plan = Tail(@), !.list = list],
                                      Saves(p, store), Overwrites(step, p))
                \/ Fails(r, [policy EXCEPT !.mem = p])
           \/ step = "approve" /\ Continue(r, [ops[r] EXCEPT !.plan = <<>>], policy, {})
    BY Zenon DEF Change
<1>3. store \in Stores
    BY <1>2 DEF StoreOf, Stores
<1>4. ASSUME NEW p \in Outcomes(ops[r], step), NEW list,
             Continue(r, [ops[r] EXCEPT !.plan = Tail(@), !.list = list], Saves(p, store), Overwrites(step, p))
      PROVE  WantedInv'
    <2>1. PICK o : /\ o = [ops[r] EXCEPT !.plan = Tail(@), !.list = list]
                   /\ Continue(r, o, Saves(p, store), Overwrites(step, p))
        BY <1>4
    <2>2. o.op = ops[r].op /\ o.arg = ops[r].arg /\ o.prev = ops[r].prev /\ o.plan = Tail(ops[r].plan)
        BY <1>1, <2>1 DEF IsOp
    <2>3. IsPolicy(p)
        BY <1>1, OutcomeOf DEF ArePolicies
    <2>4. Saves(p, store).mem = p
        BY <1>1, <1>3, <2>3, SaveOne
    <2>5. /\ PackKind(ops[r]) \/ EditKind(ops[r]) \/ FileKind(ops[r])
          /\ p.sets = policy.mem.sets \/ "sets" \in Hands(ops[r])
          /\ "sets" \notin loose =>
                /\ \A pack \in wanted : Whole(p.sets, pack)
                /\ ops[r].op \in {"apply", "on"} /\ ~Pending(Tail(ops[r].plan), SetEditing)
                      => Whole(p.sets, ops[r].arg)
        BY <1>1, <1>2, ChangedSets
    <2>6. o.op # "undone"
        BY <2>2, <2>5 DEF PackKind, EditKind, FileKind, PackOps, Editing
    <2>7. Returning(o) => Returning(ops[r])
        BY <2>2, <2>6 DEF Returning
    <2>8. "sets" \notin loose =>
              /\ \A pack \in wanted : Whole(Saves(p, store).mem.sets, pack)
              /\ Through(o) => Whole(Saves(p, store).mem.sets, o.arg)
        BY <2>2, <2>4, <2>5 DEF Through
    <2>9. QED
        BY <2>1, <2>2, <2>4, <2>5, <2>7, <2>8, WantedGoes
<1>5. ASSUME NEW p \in Outcomes(ops[r], step), Fails(r, [policy EXCEPT !.mem = p])
      PROVE  WantedInv'
    <2>1. [policy EXCEPT !.mem = p].mem = p
        BY <1>1 DEF ArePolicies
    <2>2. /\ p.sets = policy.mem.sets \/ "sets" \in Hands(ops[r])
          /\ "sets" \notin loose => \A pack \in wanted : Whole(p.sets, pack)
        BY <1>1, <1>2, ChangedSets
    <2>3. QED
        BY <1>5, <2>1, <2>2, FailsWants
<1>6. ASSUME step = "approve", Continue(r, [ops[r] EXCEPT !.plan = <<>>], policy, {})
      PROVE  WantedInv'
    <2>1. PICK o : o = [ops[r] EXCEPT !.plan = <<>>] /\ Continue(r, o, policy, {})
        BY <1>6
    <2>2. o.op = ops[r].op
        BY <1>1, <2>1 DEF IsOp
    <2>3. PackKind(ops[r]) \/ EditKind(ops[r]) \/ FileKind(ops[r])
        BY <1>1, <1>2, <1>6, AtWork, HeadsTell DEF Changes, RuleSteps
    <2>4. ~PackKind(ops[r]) /\ ~FileKind(ops[r])
        BY <1>2, <1>6 DEF PackKind, PackPlan, FileKind, RuleEditing, SetEditing
    <2>5. ops[r].op = "approve"
        BY <1>2, <1>6, <2>3, <2>4 DEF EditKind, EditPlan, Editing, FirstOf, LastOf
    <2>6. ~Returning(o) /\ ~Through(o) /\ o.op \notin PackOps \cup Sweeps \cup {"set"}
        BY <2>2, <2>5 DEF Returning, Through, PackOps, Sweeps
    <2>7. "sets" \notin loose => \A pack \in wanted : Whole(policy.mem.sets, pack)
        BY DEF WantedInv
    <2>8. QED
        BY <2>1, <2>6, <2>7, WantedGoes
<1>7. QED
    BY <1>2, <1>4, <1>5, <1>6

\* A rollback goes on.
LEMMA UndoneGoesOn ==
    ASSUME NEW plan \in UndoneTails
    PROVE  /\ Pending(Tail(plan), {"restoreSets"}) => Pending(plan, {"restoreSets"})
           /\ Head(plan) = "restoreSets" => Pending(plan, {"restoreSets"})
BY SMT DEF UndoneTails, Pending

LEMMA ServeWants == ASSUME PackInv, WantedInv, NEW r \in PolicyRequest, Serve(r) PROVE WantedInv'
<1>1. /\ ops[r].plan # <<>> /\ Head(ops[r].plan) \in Serving
      /\ OpStation(ops[r]) /\ IsOp(ops[r]) /\ ArePolicies(policy)
    BY AtWork DEF Serve
<1>2. PICK held : \/ Continue(r, [ops[r] EXCEPT !.plan = Tail(@)], [policy EXCEPT !.held = held], {})
                  \/ Fails(r, policy)
    BY Zenon DEF Serve
<1>3. "sets" \notin loose => \A pack \in wanted : Whole(policy.mem.sets, pack)
    BY DEF WantedInv
<1>4. CASE Fails(r, policy)
    BY <1>3, <1>4, FailsWants
<1>5. CASE Continue(r, [ops[r] EXCEPT !.plan = Tail(@)], [policy EXCEPT !.held = held], {})
    <2>1. PICK o, p : /\ o = [ops[r] EXCEPT !.plan = Tail(@)] /\ p = [policy EXCEPT !.held = held]
                      /\ Continue(r, o, p, {})
        BY <1>5
    <2>2. /\ o.op = ops[r].op /\ o.arg = ops[r].arg /\ o.prev = ops[r].prev /\ o.plan = Tail(ops[r].plan)
          /\ p.mem = policy.mem
        BY <1>1, <2>1 DEF IsOp, ArePolicies
    <2>3. Returning(o) => Returning(ops[r])
        <3>1. ops[r].op = "undone" => ops[r].plan \in UndoneTails
            BY <1>1 DEF OpStation, Tails, PackOps
        <3>2. QED
            BY <2>2, <3>1, UndoneGoesOn DEF Returning
    <2>4. Through(o) => Through(ops[r])
        <3>1. SUFFICES ASSUME o.op \in {"apply", "on"} PROVE ~Pending(ops[r].plan, SetEditing)
            BY <2>2 DEF Through
        <3>2. PackKind(ops[r])
            BY <1>1, <2>2, <3>1, HeadsTell DEF EditKind, UndoneKind, Editing
        <3>3. Head(ops[r].plan) \in {"passSets", "serveRules"}
            BY <1>1, <3>2 DEF PackKind, PackPlan, Serving, RuleEditing, SetEditing
        <3>4. QED
            BY <3>2, <3>3 DEF PackKind, PackPlan
    <2>5. "sets" \notin loose =>
            (\A pack \in wanted : Whole(p.mem.sets, pack)) /\ (Through(o) => Whole(p.mem.sets, o.arg))
        BY <1>3, <2>2, <2>4 DEF WantedInv
    <2>6. QED
        BY <2>1, <2>2, <2>3, <2>5, WantedGoes
<1>6. QED
    BY <1>2, <1>4, <1>5

LEMMA RestoreWants == ASSUME PackInv, WantedInv, NEW r \in PolicyRequest, Restore(r) PROVE WantedInv'
<1>1. /\ ops[r].plan # <<>> /\ Head(ops[r].plan) \in {"restoreRules", "restoreSets"}
      /\ OpStation(ops[r]) /\ IsOp(ops[r]) /\ ArePolicies(policy)
    BY AtWork DEF Restore
<1>2. PICK store, x : /\ store = StoreOf(Head(ops[r].plan))
                      /\ x = [policy.mem EXCEPT ![store] = ops[r].prev[store]]
                      /\ \/ Continue(r, [ops[r] EXCEPT !.plan = Tail(@)], Saves(x, store), {})
                         \/ Continue(r, [ops[r] EXCEPT !.plan = Tail(@)], [policy EXCEPT !.mem = x], {store})
    BY Zenon DEF Restore
<1>3. PICK o, p, slip : /\ o = [ops[r] EXCEPT !.plan = Tail(@)] /\ Continue(r, o, p, slip)
                        /\ p = Saves(x, store) \/ p = [policy EXCEPT !.mem = x]
    BY <1>2
<1>4. ops[r].op = "undone" /\ ops[r].plan \in UndoneTails
    BY <1>1, HeadsTell DEF UndoneKind, OpStation, Tails, PackOps
<1>5. o.op = "undone" /\ o.prev = ops[r].prev /\ o.plan = Tail(ops[r].plan)
    BY <1>1, <1>3, <1>4 DEF IsOp
<1>6. store = (IF Head(ops[r].plan) = "restoreSets" THEN "sets" ELSE "rules") /\ store \in Stores
    BY <1>1, <1>2 DEF StoreOf, SetSteps, Stores
<1>7. IsPolicy(x) /\ x.sets = IF store = "sets" THEN ops[r].prev.sets ELSE policy.mem.sets
    BY <1>1, <1>2, <1>6 DEF ArePolicies, IsPolicy
<1>8. p.mem = x
    BY <1>1, <1>3, <1>6, <1>7, SaveOne
<1>9. Returning(o) => Returning(ops[r])
    BY <1>4, <1>5, UndoneGoesOn DEF Returning, PackOps
<1>10. store = "sets" => Returning(ops[r])
    BY <1>4, <1>6, UndoneGoesOn DEF Returning
<1>11. p.mem.sets = policy.mem.sets \/ "sets" \in Hands(ops[r])
    BY <1>7, <1>8, <1>10, SetsInHand
<1>12. \A pack \in wanted : Whole(p.mem.sets, pack)
    BY <1>7, <1>8, <1>10 DEF WantedInv
<1>13. ~Through(o) /\ o.op \notin PackOps \cup Sweeps \cup {"set"}
    BY <1>5 DEF Through, PackOps, Sweeps
<1>14. QED
    BY <1>3, <1>5, <1>9, <1>11, <1>12, <1>13, WantedGoes

LEMMA BeginWants ==
    ASSUME PackInv, WantedInv, NEW r \in PolicyRequest, BeginPolicy(r) \/ BeginSwitch(r) \/ BeginActivate(r)
    PROVE  WantedInv'
<1>1. ASSUME NEW op \in Editing \cup {"request", "switch"} \cup PackOps, NEW arg, NEW plan,
             Begin(r, op, arg, plan), wanted' \subseteq wanted, "sets" \in loose' => wanted' = {},
             op \in {"switch", "set"} => wanted' = {},
             op \in PackOps => arg \in DOMAIN Preset \ wanted',
             op \in {"apply", "on"} /\ ~Pending(plan, SetEditing) => DOMAIN Preset[arg].sets = {}
      PROVE  WantedInv'
    <2>1. PICK o : /\ o = [Resting EXCEPT !.op = op, !.arg = arg, !.plan = plan,
                                          !.prev = [s \in Kept(op) |-> policy.mem[s]]]
                   /\ ops' = [ops EXCEPT ![r] = o]
        BY <1>1 DEF Begin
    <2>2. o.op = op /\ o.arg = arg /\ o.plan = plan /\ o.prev = [s \in Kept(op) |-> policy.mem[s]]
        BY <2>1 DEF Resting
    <2>3. policy' = policy /\ loose \subseteq loose'
        BY <1>1 DEF Begin
    <2>4. op # "undone" /\ (op \in Sweeps => op = "switch")
        BY DEF Editing, PackOps, Sweeps
    <2>5. op \in PackOps => "sets" \in Kept(op)
        BY PacksAssumption DEF Kept, Touches, PackOps, PacksAssumption
    <2>6. Returning(o) => o.prev.sets = policy.mem.sets \/ wanted' = {}
        BY <1>1, <2>2, <2>4, <2>5 DEF Returning
    <2>7. Through(o) => DOMAIN Preset[o.arg].sets = {}
        BY <1>1, <2>2 DEF Through
    <2>8. QED
        BY <1>1, <2>1, <2>2, <2>3, <2>4, <2>6, <2>7, WantedOpens
<1>2. ASSUME NEW op \in {"rule", "set", "request"}, BeginEdit(r, op) PROVE WantedInv'
    <2>1. /\ Begin(r, op, Nil, Plan(op, Nil))
          /\ wanted' = IF op = "set" \/ "sets" \in loose' THEN {} ELSE wanted
        BY <1>2 DEF BeginEdit
    <2>2. op \notin PackOps \cup {"apply", "on", "switch"} /\ op \in Editing \cup {"request"}
        BY DEF PackOps, Editing
    <2>3. QED
        BY <1>1, <2>1, <2>2
<1>3. ASSUME NEW op \in {"approve", "deny"}, BeginJudgement(r, op) PROVE WantedInv'
    <2>1. PICK id : Begin(r, op, id, Plan(op, Nil)) /\ wanted' = wanted
        BY <1>3 DEF BeginJudgement
    <2>2. op \notin PackOps \cup {"apply", "on", "switch", "set"} /\ op \in Editing
        BY DEF PackOps, Editing
    <2>3. Touches(op) = {"rules"}
        BY PacksAssumption DEF Touches, PacksAssumption
    <2>4. "sets" \in loose' => wanted' = {}
        BY <2>1, <2>3 DEF Begin, WantedInv
    <2>5. QED
        BY <1>1, <2>1, <2>2, <2>4
<1>4. ASSUME NEW op \in PackOps, BeginPack(r, op) PROVE WantedInv'
    <2>1. PICK pack \in DOMAIN Preset : /\ Begin(r, op, pack, Plan(op, pack))
                                        /\ wanted' = IF "sets" \in loose' THEN {} ELSE wanted \ {pack}
        BY <1>4 DEF BeginPack
    <2>2. op \notin {"switch", "set"}
        BY DEF PackOps
    <2>3. ASSUME op \in {"apply", "on"}, HasSets(pack) PROVE Pending(Plan(op, pack), SetEditing)
        <3>1. Plan(op, pack) = IF op = "apply" THEN <<"merge", "replace", "passSets", "serveRules">>
                               ELSE <<"enable", "merge", "passSets", "serveRules">>
            BY <2>3 DEF Plan
        <3>2. "merge" \in SetEditing
            BY DEF SetEditing
        <3>3. Pending(<<"merge", "replace", "passSets", "serveRules">>, SetEditing)
              /\ Pending(<<"enable", "merge", "passSets", "serveRules">>, SetEditing)
            BY <3>2, PendingIn
        <3>4. QED
            BY <3>1, <3>3
    <2>4. op \in {"apply", "on"} /\ ~Pending(Plan(op, pack), SetEditing) => DOMAIN Preset[pack].sets = {}
        BY <2>3 DEF HasSets
    <2>5. wanted' \subseteq wanted /\ ("sets" \in loose' => wanted' = {}) /\ pack \in DOMAIN Preset \ wanted'
        BY <2>1
    <2>6. QED
        BY <1>1, <2>1, <2>2, <2>4, <2>5
<1>5. CASE BeginPolicy(r)
    BY <1>2, <1>3, <1>4, <1>5 DEF BeginPolicy
<1>6. CASE BeginSwitch(r)
    <2>1. PICK arg : Begin(r, "switch", arg, SwitchPlan) /\ wanted' = {}
        BY <1>6 DEF BeginSwitch
    <2>2. "switch" \notin PackOps \cup {"apply", "on"}
        BY DEF PackOps
    <2>3. QED
        BY <1>1, <2>1, <2>2
<1>7. CASE BeginActivate(r)
    <2>1. PICK name, arg, list :
            LET o == [Resting EXCEPT !.op = "activate", !.arg = arg, !.plan = ProfilePlan,
                                     !.next = Content(profiles[name]), !.list = list]
            IN  ops' = [ops EXCEPT ![r] = o]
        BY <1>7, Zenon DEF BeginActivate
    <2>2. PICK o : /\ o = [Resting EXCEPT !.op = "activate", !.arg = arg, !.plan = ProfilePlan,
                                          !.next = Content(profiles[name]), !.list = list]
                   /\ ops' = [ops EXCEPT ![r] = o]
        BY <2>1
    <2>3. o.op = "activate"
        BY <2>2 DEF Resting
    <2>4. ~Through(o) /\ o.op \notin PackOps
        BY <2>3 DEF Through, PackOps
    <2>5. wanted' = {} /\ policy' = policy
        BY <1>7 DEF BeginActivate
    <2>6. loose \subseteq loose' \/ loose' = {"rules", "sets"}
        BY <1>7 DEF BeginActivate
    <2>7. ASSUME NEW q \in PolicyRequest PROVE ops'[q] = IF q = r THEN o ELSE ops[q]
        BY <2>2 DEF PackInv, OpTypes
    <2>8. "sets" \in loose => "sets" \in loose'
        BY <2>6
    <2>9. \A q \in PolicyRequest : /\ ops'[q].op \in PackOps => ops'[q].arg \in DOMAIN Preset
                                   /\ Through(ops'[q]) => ops'[q] = ops[q]
        BY <2>4, <2>7 DEF WantedInv
    <2>10. QED
        BY <2>5, <2>8, <2>9 DEF WantedInv
<1>8. QED
    BY <1>5, <1>6, <1>7

\* The files hold what is in force.
LEMMA ReloadWants == ASSUME PackInv, WantedInv, Reload PROVE WantedInv'
<1>1. \A r \in PolicyRequest : ops'[r] = Resting
    BY DEF Reload
<1>2. policy'.mem = policy.file /\ loose' = {}
    BY AtWork DEF Reload, PackInv, OpTypes, ArePolicies
<1>3. ASSUME NEW pack \in wanted' PROVE pack \in wanted /\ Whole(policy.file.sets, pack)
    <2>1. loose = {} /\ Quiet /\ wanted' = wanted
        BY <1>3 DEF Reload
    <2>2. Whole(policy.mem.sets, pack)
        BY <2>1 DEF WantedInv
    <2>3. Agree(policy, "sets")
        <3>1. \A r \in PolicyRequest : "sets" \notin Hands(ops[r])
            BY <2>1, AtRest DEF Quiet
        <3>2. QED
            BY <2>1, <3>1 DEF PackInv, StoreCourse, Stores
    <2>4. InForce(policy.mem, "sets") = InForce(policy.file, "sets")
        BY <2>3 DEF Agree
    <2>5. ASSUME NEW tag \in DOMAIN Preset[pack].sets
          PROVE  /\ tag \in DOMAIN policy.file.sets /\ policy.file.sets[tag].on
                 /\ Preset[pack].sets[tag] \subseteq policy.file.sets[tag].role
        <3>1. /\ tag \in DOMAIN policy.mem.sets /\ policy.mem.sets[tag].on
              /\ Preset[pack].sets[tag] \subseteq policy.mem.sets[tag].role
            BY <2>2 DEF Whole
        <3>2. <<tag, policy.mem.sets[tag].role>> \in InForce(policy.mem, "sets")
            BY <3>1 DEF InForce
        <3>3. PICK t \in DOMAIN policy.file.sets :
                /\ policy.file.sets[t].on
                /\ <<tag, policy.mem.sets[tag].role>> = <<t, policy.file.sets[t].role>>
            BY <2>4, <3>2 DEF InForce
        <3>4. QED
            BY <3>1, <3>3
    <2>6. QED
        BY <2>1, <2>5 DEF Whole
<1>4. wanted' \subseteq DOMAIN Preset
    BY <1>3 DEF WantedInv
<1>5. \A pack \in wanted' : Whole(policy'.mem.sets, pack)
    BY <1>2, <1>3
<1>6. QED
    BY <1>1, <1>2, <1>4, <1>5, RestRemembersNothing, Zenon DEF WantedInv

LEMMA WantedStay == ASSUME WantedInv, UNCHANGED packVars PROVE WantedInv'
BY DEF WantedInv, packVars

LEMMA WantedStep == ASSUME PackInv, WantedInv, [SettingsNext]_allVars PROVE WantedInv'
<1>1. CASE UNCHANGED allVars
    BY <1>1, WantedStay DEF allVars
<1>2. ASSUME NEW r \in PolicyRequest, PolicyStep(r)
      PROVE  WantedInv'
    BY <1>2, BeginWants, ChangeWants, ServeWants, RestoreWants, SweepsWant DEF PolicyStep, PackStep
<1>3. CASE AddProfile \/ DeleteProfile
    BY <1>3, WantedStay DEF AddProfile, DeleteProfile
<1>4. CASE UNCHANGED <<packVars, posture, profiles, farewell>>
    BY <1>4, WantedStay
<1>5. CASE Boot
    BY <1>5, ReloadWants DEF Boot
<1>6. QED
    BY <1>1, <1>2, <1>3, <1>4, <1>5 DEF SettingsNext

LEMMA WantedStart == SettingsInit => WantedInv
<1>1. SUFFICES ASSUME SettingsInit PROVE WantedInv
    OBVIOUS
<1>2. ops = [r \in PolicyRequest |-> Resting] /\ loose = {} /\ wanted = {}
    BY <1>1 DEF SettingsInit, PackInit
<1>3. QED
    BY <1>2, RestRemembersNothing DEF WantedInv

\* Packs that share rule sets do not take each other's axes away.
THEOREM SettingsPacksKeepTheirSets == SettingsSpec => []PacksKeepTheirSets
<1>1. WantedInv => PacksKeepTheirSets
    BY DEF WantedInv, Whole, PacksKeepTheirSets
<1>2. PackInv /\ WantedInv /\ [SettingsNext]_allVars => WantedInv'
    BY WantedStep
<1>3. QED
    BY <1>1, <1>2, WantedStart, PackInvHolds, PTL DEF SettingsSpec
-----------------------------------------------------------------------------
(***************************************************************************)
(* A switch brings back what the posture was left with                     *)
(***************************************************************************)
\* SwitchesRestore is about the posture p, which has been left.
Owes(p) == farewell[p] # Nil /\ (p = "strict" \/ farewell[p].seeded)

\* The slot of p holds the policy p was left with.
Stowed(p) ==
    Owes(p) => /\ Alike(posture.mem.slots[p], farewell[p])
               /\ p = "split" => posture.mem.slots[p].seeded

\* How far a switch has come.
SwitchCourse(r) ==
    LET from == ops[r].arg.from
        to == ops[r].arg.to
        step == Head(ops[r].plan)
    IN
    /\ from \in Names /\ to \in Names
    /\ posture.mem.active = from
    /\ posture.held = IF step \in {"leave", "load", "plane"} THEN from ELSE to
    /\ step \in {"load", "plane"} => Stowed(from)
    /\ farewell[to] # Nil =>
        /\ Alone(r)
        /\ step \notin {"leave", "load"} /\ Owes(to) => Alike(ops[r].next, farewell[to])
        /\ step \in {"alignRules", "settle"} => policy.mem.sets = ops[r].next.sets
        /\ step = "settle" => policy.mem.rules = ops[r].next.rules

IsSlot(s) == s = Slot(s, s.seeded)
AreSlots(state) ==
    /\ state = [active |-> state.active, slots |-> state.slots]
    /\ DOMAIN state.slots = Names /\ \A p \in Names : IsSlot(state.slots[p])
SlotTypes ==
    /\ posture = [mem |-> posture.mem, file |-> posture.file, held |-> posture.held]
    /\ AreSlots(posture.mem) /\ AreSlots(posture.file)
    /\ posture.file.active \in Names /\ posture.held \in Names /\ DOMAIN farewell = Names

SwitchInv ==
    /\ SlotTypes
    /\ \A p \in Names \ {posture.held} : Stowed(p)
    /\ \A r \in PolicyRequest :
        /\ ops[r].op = "switch" => SwitchCourse(r)
        /\ ops[r].op = "back" => posture.held = ops[r].arg.from
    /\ (\A r \in PolicyRequest : ops[r].op # "switch") => posture.mem.active = posture.held

-----------------------------------------------------------------------------
(***************************************************************************)
(* Slots                                                                   *)
(***************************************************************************)
LEMMA AlikeOver ==
    ASSUME NEW a, NEW b, NEW c, Alike(a, b), Alike(b, c)
    PROVE  Alike(a, c)
BY Zenon DEF Alike

LEMMA SlotIs ==
    ASSUME NEW p, NEW seeded
    PROVE  /\ IsSlot(Slot(p, seeded)) /\ Alike(Slot(p, seeded), p) /\ Alike(p, Slot(p, seeded))
           /\ Slot(p, seeded).rules = p.rules /\ Slot(p, seeded).sets = p.sets
           /\ Slot(p, seeded).seeded = seeded
BY DEF IsSlot, Slot, Alike

\* Sets that could not be fetched are off, and nothing else changes.
LEMMA ResolvedIs ==
    ASSUME NEW slot, IsSlot(slot), NEW lost
    PROVE  /\ IsSlot(Resolved(slot, lost)) /\ Alike(Resolved(slot, lost), slot)
           /\ Resolved(slot, lost).seeded = slot.seeded
<1>1. PICK sets : /\ sets = [t \in DOMAIN slot.sets |->
                                [role |-> slot.sets[t].role, on |-> slot.sets[t].on /\ t \notin lost]]
                  /\ Resolved(slot, lost) = [slot EXCEPT !.sets = sets]
    BY DEF Resolved
<1>2. Resolved(slot, lost) = [rules |-> slot.rules, sets |-> sets, seeded |-> slot.seeded]
    BY <1>1 DEF IsSlot, Slot
<1>3. IsSlot(Resolved(slot, lost)) /\ Resolved(slot, lost).seeded = slot.seeded
    BY <1>2 DEF IsSlot, Slot
<1>4. \A t \in DOMAIN sets : /\ sets[t].role = slot.sets[t].role
                             /\ sets[t].on => slot.sets[t].on
    BY <1>1
<1>5. DOMAIN sets = DOMAIN slot.sets
    BY <1>1
<1>6. Alike(Resolved(slot, lost), slot)
    BY <1>2, <1>4, <1>5 DEF Alike
<1>7. QED
    BY <1>3, <1>6

LEMMA WithSlotIs ==
    ASSUME SlotTypes, NEW p \in Names, NEW slot, IsSlot(slot), NEW state, state = WithSlot(p, slot)
    PROVE  /\ AreSlots(state) /\ state.active = posture.mem.active /\ state.slots[p] = slot
           /\ \A q \in Names \ {p} : state.slots[q] = posture.mem.slots[q]
<1>1. AreSlots(posture.mem)
    BY DEF SlotTypes
<1>2. PICK slots : slots = [posture.mem.slots EXCEPT ![p] = slot]
    OBVIOUS
<1>3. state = [active |-> posture.mem.active, slots |-> slots]
    BY <1>1, <1>2 DEF WithSlot, AreSlots
<1>4. QED
    BY <1>1, <1>2, <1>3 DEF AreSlots

LEMMA StoredIs ==
    ASSUME SlotTypes, NEW state, AreSlots(state), NEW x, x = Stored(state) \/ x = Unstored(state)
    PROVE  /\ x = [mem |-> x.mem, file |-> x.file, held |-> x.held]
           /\ x.mem = state /\ x.held = posture.held /\ x.file \in {state, posture.file}
<1>1. CASE x = Stored(state)
    BY <1>1 DEF Stored, SlotTypes
<1>2. CASE x = Unstored(state)
    BY <1>2 DEF Unstored, SlotTypes
<1>3. QED
    BY <1>1, <1>2

-----------------------------------------------------------------------------
(***************************************************************************)
(* Steps beside a switch, and steps of a switch                            *)
(***************************************************************************)
\* The request q takes a step, and no other one.
Moves(q) == \A r \in PolicyRequest \ {q} : ops'[r] = ops[r]

LEMMA SwitchStays ==
    ASSUME SwitchInv, NEW q \in PolicyRequest, Moves(q), posture' = posture,
           ops[q].op # "switch", ops'[q].op # "switch",
           ops'[q].op = "back" => posture.held = ops'[q].arg.from,
           \/ farewell' = Strangers
           \/ /\ farewell' = farewell
              /\ ops[q] # Resting \/ \A r \in PolicyRequest : ops[r].op # "switch"
    PROVE  SwitchInv'
<1>1. Strangers = [p \in Names |-> Nil]
    BY DEF Strangers
<1>2. SlotTypes'
    BY <1>1 DEF SwitchInv, SlotTypes, AreSlots, IsSlot
<1>3. ASSUME NEW p \in Names, Stowed(p) PROVE Stowed(p)'
    BY <1>1, <1>3 DEF Stowed, Owes
<1>4. ASSUME NEW r \in PolicyRequest, ops'[r].op = "switch" PROVE SwitchCourse(r)'
    <2>1. r # q /\ ops'[r] = ops[r] /\ SwitchCourse(r)
        BY <1>4 DEF Moves, SwitchInv
    <2>2. PICK from, to, step :
                /\ from = ops[r].arg.from /\ to = ops[r].arg.to /\ step = Head(ops[r].plan)
                /\ from \in Names /\ to \in Names
                /\ posture.mem.active = from
                /\ posture.held = IF step \in {"leave", "load", "plane"} THEN from ELSE to
                /\ step \in {"load", "plane"} => Stowed(from)
        BY <2>1 DEF SwitchCourse
    <2>3. step \in {"load", "plane"} => Stowed(from)'
        BY <1>3, <2>2
    <2>4. farewell'[to] = Nil
        <3>1. CASE farewell' = Strangers
            BY <1>1, <2>2, <3>1
        <3>2. CASE farewell' = farewell
            <4>1. ops[q] # Resting \/ farewell' = Strangers
                BY <1>4, <2>1
            <4>2. farewell' # Strangers => ~Alone(r)
                BY <2>1, <4>1 DEF Alone
            <4>3. QED
                BY <1>1, <2>1, <2>2, <3>2, <4>2 DEF SwitchCourse
        <3>3. QED
            BY <3>1, <3>2
    <2>5. QED
        BY <2>1, <2>2, <2>3, <2>4 DEF SwitchCourse
<1>5. ASSUME NEW r \in PolicyRequest, ops'[r].op = "back" PROVE posture'.held = ops'[r].arg.from
    BY <1>5 DEF SwitchInv, Moves
<1>6. ASSUME \A r \in PolicyRequest : ops'[r].op # "switch" PROVE posture'.mem.active = posture'.held
    <2>1. \A r \in PolicyRequest : ops[r].op # "switch"
        BY <1>6 DEF Moves
    <2>2. QED
        BY <2>1 DEF SwitchInv
<1>7. \A p \in Names \ {posture.held} : Stowed(p)'
    BY <1>3 DEF SwitchInv
<1>8. QED
    BY <1>2, <1>4, <1>5, <1>6, <1>7 DEF SwitchInv

LEMMA SwitchGoes ==
    ASSUME PackInv, NEW r \in PolicyRequest, Moves(r), ops[r].op \in Sweeps \/ Sweeping = {},
           SlotTypes', \A p \in Names \ {posture'.held} : Stowed(p)',
           ops'[r].op = "switch" => SwitchCourse(r)',
           ops'[r].op = "back" => posture'.held = ops'[r].arg.from,
           ops'[r].op # "switch" => posture'.mem.active = posture'.held
    PROVE  SwitchInv'
<1>1. \A q \in PolicyRequest \ {r} : ops[q].op \notin Sweeps
    BY DEF PackInv, OpTypes, Sweeping
<1>2. \A q \in PolicyRequest \ {r} : ops'[q].op \notin {"switch", "back"}
    BY <1>1 DEF Moves, Sweeps
<1>3. QED
    BY <1>2 DEF SwitchInv

\* Where a switch is, and what it goes on with.
LEMMA SwitchNow ==
    ASSUME PackInv, SwitchInv, NEW r \in PolicyRequest, ops[r].op = "switch"
    PROVE  /\ ops[r].plan # <<>> /\ ops[r].op \in Sweeps /\ IsOp(ops[r]) /\ SwitchCourse(r)
           /\ ops[r].arg.from \in Names /\ ops[r].arg.to \in Names
           /\ posture.mem.active = ops[r].arg.from
           /\ \A p \in Names \ {posture.held} : Stowed(p)
<1>1. OpStation(ops[r]) /\ ops[r].op \in Sweeps
    BY AtWork DEF Sweeps
<1>2. ops[r].plan \in Tails("switch") /\ IsOp(ops[r])
    BY <1>1 DEF OpStation
<1>3. ops[r].plan # <<>>
    BY <1>1, <1>2, SweepPlans DEF SweepPlan
<1>4. QED
    BY <1>1, <1>2, <1>3, Zenon DEF SwitchInv, SwitchCourse

\* The step that follows each of the steps of a switch.
Following ==
    [leave |-> "load", load |-> "plane", plane |-> "alignSets", alignSets |-> "alignRules",
     alignRules |-> "settle"]
LEMMA SwitchNext ==
    ASSUME NEW plan \in Tails("switch"), Head(plan) # "settle"
    PROVE  /\ Head(plan) \in DOMAIN Following
           /\ Tail(plan) # <<>> /\ Head(Tail(plan)) = Following[Head(plan)]
<1>1. "switch" \in Sweeps
    BY DEF Sweeps
<1>2. SweepPlan("switch", plan) /\ AlignPlan("switch", plan)
    BY <1>1, SweepPlans, AlignPlans
<1>3. Head(plan) \in {"leave", "load", "plane", "alignSets", "alignRules"}
    BY <1>2 DEF SweepPlan
<1>4. Tail(plan) # <<>>
    BY <1>2, <1>3 DEF SweepPlan, AlignPlan, Aligning
<1>5. SweepPlan("switch", Tail(plan))
    BY <1>1, <1>2, <1>4, SweepPlans DEF SweepPlan
<1>6. QED
    BY <1>2, <1>3, <1>4, <1>5 DEF SweepPlan, Following

\* How a request goes on.
LEMMA Going ==
    ASSUME PackInv, NEW r \in PolicyRequest, NEW o, NEW p, NEW slip, Continue(r, o, p, slip)
    PROVE  Moves(r) /\ policy' = p /\ ops'[r] = (IF o.plan = <<>> THEN Resting ELSE o)
BY DEF PackInv, OpTypes, Continue, Moves

LEMMA GoingOn ==
    ASSUME PackInv, NEW r \in PolicyRequest, NEW b, IsOp(b), NEW p, Forth(r, b, p)
    PROVE  /\ Moves(r) /\ policy' = p
           /\ Tail(b.plan) = <<>> => ops'[r] = Resting
           /\ Tail(b.plan) # <<>> => /\ ops'[r].op = b.op /\ ops'[r].arg = b.arg
                                     /\ ops'[r].plan = Tail(b.plan) /\ ops'[r].next = b.next
<1>1. PICK o : o = [b EXCEPT !.plan = Tail(@)] /\ Continue(r, o, p, {})
    BY DEF Forth
<1>2. o.op = b.op /\ o.arg = b.arg /\ o.plan = Tail(b.plan) /\ o.next = b.next
    BY <1>1 DEF IsOp
<1>3. QED
    BY <1>1, <1>2, Going

LEMMA Stopping ==
    ASSUME PackInv, NEW r \in PolicyRequest, Stop(r)
    PROVE  Moves(r) /\ policy' = policy /\ ops'[r] = Resting
<1>1. PICK o : o = [ops[r] EXCEPT !.plan = <<>>] /\ Continue(r, o, policy, {})
    BY DEF Stop
<1>2. o.plan = <<>>
    BY <1>1, AtWork DEF IsOp
<1>3. QED
    BY <1>1, <1>2, Going

LEMMA RestIsNoSwitch == Resting.op \notin Sweeps /\ Resting.op # "switch" /\ Resting.op # "back"
BY AtRest DEF Sweeps

-----------------------------------------------------------------------------
(***************************************************************************)
(* The steps of a switch                                                   *)
(***************************************************************************)
LEMMA LeaveRestores == ASSUME PackInv, SwitchInv, NEW r \in PolicyRequest, Leave(r) PROVE SwitchInv'
<1>1. At(r, "leave") /\ ops[r].op = "switch"
    BY SweepAt DEF Leave, SweepKind, SweepPlan, SweepSteps
<1>2. PICK from, to : /\ from = ops[r].arg.from /\ to = ops[r].arg.to /\ from \in Names /\ to \in Names
                      /\ posture.mem.active = from /\ posture.held = from
                      /\ farewell[to] # Nil => Alone(r)
    BY <1>1, SwitchNow DEF SwitchCourse, At
<1>3. PICK left, state : left = Leaving(r) /\ state = WithSlot(from, left) /\ state = LeftSlots(r)
    BY <1>2 DEF LeftSlots
<1>4. SlotTypes
    BY DEF SwitchInv
<1>5. IsSlot(left)
    BY <1>3, SlotIs DEF Leaving
<1>6. /\ AreSlots(state) /\ state.active = from /\ state.slots[from] = left
      /\ \A q \in Names \ {from} : state.slots[q] = posture.mem.slots[q]
    <2>1. from \in Names /\ state = WithSlot(from, left)
        BY <1>2, <1>3
    <2>2. /\ AreSlots(state) /\ state.active = posture.mem.active /\ state.slots[from] = left
          /\ \A q \in Names \ {from} : state.slots[q] = posture.mem.slots[q]
        BY <1>4, <1>5, <2>1, WithSlotIs
    <2>3. QED
        BY <1>2, <2>2
<1>7. posture' = Stored(state) \/ posture' = Unstored(state)
    BY <1>3 DEF Leave
<1>8. /\ posture' = [mem |-> posture'.mem, file |-> posture'.file, held |-> posture'.held]
      /\ posture'.mem = state /\ posture'.held = from /\ posture'.file \in {state, posture.file}
    BY <1>2, <1>4, <1>6, <1>7, StoredIs
<1>9. farewell' = farewell \/ farewell' = [farewell EXCEPT ![from] = IF Alone(r) THEN left ELSE Nil]
    BY <1>2, <1>3 DEF Leave
<1>10. DOMAIN farewell' = Names /\ \A p \in Names \ {from} : farewell'[p] = farewell[p]
    BY <1>4, <1>9 DEF SlotTypes
<1>11. SlotTypes'
    BY <1>2, <1>4, <1>6, <1>8, <1>10 DEF SlotTypes, AreSlots, IsSlot
<1>12. \A p \in Names \ {from} : Stowed(p)'
    <2>1. \A p \in Names \ {from} : Stowed(p)
        BY <1>1, <1>2, SwitchNow
    <2>2. QED
        BY <1>6, <1>8, <1>10, <2>1 DEF Stowed, Owes
<1>13. CASE Stop(r)
    <2>1. Moves(r) /\ ops'[r] = Resting
        BY <1>13, Stopping
    <2>2. QED
        BY <1>1, <1>6, <1>8, <1>11, <1>12, <2>1, RestIsNoSwitch, SwitchNow, SwitchGoes
<1>14. CASE /\ Forth(r, ops[r], policy)
            /\ farewell' = [farewell EXCEPT ![from] = IF Alone(r) THEN left ELSE Nil]
    <2>1. farewell'[from] = IF Alone(r) THEN left ELSE Nil
        BY <1>2, <1>4, <1>14 DEF SlotTypes
    <2>2. Stowed(from)'
        <3>1. Owes(from)' => farewell'[from] = left
            BY <2>1 DEF Owes
        <3>2. posture'.mem.slots[from] = left
            BY <1>6, <1>8
        <3>3. Alike(left, left)
            BY DEF Alike
        <3>4. Owes(from)' /\ from = "split" => left.seeded
            BY <3>1 DEF Owes
        <3>5. QED
            BY <3>1, <3>2, <3>3, <3>4, Zenon DEF Stowed
    <2>3. ops[r].plan \in Tails("switch") /\ Head(ops[r].plan) = "leave"
        BY <1>1, AtWork DEF At, OpStation
    <2>4. Tail(ops[r].plan) # <<>> /\ Head(Tail(ops[r].plan)) = "load"
        BY <2>3, SwitchNext DEF Following
    <2>5. Moves(r) /\ ops'[r].op = "switch" /\ ops'[r].arg = ops[r].arg /\ Head(ops'[r].plan) = "load"
        BY <1>1, <1>14, <2>4, GoingOn, SwitchNow
    <2>6. farewell'[to] # Nil => Alone(r)'
        <3>1. farewell'[to] # Nil => Alone(r)
            BY <1>2, <1>10, <2>1
        <3>2. QED
            BY <2>5, <3>1 DEF Alone, Moves
    <2>7. SwitchCourse(r)'
        BY <1>2, <1>6, <1>8, <2>2, <2>5, <2>6 DEF SwitchCourse
    <2>8. QED
        BY <1>1, <1>8, <1>11, <1>12, <2>5, <2>7, SwitchNow, SwitchGoes
<1>15. QED
    BY <1>2, <1>3, <1>13, <1>14 DEF Leave

\* The slot a switch comes to holds what the posture was left with.
LEMMA ArrivingIs ==
    ASSUME SlotTypes, NEW to \in Names, Stowed(to), NEW lost,
           NEW slot, slot = Resolved(Arriving(to), lost)
    PROVE  /\ IsSlot(slot)
           /\ Owes(to) => Alike(slot, farewell[to]) /\ (to = "split" => slot.seeded)
<1>1. IsSlot(posture.mem.slots[to])
    BY DEF SlotTypes, AreSlots
<1>2. IsSlot(Arriving(to))
    BY <1>1, SlotIs DEF Arriving
<1>3. Owes(to) => /\ Arriving(to) = posture.mem.slots[to]
                  /\ Alike(posture.mem.slots[to], farewell[to])
                  /\ to = "split" => posture.mem.slots[to].seeded
    BY DEF Arriving, Stowed
<1>4. IsSlot(slot) /\ Alike(slot, Arriving(to)) /\ slot.seeded = Arriving(to).seeded
    BY <1>2, ResolvedIs
<1>5. QED
    BY <1>3, <1>4, AlikeOver

LEMMA LoadRestores == ASSUME PackInv, SwitchInv, NEW r \in PolicyRequest, Load(r) PROVE SwitchInv'
<1>1. At(r, "load") /\ ops[r].op = "switch"
    BY SweepAt DEF Load, SweepKind, SweepPlan, SweepSteps
<1>2. PICK from, to : /\ from = ops[r].arg.from /\ to = ops[r].arg.to /\ from \in Names /\ to \in Names
                      /\ posture.mem.active = from /\ posture.held = from
                      /\ farewell[to] # Nil => Alone(r)
                      /\ Stowed(from)
    BY <1>1, SwitchNow DEF SwitchCourse, At
<1>3. SlotTypes /\ \A p \in Names : Stowed(p)
    BY <1>2 DEF SwitchInv
<1>4. PICK lost, slot :
            /\ slot = Resolved(Arriving(to), lost)
            /\ posture' \in {posture, Stored(WithSlot(to, slot)), Unstored(WithSlot(to, slot))}
            /\ \/ Forth(r, [ops[r] EXCEPT !.next = Content(slot), !.prev = policy.mem,
                                          !.list = plane.nodes], policy)
               \/ Stop(r)
    BY <1>2, Zenon DEF Load
<1>5. /\ IsSlot(slot)
      /\ Owes(to) => Alike(slot, farewell[to]) /\ (to = "split" => slot.seeded)
    BY <1>2, <1>3, <1>4, ArrivingIs
<1>6. PICK state : /\ AreSlots(state) /\ state.active = from /\ state.slots[to] = slot
                   /\ \A q \in Names \ {to} : state.slots[q] = posture.mem.slots[q]
                   /\ state = WithSlot(to, slot)
    BY <1>2, <1>3, <1>5, WithSlotIs
<1>7. /\ posture' = [mem |-> posture'.mem, file |-> posture'.file, held |-> posture'.held]
      /\ posture'.mem \in {posture.mem, state} /\ posture'.held = from
      /\ posture'.file \in {state, posture.file}
    <2>1. CASE posture' = posture
        BY <1>2, <1>3, <2>1 DEF SlotTypes
    <2>2. CASE posture' = Stored(state) \/ posture' = Unstored(state)
        BY <1>2, <1>3, <1>6, <2>2, StoredIs
    <2>3. QED
        BY <1>4, <1>6, <2>1, <2>2
<1>8. farewell' = farewell
    BY DEF Load
<1>9. SlotTypes'
    BY <1>2, <1>3, <1>6, <1>7, <1>8 DEF SlotTypes, AreSlots, IsSlot
<1>10. ASSUME NEW p \in Names PROVE Stowed(p)'
    <2>1. Owes(p)' <=> Owes(p)
        BY <1>8 DEF Owes
    <2>2. CASE posture'.mem.slots[p] = posture.mem.slots[p]
        BY <1>3, <1>8, <2>1, <2>2 DEF Stowed
    <2>3. CASE p = to /\ posture'.mem.slots[p] = slot
        BY <1>5, <1>8, <2>1, <2>3 DEF Stowed
    <2>4. QED
        BY <1>6, <1>7, <2>2, <2>3
<1>11. posture'.mem.active = from
    BY <1>2, <1>6, <1>7
<1>12. CASE Stop(r)
    <2>1. Moves(r) /\ ops'[r] = Resting
        BY <1>12, Stopping
    <2>2. QED
        BY <1>1, <1>7, <1>9, <1>10, <1>11, <2>1, RestIsNoSwitch, SwitchNow, SwitchGoes
<1>13. CASE Forth(r, [ops[r] EXCEPT !.next = Content(slot), !.prev = policy.mem,
                                    !.list = plane.nodes], policy)
    <2>1. PICK b : /\ b = [ops[r] EXCEPT !.next = Content(slot), !.prev = policy.mem,
                                         !.list = plane.nodes]
                   /\ Forth(r, b, policy)
        BY <1>13
    <2>0. IsOp(ops[r])
        BY <1>1, SwitchNow
    <2>2. /\ IsOp(b) /\ b.op = "switch" /\ b.arg = ops[r].arg /\ b.plan = ops[r].plan
          /\ b.next = Content(slot)
        BY <1>1, <2>0, <2>1 DEF IsOp
    <2>3. ops[r].plan \in Tails("switch") /\ Head(ops[r].plan) = "load"
        BY <1>1, AtWork DEF At, OpStation
    <2>4. Tail(ops[r].plan) # <<>> /\ Head(Tail(ops[r].plan)) = "plane"
        BY <2>3, SwitchNext DEF Following
    <2>5. /\ Moves(r) /\ ops'[r].op = "switch" /\ ops'[r].arg = ops[r].arg
          /\ Head(ops'[r].plan) = "plane" /\ ops'[r].next = Content(slot)
        <3>1. Tail(b.plan) # <<>> /\ Head(Tail(b.plan)) = "plane"
            BY <2>2, <2>4
        <3>2. /\ Moves(r) /\ ops'[r].op = b.op /\ ops'[r].arg = b.arg
              /\ ops'[r].plan = Tail(b.plan) /\ ops'[r].next = b.next
            BY <2>1, <2>2, <3>1, GoingOn
        <3>3. QED
            BY <2>2, <3>1, <3>2
    <2>6. farewell'[to] # Nil => Alone(r)'
        BY <1>2, <1>8, <2>5 DEF Alone, Moves
    <2>7. Owes(to)' => Alike(ops'[r].next, farewell'[to])
        <3>1. Owes(to)' <=> Owes(to)
            BY <1>8 DEF Owes
        <3>2. Alike(Content(slot), slot)
            BY DEF Alike, Content
        <3>3. QED
            BY <1>5, <1>8, <2>5, <3>1, <3>2, AlikeOver
    <2>8. SwitchCourse(r)'
        BY <1>2, <1>7, <1>10, <1>11, <2>5, <2>6, <2>7 DEF SwitchCourse
    <2>9. QED
        BY <1>1, <1>7, <1>9, <1>10, <2>5, <2>8, SwitchNow, SwitchGoes
<1>14. QED
    BY <1>4, <1>12, <1>13

LEMMA PlaneRestores == ASSUME PackInv, SwitchInv, NEW r \in PolicyRequest, Plane(r) PROVE SwitchInv'
<1>1. /\ At(r, "plane") /\ ops[r].op \in Sweeps /\ IsOp(ops[r]) /\ ops[r].plan # <<>>
      /\ Head(ops[r].plan) = "plane"
    BY SweepAt DEF Plane, SweepSteps
<1>2. SlotTypes /\ farewell' = farewell /\ ops[r] # Resting
    BY <1>1, RestIsNoSwitch DEF SwitchInv, Plane
<1>3. CASE ops[r].op # "switch"
    <2>1. posture' = posture
        <3>1. CASE posture' = [posture EXCEPT !.held = PostureFor(ops[r])]
            <4>1. ops[r].op = "back" => posture.held = ops[r].arg.from
                BY DEF SwitchInv
            <4>2. PostureFor(ops[r]) = posture.held
                BY <1>1, <1>3, <4>1 DEF PostureFor, Sweeps
            <4>3. QED
                BY <1>2, <3>1, <4>2 DEF SlotTypes
        <3>2. QED
            BY <1>3, <3>1 DEF Plane
    <2>2. Moves(r) /\ (ops'[r] = Resting \/ (ops'[r].op = ops[r].op /\ ops'[r].arg = ops[r].arg))
        BY <1>1, <1>3, GoingOn, Stopping DEF Plane
    <2>3. ops'[r].op = "back" => posture.held = ops'[r].arg.from
        BY <2>2, RestIsNoSwitch DEF SwitchInv
    <2>4. QED
        BY <1>2, <1>3, <2>1, <2>2, <2>3, RestIsNoSwitch, SwitchStays
<1>4. CASE ops[r].op = "switch"
    <2>1. PICK from, to : /\ from = ops[r].arg.from /\ to = ops[r].arg.to /\ from \in Names /\ to \in Names
                          /\ posture.mem.active = from /\ posture.held = from
                          /\ Stowed(from)
                          /\ farewell[to] # Nil => Alone(r) /\ (Owes(to) => Alike(ops[r].next, farewell[to]))
        BY <1>1, <1>4, SwitchNow DEF SwitchCourse
    <2>2. \A p \in Names : Stowed(p)
        BY <2>1 DEF SwitchInv
    <2>3. CASE /\ Forth(r, ops[r], [policy EXCEPT !.held = ops[r].next])
               /\ posture' = [posture EXCEPT !.held = PostureFor(ops[r])]
        <3>1. /\ posture'.mem = posture.mem /\ posture'.file = posture.file /\ posture'.held = to
              /\ posture' = [mem |-> posture'.mem, file |-> posture'.file, held |-> posture'.held]
            BY <1>2, <1>4, <2>1, <2>3 DEF SlotTypes, PostureFor
        <3>2. SlotTypes'
            BY <1>2, <2>1, <3>1 DEF SlotTypes, AreSlots, IsSlot
        <3>3. \A p \in Names : Stowed(p)'
            BY <1>2, <2>2, <3>1 DEF Stowed, Owes
        <3>4. ops[r].plan \in Tails("switch")
            BY <1>4, AtWork DEF OpStation
        <3>5. Tail(ops[r].plan) # <<>> /\ Head(Tail(ops[r].plan)) = "alignSets"
            BY <1>1, <3>4, SwitchNext DEF Following
        <3>6. /\ Moves(r) /\ ops'[r].op = "switch" /\ ops'[r].arg = ops[r].arg
              /\ Head(ops'[r].plan) = "alignSets" /\ ops'[r].next = ops[r].next
            BY <1>1, <1>4, <2>3, <3>5, GoingOn
        <3>7. farewell'[to] # Nil => Alone(r)'
            BY <1>2, <2>1, <3>6 DEF Alone, Moves
        <3>8. Owes(to)' => Alike(ops'[r].next, farewell'[to])
            BY <1>2, <2>1, <3>6 DEF Owes
        <3>9. SwitchCourse(r)'
            BY <2>1, <3>1, <3>6, <3>7, <3>8 DEF SwitchCourse
        <3>10. QED
            BY <1>1, <3>1, <3>2, <3>3, <3>6, <3>9, SwitchGoes
    <2>4. CASE /\ Continue(r, [ops[r] EXCEPT !.op = "back", !.next = ops[r].prev, !.list = plane.nodes,
                                 !.plan = <<"plane", "alignSets", "alignRules">>], policy, {})
               /\ posture' = posture
        <3>1. PICK o : /\ o = [ops[r] EXCEPT !.op = "back", !.next = ops[r].prev, !.list = plane.nodes,
                                 !.plan = <<"plane", "alignSets", "alignRules">>]
                       /\ Continue(r, o, policy, {})
            BY <2>4
        <3>2. o.op = "back" /\ o.arg = ops[r].arg /\ o.plan = <<"plane", "alignSets", "alignRules">>
            BY <1>1, <3>1 DEF IsOp
        <3>3. o.plan # <<>>
            BY <3>2, SMT
        <3>4. Moves(r) /\ ops'[r].op = "back" /\ ops'[r].arg.from = from
            BY <2>1, <3>1, <3>2, <3>3, Going
        <3>5. SlotTypes'
            BY <1>2, <2>4 DEF SlotTypes, AreSlots, IsSlot
        <3>6. \A p \in Names : Stowed(p)'
            BY <1>2, <2>2, <2>4 DEF Stowed, Owes
        <3>7. QED
            BY <1>1, <2>1, <2>4, <3>4, <3>5, <3>6, SwitchGoes
    <2>5. QED
        BY <1>4, <2>3, <2>4 DEF Plane
<1>5. QED
    BY <1>3, <1>4

LEMMA AlignRestores == ASSUME PackInv, SwitchInv, NEW r \in PolicyRequest, Align(r) PROVE SwitchInv'
<1>1. PICK step \in Aligning : At(r, step)
    BY DEF Align, Aligning
<1>2. /\ ops[r].op \in Sweeps /\ IsOp(ops[r]) /\ ops[r].plan # <<>> /\ Head(ops[r].plan) = step
      /\ ArePolicies(policy)
    BY <1>1, SweepAt DEF Aligning, SweepSteps
<1>3. SlotTypes /\ farewell' = farewell /\ posture' = posture /\ ops[r] # Resting
    BY <1>2, RestIsNoSwitch DEF SwitchInv, Align
<1>4. PICK store, x : /\ store = StoreOf(step)
                      /\ x = [policy.mem EXCEPT ![store] = ops[r].next[store]]
                      /\ \/ Forth(r, ops[r], Saves(x, store))
                         \/ Continue(r, [ops[r] EXCEPT !.plan = Tail(@)],
                                     [policy EXCEPT !.mem = x], {store})
    BY <1>2 DEF Align
<1>5. store = (IF step = "alignSets" THEN "sets" ELSE "rules") /\ store \in Stores
    BY <1>1, <1>4 DEF StoreOf, SetSteps, Stores, Aligning
<1>6. PICK o, p, slip : /\ o = [ops[r] EXCEPT !.plan = Tail(@)] /\ Continue(r, o, p, slip)
                        /\ p = Saves(x, store) \/ p = [policy EXCEPT !.mem = x]
    BY <1>4 DEF Forth
<1>7. o.op = ops[r].op /\ o.arg = ops[r].arg /\ o.plan = Tail(ops[r].plan) /\ o.next = ops[r].next
    BY <1>2, <1>6 DEF IsOp
<1>8. Moves(r) /\ policy' = p /\ ops'[r] = (IF o.plan = <<>> THEN Resting ELSE o)
    BY <1>6, Going
<1>9. CASE ops[r].op # "switch"
    <2>1. ops'[r] = Resting \/ (ops'[r].op = ops[r].op /\ ops'[r].arg = ops[r].arg)
        BY <1>7, <1>8
    <2>2. ops'[r].op = "back" => posture.held = ops'[r].arg.from
        BY <2>1, RestIsNoSwitch DEF SwitchInv
    <2>3. QED
        BY <1>3, <1>8, <1>9, <2>1, <2>2, RestIsNoSwitch, SwitchStays
<1>10. CASE ops[r].op = "switch"
    <2>1. PICK from, to : /\ from = ops[r].arg.from /\ to = ops[r].arg.to /\ from \in Names /\ to \in Names
                          /\ posture.mem.active = from /\ posture.held = to
                          /\ farewell[to] # Nil =>
                                /\ Alone(r) /\ (Owes(to) => Alike(ops[r].next, farewell[to]))
                                /\ step = "alignRules" => policy.mem.sets = ops[r].next.sets
        BY <1>1, <1>2, <1>10, SwitchNow DEF SwitchCourse, Aligning
    <2>2. ops[r].plan \in Tails("switch")
        BY <1>10, AtWork DEF OpStation
    <2>3. o.plan # <<>> /\ Head(o.plan) = IF step = "alignSets" THEN "alignRules" ELSE "settle"
        BY <1>1, <1>2, <1>7, <2>2, SwitchNext DEF Following, Aligning
    <2>4. ops'[r] = o
        BY <1>8, <2>3
    <2>5. x = [rules |-> x.rules, sets |-> x.sets] /\ x[store] = o.next[store]
          /\ \A s \in Stores \ {store} : x[s] = policy.mem[s]
        BY <1>2, <1>4, <1>5, <1>7 DEF ArePolicies, IsPolicy, Stores
    <2>6. policy'.mem = x
        <3>1. IsPolicy(x)
            BY <2>5 DEF IsPolicy
        <3>2. p.mem = x
            BY <1>2, <1>5, <1>6, <3>1, SaveOne
        <3>3. QED
            BY <1>8, <3>2
    <2>7. farewell'[to] # Nil =>
                /\ Alone(r)' /\ (Owes(to)' => Alike(o.next, farewell'[to]))
                /\ policy'.mem.sets = o.next.sets
                /\ Head(o.plan) = "settle" => policy'.mem.rules = o.next.rules
        <3>1. farewell'[to] # Nil => Alone(r)'
            BY <1>3, <1>8, <2>1 DEF Alone, Moves
        <3>2. farewell'[to] # Nil /\ Owes(to)' => Alike(o.next, farewell'[to])
            BY <1>3, <1>7, <2>1 DEF Owes
        <3>3. CASE step = "alignSets"
            BY <1>5, <2>3, <2>5, <2>6, <3>1, <3>2, <3>3
        <3>4. CASE step = "alignRules"
            BY <1>3, <1>5, <1>7, <2>1, <2>5, <2>6, <3>1, <3>2, <3>4 DEF Stores
        <3>5. QED
            BY <1>1, <3>3, <3>4 DEF Aligning
    <2>8. SwitchCourse(r)'
        BY <1>3, <1>7, <2>1, <2>3, <2>4, <2>7 DEF SwitchCourse
    <2>9. SlotTypes'
        BY <1>3 DEF SlotTypes, AreSlots, IsSlot
    <2>10. \A q \in Names \ {posture'.held} : Stowed(q)'
        BY <1>3 DEF SwitchInv, Stowed, Owes
    <2>11. QED
        BY <1>2, <1>7, <1>8, <1>10, <2>4, <2>8, <2>9, <2>10, SwitchGoes
<1>11. QED
    BY <1>9, <1>10

LEMMA SettleRestores ==
    ASSUME PackInv, SwitchInv, NEW r \in PolicyRequest, Settle(r)
    PROVE  SwitchInv'
<1>1. At(r, "settle") /\ ops[r].op = "switch"
    BY SweepAt DEF Settle, SweepKind, SweepPlan, SweepSteps
<1>2. ops[r].arg.to \in Names /\ posture.held = ops[r].arg.to
    BY <1>1, SwitchNow DEF SwitchCourse, At
<1>3. SlotTypes
    BY DEF SwitchInv
<1>4. PICK state : /\ state = [posture.mem EXCEPT !.active = ops[r].arg.to]
                   /\ posture' = Stored(state) \/ posture' = Unstored(state)
    BY DEF Settle
<1>5. state = [active |-> posture.held, slots |-> posture.mem.slots] /\ AreSlots(state)
    BY <1>2, <1>3, <1>4 DEF SlotTypes, AreSlots
<1>6. /\ posture' = [mem |-> posture'.mem, file |-> posture'.file, held |-> posture'.held]
      /\ posture'.mem = state /\ posture'.held = posture.held /\ posture'.file \in {state, posture.file}
    BY <1>3, <1>4, <1>5, StoredIs
<1>7. farewell' = farewell /\ Moves(r) /\ ops'[r] = Resting
    BY Stopping DEF Settle
<1>8. SlotTypes'
    BY <1>2, <1>3, <1>5, <1>6, <1>7 DEF SlotTypes, AreSlots, IsSlot
<1>9. \A p \in Names \ {posture'.held} : Stowed(p)'
    <2>1. posture'.mem.slots = posture.mem.slots
        BY <1>5, <1>6
    <2>2. QED
        BY <1>6, <1>7, <2>1 DEF SwitchInv, Stowed, Owes
<1>10. QED
    BY <1>1, <1>5, <1>6, <1>7, <1>8, <1>9, RestIsNoSwitch, SwitchNow, SwitchGoes

-----------------------------------------------------------------------------
(***************************************************************************)
(* The other requests, the start of the daemon, and the theorem            *)
(***************************************************************************)
\* A request that begins.
LEMMA BeginRestores ==
    ASSUME PackInv, SwitchInv, NEW r \in PolicyRequest,
           BeginPolicy(r) \/ BeginSwitch(r) \/ BeginActivate(r)
    PROVE  SwitchInv'
<1>1. ops[r] = Resting /\ posture' = posture
    BY DEF BeginPolicy, BeginEdit, BeginJudgement, BeginPack, BeginSwitch, BeginActivate, Begin
<1>2. Sweeping = {} => \A q \in PolicyRequest : ops[q].op # "switch"
    BY DEF Sweeping, Sweeps
<1>3. ASSUME NEW op, NEW arg, NEW plan, Begin(r, op, arg, plan)
      PROVE  /\ Moves(r) /\ ops'[r].op = op /\ ops'[r].arg = arg /\ ops'[r].plan = plan
    <2>1. PICK o : /\ o = [Resting EXCEPT !.op = op, !.arg = arg, !.plan = plan,
                                          !.prev = [s \in Kept(op) |-> policy.mem[s]]]
                   /\ ops' = [ops EXCEPT ![r] = o]
        BY <1>3 DEF Begin
    <2>2. o.op = op /\ o.arg = arg /\ o.plan = plan
        BY <2>1 DEF Resting
    <2>3. QED
        BY <2>1, <2>2 DEF PackInv, OpTypes, Moves
<1>4. CASE BeginPolicy(r)
    <2>1. PICK op \in Editing \cup {"request"} \cup PackOps : \E arg, plan : Begin(r, op, arg, plan)
        BY <1>4 DEF BeginPolicy, BeginEdit, BeginJudgement, BeginPack, Editing
    <2>2. op \notin {"switch", "back"}
        BY DEF Editing, PackOps
    <2>3. farewell' = Strangers \/ (farewell' = farewell /\ Sweeping = {})
        BY <1>4 DEF BeginPolicy
    <2>4. QED
        BY <1>1, <1>2, <1>3, <2>1, <2>2, <2>3, RestIsNoSwitch, SwitchStays
<1>5. CASE BeginActivate(r)
    <2>1. PICK o : o.op = "activate" /\ ops' = [ops EXCEPT ![r] = o]
        <3>1. PICK name, arg, list :
                ops' = [ops EXCEPT ![r] =
                    [Resting EXCEPT !.op = "activate", !.arg = arg, !.plan = ProfilePlan,
                                    !.next = Content(profiles[name]), !.list = list]]
            BY <1>5, Zenon DEF BeginActivate
        <3>2. PICK o : /\ o = [Resting EXCEPT !.op = "activate", !.arg = arg, !.plan = ProfilePlan,
                                              !.next = Content(profiles[name]), !.list = list]
                       /\ ops' = [ops EXCEPT ![r] = o]
            BY <3>1
        <3>3. o.op = "activate"
            BY <3>2 DEF Resting
        <3>4. QED
            BY <3>2, <3>3
    <2>2. Moves(r) /\ ops'[r].op = "activate"
        BY <2>1 DEF PackInv, OpTypes, Moves
    <2>3. farewell' \in {farewell, Strangers} /\ Sweeping = {}
        BY <1>5 DEF BeginActivate
    <2>4. QED
        BY <1>1, <1>2, <2>2, <2>3, RestIsNoSwitch, SwitchStays
<1>6. CASE BeginSwitch(r)
    <2>1. PICK to \in Names : Begin(r, "switch", [from |-> posture.held, to |-> to], SwitchPlan)
        BY <1>6 DEF BeginSwitch
    <2>2. PICK arg : arg = [from |-> posture.held, to |-> to]
        OBVIOUS
    <2>3. /\ Moves(r) /\ ops'[r].op = "switch" /\ ops'[r].arg = arg /\ ops'[r].plan = SwitchPlan
        BY <1>3, <2>1, <2>2
    <2>4. Head(SwitchPlan) = "leave"
        BY SMT DEF SwitchPlan
    <2>5. Sweeping = {} /\ farewell' = IF Alone(r) THEN farewell ELSE Strangers
        BY <1>6 DEF BeginSwitch
    <2>6. SlotTypes /\ posture.mem.active = posture.held
        BY <1>2, <2>5 DEF SwitchInv
    <2>7. SlotTypes'
        BY <1>1, <2>5, <2>6 DEF SlotTypes, AreSlots, IsSlot, Strangers
    <2>8. \A p \in Names \ {posture'.held} : Stowed(p)'
        <3>1. ASSUME NEW p \in Names, Stowed(p) PROVE Stowed(p)'
            <4>1. CASE farewell' = farewell
                BY <1>1, <3>1, <4>1 DEF Stowed, Owes
            <4>2. CASE farewell' = Strangers
                BY <4>2 DEF Stowed, Owes, Strangers
            <4>3. QED
                BY <2>5, <4>1, <4>2
        <3>2. QED
            BY <1>1, <3>1 DEF SwitchInv
    <2>9. farewell'[to] # Nil => Alone(r)'
        <3>1. farewell'[to] # Nil => Alone(r)
            BY <2>5 DEF Strangers
        <3>2. QED
            BY <2>3, <3>1 DEF Alone, Moves
    <2>10. SwitchCourse(r)'
        <3>1. arg.from = posture.held /\ arg.to = to /\ posture.held \in Names
            BY <2>2, <2>6 DEF SlotTypes
        <3>2. QED
            BY <1>1, <2>3, <2>4, <2>6, <2>9, <3>1 DEF SwitchCourse
    <2>11. QED
        BY <2>3, <2>5, <2>7, <2>8, <2>10, SwitchGoes
<1>7. QED
    BY <1>4, <1>5, <1>6

\* The steps of the other requests on the policy, and those of an activation on
\* the subscriptions.
LEMMA PackRestores ==
    ASSUME PackInv, SwitchInv, NEW r \in PolicyRequest, UNCHANGED <<posture, farewell>>, PackStep(r)
    PROVE  SwitchInv'
<1>1. PICK o, p, slip : o.op \notin Sweeps /\ Continue(r, o, p, slip)
    BY PackTurns
<1>2. ops[r].op \notin Sweeps /\ ops[r].plan # <<>>
    BY PackTurns
<1>3. Moves(r) /\ ops'[r].op \notin Sweeps
    BY <1>1, Going, RestIsNoSwitch
<1>4. ops[r] # Resting
    BY <1>2, AtRest
<1>5. QED
    BY <1>2, <1>3, <1>4, SwitchStays DEF Sweeps

LEMMA ActivateRestores ==
    ASSUME PackInv, SwitchInv, NEW r \in PolicyRequest, ClearSubs(r) \/ MarkProfile(r)
    PROVE  SwitchInv'
<1>1. PICK step \in {"clear", "mark"} : At(r, step)
    BY DEF ClearSubs, MarkProfile
<1>2. ops[r].op = "activate" /\ IsOp(ops[r])
    BY <1>1, SweepAt DEF SweepKind, SweepPlan, SweepSteps
<1>3. Moves(r) /\ (ops'[r] = Resting \/ ops'[r].op = "activate")
    BY <1>2, GoingOn, Stopping DEF ClearSubs, MarkProfile
<1>4. posture' = posture /\ farewell' = farewell
    BY DEF ClearSubs, MarkProfile
<1>5. ops[r] # Resting
    BY <1>2, AtRest DEF Sweeps
<1>6. QED
    BY <1>2, <1>3, <1>4, <1>5, RestIsNoSwitch, SwitchStays

\* The daemon boots into the slot that was active, and leaves the other one alone.
LEMMA BootRestores == ASSUME SwitchInv, Boot PROVE SwitchInv'
<1>1. SlotTypes /\ AreSlots(posture.file) /\ posture.file.active \in Names
    BY DEF SwitchInv, SlotTypes
<1>2. PICK active, state : /\ active = posture.file.active /\ state = Synced(posture.file, policy.file)
                           /\ posture' = [mem |-> state, file |-> state, held |-> state.active]
    BY DEF Boot
<1>3. PICK slot : /\ IsSlot(slot) /\ state = [posture.file EXCEPT !.slots[active] = slot]
    BY <1>2, SlotIs DEF Synced
<1>4. PICK slots : slots = [posture.file.slots EXCEPT ![active] = slot]
    OBVIOUS
<1>5. state = [active |-> active, slots |-> slots]
    BY <1>1, <1>2, <1>3, <1>4 DEF AreSlots
<1>6. AreSlots(state) /\ \A p \in Names \ {active} : state.slots[p] = posture.file.slots[p]
    BY <1>1, <1>2, <1>3, <1>4, <1>5 DEF AreSlots
<1>7. /\ posture'.mem = state /\ posture'.file = state /\ posture'.held = active
      /\ posture' = [mem |-> posture'.mem, file |-> posture'.file, held |-> posture'.held]
    BY <1>2, <1>5
<1>8. /\ farewell' = (IF Sweeping = {} /\ posture.mem = posture.file THEN farewell ELSE Strangers)
      /\ \A r \in PolicyRequest : ops'[r] = Resting
    BY DEF Boot, Reload
<1>9. SlotTypes'
    BY <1>1, <1>2, <1>5, <1>6, <1>7, <1>8 DEF SlotTypes, AreSlots, IsSlot, Strangers
<1>10. ASSUME NEW p \in Names \ {active} PROVE Stowed(p)'
    <2>1. CASE Sweeping = {} /\ posture.mem = posture.file
        <3>1. posture.held = active
            BY <1>2, <2>1 DEF SwitchInv, Sweeping, Sweeps
        <3>2. Stowed(p) /\ farewell' = farewell /\ posture'.mem.slots[p] = posture.mem.slots[p]
            BY <1>6, <1>7, <1>8, <2>1, <3>1 DEF SwitchInv
        <3>3. QED
            BY <3>2 DEF Stowed, Owes
    <2>2. CASE farewell' = Strangers
        BY <2>2 DEF Stowed, Owes, Strangers
    <2>3. QED
        BY <1>8, <2>1, <2>2
<1>11. QED
    BY <1>5, <1>7, <1>8, <1>9, <1>10, RestIsNoSwitch DEF SwitchInv

LEMMA SwitchStill == ASSUME SwitchInv, UNCHANGED <<packVars, posture, farewell>> PROVE SwitchInv'
<1>1. ops' = ops /\ policy' = policy /\ posture' = posture /\ farewell' = farewell
    BY DEF packVars
<1>2. SlotTypes'
    BY <1>1 DEF SwitchInv, SlotTypes, AreSlots, IsSlot
<1>3. \A p : Stowed(p)' <=> Stowed(p)
    BY <1>1 DEF Stowed, Owes
<1>4. ASSUME NEW r \in PolicyRequest PROVE SwitchCourse(r)' <=> SwitchCourse(r)
    BY <1>1, <1>3 DEF SwitchCourse, Alone, Owes
<1>5. QED
    BY <1>1, <1>2, <1>3, <1>4 DEF SwitchInv

LEMMA SwitchStep == ASSUME PackInv, SwitchInv, [SettingsNext]_allVars PROVE SwitchInv'
<1>1. CASE UNCHANGED allVars
    BY <1>1, SwitchStill DEF allVars
<1>2. ASSUME NEW r \in PolicyRequest, PolicyStep(r)
      PROVE  SwitchInv'
    BY <1>2, BeginRestores, PackRestores, LeaveRestores, LoadRestores, PlaneRestores, AlignRestores,
       SettleRestores, ActivateRestores DEF PolicyStep
<1>3. CASE AddProfile \/ DeleteProfile
    BY <1>3, SwitchStill DEF AddProfile, DeleteProfile
<1>4. CASE UNCHANGED <<packVars, posture, profiles, farewell>>
    BY <1>4, SwitchStill
<1>5. CASE Boot
    BY <1>5, BootRestores
<1>6. QED
    BY <1>1, <1>2, <1>3, <1>4, <1>5 DEF SettingsNext

LEMMA SwitchStart == SettingsInit => SwitchInv
<1>1. SUFFICES ASSUME SettingsInit PROVE SwitchInv
    OBVIOUS
<1>2. PICK active \in Names :
        posture = [mem |-> Started(active), file |-> Started(active), held |-> active]
    BY <1>1 DEF SettingsInit
<1>3. AreSlots(Started(active)) /\ Started(active).active = active
    BY SlotIs DEF Started, AreSlots, EmptySlot
<1>4. farewell = Strangers /\ \A r \in PolicyRequest : ops[r] = Resting
    BY <1>1 DEF SettingsInit, PackInit
<1>5. SlotTypes /\ \A p \in Names : ~Owes(p)
    BY <1>2, <1>3, <1>4 DEF SlotTypes, Strangers, Owes
<1>6. QED
    BY <1>2, <1>3, <1>4, <1>5, RestIsNoSwitch DEF SwitchInv, Stowed

\* Whatever was done under the other posture, refused or cut short, a switch back
\* brings the policy the posture was left with.
THEOREM SettingsSwitchesRestore == SettingsSpec => []SwitchesRestore
<1>1. ASSUME PackInv, SwitchInv
      PROVE  SwitchesRestore
    <2>1. ASSUME NEW r \in PolicyRequest, Returns(r),
                 ops[r].arg.to = "strict" \/ farewell[ops[r].arg.to].seeded
          PROVE  Alike(policy.mem, farewell[ops[r].arg.to])
        <3>1. At(r, "settle") /\ ops[r].op = "switch"
            BY <1>1, <2>1, SweepAt DEF Returns, SweepKind, SweepPlan, SweepSteps
        <3>2. PICK to : to = ops[r].arg.to
            OBVIOUS
        <3>3. /\ Alike(ops[r].next, farewell[to])
              /\ policy.mem.sets = ops[r].next.sets /\ policy.mem.rules = ops[r].next.rules
            BY <1>1, <2>1, <3>1, <3>2, SwitchNow DEF SwitchCourse, At, Returns, Owes
        <3>4. QED
            BY <3>2, <3>3 DEF Alike
    <2>2. QED
        BY <2>1 DEF SwitchesRestore
<1>2. PackInv /\ SwitchInv /\ [SettingsNext]_allVars => SwitchInv'
    BY SwitchStep
<1>3. QED
    BY <1>1, <1>2, SwitchStart, PackInvHolds, PTL DEF SettingsSpec
=============================================================================
