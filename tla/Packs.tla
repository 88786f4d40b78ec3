------------------------------- MODULE Packs -------------------------------
(***************************************************************************)
(* Custom rules, rule sets, the packs that bundle the two, and the permit  *)
(* requests of clients (internal/customrules, internal/ruleset and their   *)
(* handlers in internal/api).  A handler is a plan: the store calls and    *)
(* rebuilds it makes one after the other, each under a lock of its own,    *)
(* and what it does about the first of them that fails.  The sets of one   *)
(* pack are changed in one step, and the order of rule sets is left out.   *)
(***************************************************************************)
EXTENDS Integers, Sequences, FiniteSets, TLC

CONSTANTS
    Nil,           \* nothing
    PolicyRequest, \* requests that may be in flight at once
    OwnRule,       \* rules an operator may add by hand
    AskedRule,     \* rules a client may ask for: permit only, off
    Preset,        \* the presets: [pack -> [rules, sets: [tag -> role]]]
    HandSet,       \* rule sets an operator may import: <<tag, role>>
    Mishaps,       \* bound: how many saves and rebuilds fail
    MaxRules,      \* bound: custom rules at a time
    Overlap        \* bound: the operations that may meet another one on a store

VARIABLES
    policy, \* [mem, file, held]: the stores, their files and the Manager, each [rules, sets]
    ops,    \* the requests in flight
    loose,  \* auxiliary: the stores in which something was let slip
    wanted, \* auxiliary: the packs that are in force
    mishaps \* bound: failures so far

packVars == <<policy, ops, loose, wanted, mishaps>>

\* Nil is no name of an operation.
PacksAssumption ==
    /\ Mishaps \in Nat /\ MaxRules \in Nat
    /\ Nil \notin {"rule", "approve", "deny", "request", "set", "apply", "on", "off",
                   "delete", "undone", "switch", "back", "activate"}
ASSUME PacksAssumption

-----------------------------------------------------------------------------
(***************************************************************************)
(* Custom rules: a sequence of [host, egress, permit, on, pack]            *)
(***************************************************************************)
RuleID(rule) == <<rule.host, rule.egress, rule.permit>>
Valid(rule) == rule.permit \/ rule.egress # "none"

Places(list, id) == {i \in DOMAIN list : RuleID(list[i]) = id}
First(list, id) == CHOOSE i \in Places(list, id) : \A j \in Places(list, id) : i <= j

AddRule(list, rule) ==
    IF Places(list, RuleID(rule)) = {} THEN Append(list, rule)
    ELSE [list EXCEPT ![First(list, RuleID(rule))] = rule]
RemoveRule(list, id) == SelectSeq(list, LAMBDA x : RuleID(x) # id)
RemovePack(list, pack) == SelectSeq(list, LAMBDA x : x.pack # pack)
SetPackEnabled(list, pack, on) ==
    [i \in DOMAIN list |-> IF list[i].pack = pack THEN [list[i] EXCEPT !.on = on] ELSE list[i]]
ReplacePack(list, pack) == RemovePack(list, pack) \o Preset[pack].rules

\* Update finds the rule by its ID, which the patch may change.
Patches(rule) == {y \in {[rule EXCEPT !.on = ~@], [rule EXCEPT !.permit = ~@]} : Valid(y)}
Updated(list, id, rule) == [list EXCEPT ![First(list, id)] = rule]

Swap(list, i, j) == [list EXCEPT ![i] = list[j], ![j] = list[i]]
Move(list, i) == IF i < Len(list) THEN Swap(list, i, i + 1) ELSE list
MoveTop(list, i) ==
    <<list[i]>> \o SubSeq(list, 1, i - 1) \o SubSeq(list, i + 1, Len(list))

\* What handleAddCustomRule, PatchCustomRule, DeleteCustomRule and
\* MoveCustomRule may make of a list.
RuleEdits(list) ==
    {AddRule(list, x) : x \in OwnRule}
    \cup UNION {{Updated(list, RuleID(list[i]), y) : y \in Patches(list[i])} : i \in DOMAIN list}
    \cup UNION {{RemoveRule(list, id), Move(list, First(list, id)), MoveTop(list, First(list, id))} :
                    id \in {RuleID(list[i]) : i \in DOMAIN list}}

-----------------------------------------------------------------------------
(***************************************************************************)
(* Rule sets: [tag -> [role, on]], a role being the axes it is made of     *)
(***************************************************************************)
Routes == {"direct", "proxy"}

\* What a pack wants of its sets.  Packs that share a set ask for different axes of
\* it, and one of them at most for a route (presets.go: geosite-cn, permit for the
\* one and direct for the other).
PresetsAssumption ==
    /\ \A pack \in DOMAIN Preset : \A tag \in DOMAIN Preset[pack].sets :
            Preset[pack].sets[tag] # {} /\ Preset[pack].sets[tag] \subseteq {"permit"} \cup Routes
    /\ \A p, q \in DOMAIN Preset : p # q =>
            \A tag \in DOMAIN Preset[p].sets \cap DOMAIN Preset[q].sets :
                /\ Preset[p].sets[tag] \cap Preset[q].sets[tag] = {}
                /\ Preset[p].sets[tag] \cap Routes = {} \/ Preset[q].sets[tag] \cap Routes = {}
ASSUME PresetsAssumption
\* Bug: the incoming role replaces the one that is there.
BugMerge(existing, incoming) == incoming

MergeRuleRoles(existing, incoming) ==
    LET route == IF incoming \cap Routes # {} THEN incoming ELSE existing
    IN  ((existing \cup incoming) \cap {"permit"}) \cup (route \cap Routes)

SubtractRuleRoles(current, remove) ==
    ((current \cap {"permit"}) \ remove)
        \cup (IF remove \cap Routes = {} THEN current \cap Routes ELSE {})

RoleIn(sets, tag) == IF tag \in DOMAIN sets THEN sets[tag].role ELSE {}
Left(sets, pack, tag) == SubtractRuleRoles(sets[tag].role, Preset[pack].sets[tag])
Concerned(sets, pack) == DOMAIN sets \cap DOMAIN Preset[pack].sets

\* handleApplyPack and a pack switched on.
Merged(sets, pack) ==
    [tag \in DOMAIN sets \cup DOMAIN Preset[pack].sets |->
        IF tag \notin DOMAIN Preset[pack].sets THEN sets[tag]
        ELSE [role |-> MergeRuleRoles(RoleIn(sets, tag), Preset[pack].sets[tag]), on |-> TRUE]]

\* A pack switched off: a set without axes left stays, off, with the role it had.
Subtracted(sets, pack) ==
    [tag \in DOMAIN sets |->
        IF tag \notin Concerned(sets, pack) THEN sets[tag]
        ELSE IF Left(sets, pack, tag) = {} THEN [sets[tag] EXCEPT !.on = FALSE]
        ELSE [role |-> Left(sets, pack, tag), on |-> TRUE]]

\* handleDeletePack: such a set goes.
Withdrawn(sets, pack) ==
    LET gone == {tag \in Concerned(sets, pack) : Left(sets, pack, tag) = {}}
    IN  [tag \in DOMAIN sets \ gone |-> Subtracted(sets, pack)[tag]]

\* handleAddRuleSet, handlePatchRuleSet and handleDeleteRuleSet.
SetEdits(sets) ==
    {(x[1] :> [role |-> x[2], on |-> TRUE]) @@ sets : x \in HandSet}
    \cup {[sets EXCEPT ![tag].on = ~@] : tag \in DOMAIN sets}
    \cup {[t \in DOMAIN sets \ {tag} |-> sets[t]] : tag \in DOMAIN sets}

-----------------------------------------------------------------------------
(***************************************************************************)
(* The handlers                                                            *)
(***************************************************************************)
HasSets(pack) == DOMAIN Preset[pack].sets # {}
Plan(op, pack) ==
    LET with(steps, otherwise) == IF HasSets(pack) THEN steps ELSE otherwise IN
    CASE op = "rule" -> <<"edit", "serveRules">>
      [] op \in {"approve", "deny"} -> <<op, "serveRules">>
      [] op = "request" -> <<"file">>
      [] op = "set" -> <<"import", "serveSets">>
      [] op = "apply" -> with(<<"merge", "replace", "passSets", "serveRules">>,
                              <<"replace", "serveRules">>)
      [] op = "on" -> with(<<"enable", "merge", "passSets", "serveRules">>,
                           <<"enable", "serveRules">>)
      [] op = "off" -> with(<<"disable", "subtract", "passSets", "serveRules">>,
                            <<"disable", "serveRules">>)
      [] op = "delete" -> with(<<"remove", "withdraw", "passSets", "serveRules">>,
                               <<"remove", "serveRules">>)

PackOps == {"apply", "on", "off", "delete"}
\* Bug: the rule-set store keeps what a refused pack merged into it.
BugRecovery(op, step) ==
    IF op \in PackOps /\ step = "serveRules" THEN <<"restoreRules", "reserveSets">> ELSE <<>>

\* What a handler does when a step of it fails.
Recovery(op, step) ==
    CASE op = "rule" /\ step = "serveRules" -> <<"restoreRules">>
      [] op = "set" /\ step = "serveSets" -> <<"restoreSets">>
      [] op = "apply" /\ step \in {"merge", "replace"} -> <<"restoreSets">>
      [] op = "apply" /\ step = "passSets" -> <<"restoreRules", "restoreSets">>
      [] op \in PackOps \ {"apply"} /\ step \in {"merge", "subtract", "withdraw"} ->
            <<"restoreRules", "restoreSets">>
      [] op \in PackOps /\ (step = "serveRules" \/ (step = "passSets" /\ op # "apply")) ->
            <<"restoreRules", "restoreSets", "reserveSets">>
      [] OTHER -> <<>>

SetSteps == {"import", "merge", "subtract", "withdraw", "restoreSets", "alignSets",
             "serveSets", "passSets", "reserveSets"}
Restoring == {"restoreRules", "restoreSets", "alignRules", "alignSets"}
Serving == {"serveRules", "serveSets", "passSets", "reserveSets"}
StoreOf(step) == IF step \in SetSteps THEN "sets" ELSE "rules"

Resting == [op |-> Nil, arg |-> Nil, plan |-> <<>>, list |-> Nil, prev |-> Nil, next |-> Nil]
Touches(op) ==
    CASE op \in {"rule", "approve", "deny", "request"} -> {"rules"}
      [] op = "set" -> {"sets"}
      [] op = Nil -> {}
      [] OTHER -> {"rules", "sets"}
\* What a handler reads before its first step, to go back to.
Kept(op) == IF op \in {"rule", "set"} \cup PackOps THEN Touches(op) ELSE {}
Others(r, store) == {q \in PolicyRequest \ {r} : store \in Touches(ops[q].op)}

\* What of a store takes effect, and whether memory, file and Manager agree on it.
InForce(x, store) ==
    IF store = "rules" THEN SelectSeq(x.rules, LAMBDA rule : rule.on)
    ELSE {<<tag, x.sets[tag].role>> : tag \in {t \in DOMAIN x.sets : x.sets[t].on}}
Agree(p, store) ==
    InForce(p.mem, store) = InForce(p.held, store) /\ InForce(p.file, store) = InForce(p.held, store)

\* The request r goes on as o with the stores p; slip is what it let slip.
Continue(r, o, p, slip) ==
    LET over == o.plan = <<>>
        mended == {s \in loose \ slip : over /\ Others(r, s) = {} /\ Agree(p, s)}
    IN
    /\ policy' = p
    /\ ops' = [ops EXCEPT ![r] = IF over THEN Resting ELSE o]
    /\ loose' = (loose \cup slip) \ mended
    /\ wanted' = IF "sets" \in loose \cup slip THEN {}
                 ELSE IF over /\ o.op \in {"apply", "on"} THEN wanted \cup {o.arg} ELSE wanted
Mishap == mishaps < Mishaps /\ mishaps' = mishaps + 1

\* The step of r failed, and left the stores as p.
Fails(r, p) ==
    LET op == ops[r].op
        step == Head(ops[r].plan)
        plan == Recovery(op, step)
        restored == {StoreOf(plan[i]) : i \in DOMAIN plan}
    IN  /\ Mishap
        /\ Continue(r, [ops[r] EXCEPT !.op = "undone", !.plan = plan], p,
                    {StoreOf(step)} \ restored)

Begin(r, op, arg, plan) ==
    /\ ops[r] = Resting
    /\ op \in Overlap \/ \A s \in Touches(op) : Others(r, s) = {}
    /\ ops' = [ops EXCEPT ![r] =
                [Resting EXCEPT !.op = op, !.arg = arg, !.plan = plan, !.prev = [s \in Kept(op) |-> policy.mem[s]]]]
    /\ loose' = loose \cup {s \in Touches(op) : Others(r, s) # {}}
    /\ UNCHANGED <<policy, mishaps>>

\* Packs that still have their sets after the sets of tags are edited by hand.
BeginEdit(r, op) ==
    /\ Begin(r, op, Nil, Plan(op, Nil))
    /\ wanted' = IF op = "set" \/ "sets" \in loose' THEN {} ELSE wanted

BeginJudgement(r, op) ==
    \E i \in DOMAIN policy.mem.rules :
        /\ policy.mem.rules[i].pack = "request"
        /\ Begin(r, op, RuleID(policy.mem.rules[i]), Plan(op, Nil))
        /\ UNCHANGED wanted

BeginPack(r, op) ==
    \E pack \in DOMAIN Preset :
        /\ Begin(r, op, pack, Plan(op, pack))
        /\ wanted' = IF "sets" \in loose' THEN {} ELSE wanted \ {pack}

\* The stores as a step of o leaves them.
Rules(list) == [policy.mem EXCEPT !.rules = list]
Sets(sets) == [policy.mem EXCEPT !.sets = sets]
Outcomes(o, step) ==
    LET list == policy.mem.rules
        sets == policy.mem.sets
    IN
    CASE step = "edit" -> {Rules(l) : l \in RuleEdits(list)}
      [] step = "approve" ->
            {Rules(Updated(list, o.arg, [list[i] EXCEPT !.on = TRUE])) :
                i \in {j \in Places(list, o.arg) : j = First(list, o.arg)}}
      [] step = "deny" -> {Rules(RemoveRule(list, o.arg))}
      [] step = "file" -> {Rules(AddRule(list, x)) : x \in AskedRule}
      [] step = "replace" -> {Rules(ReplacePack(list, o.arg))}
      [] step \in {"enable", "disable"} -> {Rules(SetPackEnabled(list, o.arg, step = "enable"))}
      [] step = "remove" -> {Rules(RemovePack(list, o.arg))}
      [] step = "import" -> {Sets(s) : s \in SetEdits(sets)}
      [] step = "merge" -> {Sets(Merged(sets, o.arg))}
      [] step = "subtract" -> {Sets(Subtracted(sets, o.arg))}
      [] step = "withdraw" -> {Sets(Withdrawn(sets, o.arg))}
      [] OTHER -> {}

Saves(p, store) == [policy EXCEPT !.mem = p, !.file = [@ EXCEPT ![store] = p[store]]]
\* A request for a host that is permitted turns that rule off, in the store only.
Overwrites(step, p) ==
    IF step = "file" /\ InForce(p, "rules") # InForce(policy.mem, "rules") THEN {"rules"} ELSE {}

Change(r) ==
    /\ ops[r].plan # <<>>
    /\ LET step == Head(ops[r].plan)
           store == StoreOf(step)
           outcomes == Outcomes(ops[r], step)
       IN \/ \E p \in outcomes :
                /\ Len(p.rules) <= MaxRules
                /\ \/ /\ Continue(r, [ops[r] EXCEPT !.plan = Tail(@),
                                         !.list = IF step \in {"merge", "subtract", "withdraw"}
                                                  THEN @ ELSE p[store]],
                                  Saves(p, store), Overwrites(step, p))
                      /\ UNCHANGED mishaps
                   \/ Fails(r, [policy EXCEPT !.mem = p])
          \/ /\ step = "approve" /\ outcomes = {}
             /\ Continue(r, [ops[r] EXCEPT !.plan = <<>>], policy, {}) /\ UNCHANGED mishaps

\* SetCustomRules or SetRuleSets, with the list the store call returned, with the
\* sets read again, or with those from before.
Serve(r) ==
    /\ ops[r].plan # <<>> /\ Head(ops[r].plan) \in Serving
    /\ LET step == Head(ops[r].plan)
           store == StoreOf(step)
           list == CASE step = "passSets" -> policy.mem.sets
                     [] step = "reserveSets" -> ops[r].prev.sets
                     [] OTHER -> ops[r].list
       IN \/ /\ Continue(r, [ops[r] EXCEPT !.plan = Tail(@)],
                         [policy EXCEPT !.held = [@ EXCEPT ![store] = list]], {})
             /\ UNCHANGED mishaps
          \/ Fails(r, policy)

\* Set(prev) and rollbackRuleSets; an error is not looked at.
Restore(r) ==
    /\ ops[r].plan # <<>> /\ Head(ops[r].plan) \in {"restoreRules", "restoreSets"}
    /\ LET store == StoreOf(Head(ops[r].plan))
           p == [policy.mem EXCEPT ![store] = ops[r].prev[store]]
           rest == [ops[r] EXCEPT !.plan = Tail(@)]
       IN \/ Continue(r, rest, Saves(p, store), {}) /\ UNCHANGED mishaps
          \/ Mishap /\ Continue(r, rest, [policy EXCEPT !.mem = p], {store})

PackStep(r) == Change(r) \/ Serve(r) \/ Restore(r)

Quiet == \A r \in PolicyRequest : ops[r] = Resting
NoPolicy == [rules |-> <<>>, sets |-> <<>>]

\* The daemon starts, also in the middle of requests.
Reload ==
    /\ policy' = [policy EXCEPT !.mem = policy.file, !.held = policy.file]
    /\ ops' = [r \in PolicyRequest |-> Resting]
    /\ loose' = {}
    /\ wanted' = IF loose = {} /\ Quiet THEN wanted ELSE {}
    /\ UNCHANGED mishaps

PackInit ==
    /\ policy = [mem |-> NoPolicy, file |-> NoPolicy, held |-> NoPolicy]
    /\ ops = [r \in PolicyRequest |-> Resting]
    /\ loose = {} /\ wanted = {} /\ mishaps = 0
-----------------------------------------------------------------------------
\* Whenever no request is in flight, the data plane enforces the rules and the
\* rule sets that the stores list and the files would boot into, also after a
\* pack that was refused half-way through; the exceptions are in loose: requests
\* that overlap, a store or rebuild that fails where the handler has nothing to
\* undo, and a client's request for a host that is permitted already
\* (customrules.go: "roll back so the store matches the running plane").
PoliciesAreServed == \A store \in {"rules", "sets"} \ loose : Quiet => Agree(policy, store)

\* Packs share rule sets, each wanting its own axes of them.  A pack that was
\* applied or switched on, and not switched off or deleted since, has its axes
\* in every one of its sets whatever was done to the packs it shares them with
\* (handleApplyPack: "Merge axes when another pack already imported the same
\* tag").
PacksKeepTheirSets ==
    Quiet =>
        \A pack \in wanted : \A tag \in DOMAIN Preset[pack].sets :
            /\ tag \in DOMAIN policy.mem.sets
            /\ policy.mem.sets[tag].on
            /\ Preset[pack].sets[tag] \subseteq policy.mem.sets[tag].role
=============================================================================
