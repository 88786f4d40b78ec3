----------------------------- MODULE MCAccounts -----------------------------
(* A small instance of Accounts: two accounts, two requests at a time, a    *)
(* loopback and a remote address, and the groups of requests that meet.     *)
EXTENDS Accounts, TLC

Requests == Permutations(Request)

Plain(op) ==
    [op |-> op, target |-> "ann", password |-> "old", role |-> "client",
     from |-> Local, knowsCode |-> FALSE, generated |-> FALSE, fields |-> {},
     disabled |-> TRUE, proxy |-> TRUE, short |-> FALSE, current |-> "old",
     open |-> TRUE]
For(a, ask) == [ask EXCEPT !.target = a]
Patch(fields) == [Plain("patch") EXCEPT !.fields = fields]

Claim == Plain("bootstrap")
BobClaims == For("bob", Claim)
Remote(knows) == [Claim EXCEPT !.from = "far", !.knowsCode = knows]
AddBob(role) == [Plain("createUser") EXCEPT !.target = "bob", !.role = role]
BobJoins == For("bob", Plain("register"))
NewPassword == [Patch({"password"}) EXCEPT !.password = "new"]

MCTraffics ==
    [claiming |->
        {Claim, BobClaims, Remote(TRUE), Remote(FALSE), BobJoins, AddBob("client"),
         Plain("settings"), For("bob", Plain("deleteUser")), Plain("deleteUser")},
     demoting |->
        {Claim, BobClaims, AddBob("admin"), Patch({"role"}), For("bob", Patch({"role"})),
         Patch({"disabled"}), For("bob", Patch({"disabled"})),
         For("bob", Plain("deleteUser")), Plain("deleteUser")},
     passwords |->
        {[Claim EXCEPT !.generated = TRUE], AddBob("client"), NewPassword,
         Plain("login"), [Plain("login") EXCEPT !.password = "new"],
         For("bob", [NewPassword EXCEPT !.short = TRUE, !.fields = {"password", "disabled"}])},
     tickets |-> {Claim, Plain("mint"), Plain("redeem"), Patch({"disabled"})},
     credentials |->
        {Claim, AddBob("client"), Plain("createKey"), Plain("deleteKey"),
         For("bob", Patch({"proxy"})), For("bob", Patch({"disabled"})),
         For("bob", [Patch({"disabled"}) EXCEPT !.disabled = FALSE]),
         For("bob", Plain("deleteUser"))}]
=============================================================================
