----------------------------- MODULE MCAgentRun -----------------------------
(***************************************************************************)
(* Small instances of AgentRun.  web is a prod host, lab a lab host, far a *)
(* host outside the owner's scope.                                         *)
(***************************************************************************)
EXTENDS AgentRun, TLC

Look  == [text |-> "ls", rules |-> {}, opaque |-> FALSE, segments |-> {"simple"}]
Write == [text |-> "mkdir", rules |-> {}, opaque |-> FALSE, segments |-> {"foreign"}]
Bounce == [text |-> "systemctl restart", rules |-> {Risky}, opaque |-> FALSE,
           segments |-> {"writeSubcommand"}]
Wipe  == [text |-> "mkfs", rules |-> {Critical}, opaque |-> FALSE, segments |-> {"foreign"}]

McAutonomy == [h \in Hosts |-> IF h = "lab" THEN "lab"
                               ELSE IF h = "web" THEN "prod" ELSE "default"]

Exec(i, c, h, intent) ==
  [id |-> i, tool |-> "ssh_exec", known |-> TRUE,
   args |-> [command |-> c, path |-> {}, readMethod |-> FALSE],
   host |-> h, intent |-> intent, hint |-> Caution, plan |-> NoPlan]

WriteFile(i, p, h) ==
  [id |-> i, tool |-> "write_remote_file", known |-> TRUE,
   args |-> [command |-> NoCommand, path |-> p, readMethod |-> FALSE],
   host |-> h, intent |-> Safe, hint |-> Caution, plan |-> NoPlan]

Propose(i, p) ==
  [id |-> i, tool |-> "propose_plan", known |-> TRUE,
   args |-> [command |-> NoCommand, path |-> {}, readMethod |-> FALSE],
   host |-> NoHost, intent |-> Safe, hint |-> Safe, plan |-> p]

Unknown(i) == [Exec(i, Look, NoHost, Safe) EXCEPT !.tool = "teleport", !.known = FALSE]

PlanOne == [ceiling |-> Critical, hosts |-> {}, allow |-> {}]
PlanTwo == [ceiling |-> Caution, hosts |-> {"web", "lab"}, allow |-> {Wipe}]
McPlans == {PlanOne, PlanTwo}

McRequests ==
  {Exec("call_0", Write, NoHost, Safe), Exec("call_0", Wipe, "lab", Safe),
   Exec("call_1", Look, NoHost, Risky), Exec("call_1", Bounce, NoHost, Safe),
   Exec("call_0", Look, "far", Safe), WriteFile("call_1", {"critical"}, NoHost),
   Propose("call_0", PlanOne), Propose("call_0", PlanTwo), Unknown("call_0")}
McEdits == {Look, Wipe}

McJobAllow == {Bounce}
=============================================================================
