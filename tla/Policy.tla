------------------------------- MODULE Policy -------------------------------
(***************************************************************************)
(* The safety policy of agent/policy.py: pure functions that classify an   *)
(* action and decide whether it runs, asks, or is deferred.                *)
(*                                                                         *)
(* A risk level is its rank in LEVELS (0..3).  A command is the record of  *)
(* what the regular expressions see in it; a path is the set of its        *)
(* sensitive classes.  An allow-list is the set of commands that contain   *)
(* one of its entries.                                                     *)
(***************************************************************************)
EXTENDS Naturals

CONSTANTS Texts,  \* command lines, told apart only by identity
          NoText  \* the empty one

ASSUME TextsAssumption == NoText \in Texts

Safe == 0
Caution == 1
Risky == 2
Critical == 3
Levels == Safe .. Critical

AutonomyLevels == {"lab", "default", "prod"}

(* What the classifier distinguishes in one segment of a command line.     *)
Segments == {"lookup", "simple", "readSubcommand",
             "writeSubcommand", "vetoed", "foreign", "empty"}
ReadOnlySegments == {"lookup", "simple", "readSubcommand"}

(* text: identity; rules: the levels whose patterns match; opaque: it has  *)
(* a redirection, a substitution, eval or exec; segments: the kinds of the *)
(* pieces the line splits into.                                            *)
CommandShape == [text : Texts, rules : SUBSET {Caution, Risky, Critical},
                 opaque : BOOLEAN, segments : SUBSET Segments]

NoCommand == [text |-> NoText, rules |-> {}, opaque |-> FALSE, segments |-> {}]

IsReadOnly(cmd) ==
  /\ cmd.segments # {}
  /\ ~cmd.opaque
  /\ cmd.segments \subseteq ReadOnlySegments

ClassifyCommand(cmd) ==
  CASE Critical \in cmd.rules -> Critical
    [] Critical \notin cmd.rules /\ Risky \in cmd.rules -> Risky
    [] cmd.rules \cap {Risky, Critical} = {} ->
         IF Caution \notin cmd.rules /\ IsReadOnly(cmd) THEN Safe ELSE Caution

PathClasses == {"critical", "risky", "secret"}

ClassifyPath(path, write) ==
  IF write
    THEN IF "critical" \in path THEN Critical
         ELSE IF "risky" \in path THEN Risky ELSE Caution
    ELSE IF "secret" \in path THEN Risky ELSE Safe

(* The arguments of a call that its level depends on; readMethod: an HTTP  *)
(* GET, HEAD or OPTIONS.                                                   *)
ArgShape == [command : CommandShape, path : SUBSET PathClasses, readMethod : BOOLEAN]

(* hint is the base risk the tool was registered with. *)
StaticRisk(tool, args, hint) ==
  CASE tool = "ssh_exec"          -> ClassifyCommand(args.command)
    [] tool = "write_remote_file" -> ClassifyPath(args.path, TRUE)
    [] tool = "read_remote_file"  -> ClassifyPath(args.path, FALSE)
    [] tool = "http_request"      -> IF args.readMethod THEN Safe ELSE hint
    [] OTHER                      -> hint

(* The model's declared intent can raise the level, never lower it. *)
Classify(tool, args, intent, hint) ==
  LET static == StaticRisk(tool, args, hint)
  IN  IF static >= intent THEN static ELSE intent

(* TRUE: run; FALSE: defer. *)
UnattendedRuns(risk, ceiling, allow, cmd) ==
  risk <= ceiling \/ cmd \in allow

MaxEnvelopeCeiling == Risky

(* Mutant: a plan gets the ceiling the model asked for. *)
UnclampedCeiling(ceiling) == ceiling

ClampCeiling(ceiling) ==
  IF ceiling <= MaxEnvelopeCeiling THEN ceiling ELSE MaxEnvelopeCeiling

(* A plan that names no host covers every host. *)
EnvelopeCovers(plan, risk, cmd, host) ==
  /\ plan.hosts # {} => host \in plan.hosts
  /\ UnattendedRuns(risk, ClampCeiling(plan.ceiling), plan.allow, cmd)

NeedsConfirmation(risk, autonomy) ==
  CASE autonomy = "lab"  -> risk >= Critical
    [] autonomy = "prod" -> risk >= Caution
    [] OTHER             -> risk >= Risky
=============================================================================
