------------------------------ MODULE Program -------------------------------
(***************************************************************************)
(* main: the configuration is read, a Bind is told of it and started, and  *)
(* destroyed at the end of main's block.                                   *)
(***************************************************************************)
EXTENDS Bind, AppConfig

programVars == <<vars, configVars>>

ProgramInit == Init /\ ConfigInit

Configure == ConfigNext /\ UNCHANGED vars

(* startListening.  Nothing reads the configuration any more: it is         *)
(* forgotten here, so that what follows does not depend on it.              *)
StartBind ==
  /\ stage = "ready"
  /\ StartListening(running.settings.admin.enabled, Len(running.bind.address))
  /\ stage' = "started"
  /\ configfile' = <<>> /\ bind' = <<>> /\ text' = <<>>
  /\ settings' = Defaults
  /\ running' = [bind |-> NoBind, settings |-> Defaults]
  /\ UNCHANGED console

RunBind == Runs /\ UNCHANGED configVars

(* An 'x' is typed in the console. *)
StopFromConsole == console /\ Stop /\ UNCHANGED configVars

(* Without a console main, which is not a service here, has nothing to wait *)
(* for.                                                                     *)
StopWithoutConsole == ~console /\ Stop /\ UNCHANGED configVars

ProgramNext ==
  Configure \/ StartBind \/ RunBind \/ StopFromConsole \/ StopWithoutConsole

ProgramSpec == ProgramInit /\ [][ProgramNext]_programVars

FairProgram == ProgramSpec /\ Fairness
=============================================================================
