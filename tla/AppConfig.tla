----------------------------- MODULE AppConfig ------------------------------
(***************************************************************************)
(* The configuration.  main reads its arguments; AppConfig::loadConfig     *)
(* reads the file that was named, or relb.conf and then /etc/relb.conf,    *)
(* line by line, and checks what was read; main takes the first bind out   *)
(* of it with the getters and tells it to a Bind.                          *)
(*                                                                         *)
(* A line is a record of what the parser finds in it: the tag, the number  *)
(* n (atoi), the hosts from and to ("" if there is none, "unknown" if      *)
(* phostbyname has no address for it), and the rest: the first run of a    *)
(* task ("none", "invalid", "past", "future"), what a filter says.         *)
(***************************************************************************)
EXTENDS Integers, Sequences, Lists

CONSTANTS
  Lines,             (* Bound: the lines of a file.                         *)
  Arguments,         (* Bound: the arguments of the program.                *)
  MAX_CONFIG_LINES,
  FaultyFiles        (* The files that may fail while they are read.        *)

ASSUME AppConfigAssumption ==
  /\ MAX_CONFIG_LINES \in Nat \ {0}
  /\ \A l \in Lines : l.n \in Int
  /\ \A args \in Arguments : args \in Seq(STRING)

VARIABLES
  stage,         (* Where main is, until the Bind runs.                     *)
  console,
  configfile,    (* The file, and those that are tried after it.            *)
  bind,
  settings,      (* The admin, retryserver and conperthread.                *)
  text,          (* The lines that were read of the last file.              *)
  running        (* What the Bind was told.                                 *)

configVars == <<stage, console, configfile, bind, settings, text, running>>

Stages == {"arguments", "open", "read", "check", "setup", "ready", "started", "exited"}

Defaults ==
  [admin |-> [enabled |-> FALSE, ip |-> "any", port |-> 8182],
   retryserver |-> 30, conperthread |-> 16]

NoBind == [address |-> <<>>, dst |-> <<>>, filter |-> <<>>, tasks |-> <<>>]

ConfigInit ==
  /\ stage = "arguments" /\ console = FALSE /\ configfile = <<>>
  /\ bind = <<>> /\ settings = Defaults
  /\ text = <<>>
  /\ running = [bind |-> NoBind, settings |-> Defaults]
-----------------------------------------------------------------------------
(* main's arguments.  Each of its tests looks at the argument where the one *)
(* before it stopped, which is the same one if that was not its own.        *)
Is(args, word) == args /= <<>> /\ Head(args) = word

Past(args, word) == IF Is(args, word) /\ Len(args) > 1 THEN Tail(args) ELSE args

ReadArguments ==
  /\ stage = "arguments"
  /\ \E args \in Arguments :
       LET afterServices == Past(Past(args, "uninstallservice"), "installservice")
           afterConsole  == Past(afterServices, "console")
           afterLicense  == Past(afterConsole, "license")
       IN  /\ console' = Is(afterServices, "console")
           /\ configfile' = IF Is(afterLicense, "configfile") /\ Len(afterLicense) > 1
                            THEN <<afterLicense[2]>>
                            ELSE <<"relb.conf", "/etc/relb.conf">>
           /\ stage' = IF \/ Is(args, "uninstallservice")
                          \/ Is(Past(args, "uninstallservice"), "installservice")
                          \/ Is(afterConsole, "license")
                       THEN "exited" ELSE "open"
  /\ UNCHANGED <<bind, settings, text, running>>
-----------------------------------------------------------------------------
(* processConfigLine *)

(* An int becomes an unsigned short. *)
Port(l) == l.n % 65536

Resolves(host) == host \notin {"", "unknown"}

(* An address to listen on; a host without one stands for any. *)
Listens(l, default) ==
  [ip |-> IF l.from = "" THEN default ELSE IF Resolves(l.from) THEN l.from ELSE "any",
   port |-> Port(l)]

(* To the list of the last bind, if there is one. *)
AddToLast(list, item) ==
  bind' = IF bind = <<>> THEN bind
          ELSE [bind EXCEPT ![Len(bind)][list] = Append(@, item)]

BindLine(l) ==
  /\ IF Port(l) = 0 THEN UNCHANGED bind
     ELSE IF l.tag = "alsobind" THEN AddToLast("address", Listens(l, "any"))
     ELSE bind' = Append(bind, [NoBind EXCEPT !.address = <<Listens(l, "any")>>])
  /\ UNCHANGED settings

IsServer(l) == Resolves(l.from) /\ Port(l) /= 0

Destination(l) == [host |-> l.from, port |-> Port(l), rest |-> l.rest]

ServerLine(l) ==
  /\ IF IsServer(l) THEN AddToLast("dst", Destination(l)) ELSE UNCHANGED bind
  /\ UNCHANGED settings

Or(n, default) == IF n = 0 THEN default ELSE n

RetryLine(l) ==
  /\ settings' = [settings EXCEPT !.retryserver = Or(l.n, Defaults.retryserver)]
  /\ UNCHANGED bind

(* Both addresses have to be known; anything but "deny" allows. *)
IsFilter(l) == Resolves(l.from) /\ Resolves(l.to)

Rule(l) == [src |-> l.from, dst |-> l.to, allow |-> l.rest /= "deny"]

FilterLine(l) ==
  /\ IF IsFilter(l) THEN AddToLast("filter", Rule(l)) ELSE UNCHANGED bind
  /\ UNCHANGED settings

AdminLine(l) ==
  /\ IF Port(l) = 0
     THEN UNCHANGED settings
     ELSE LET at == Listens(l, "127.0.0.1")
          IN  settings' = [settings EXCEPT !.admin =
                             [enabled |-> TRUE, ip |-> at.ip, port |-> at.port]]
  /\ UNCHANGED bind

(* An interval has to be positive; a first run makes up for one that is not, *)
(* unless it is past.                                                        *)
IsTask(l) == IF l.rest = "none" THEN l.n > 0
             ELSE l.rest = "future" \/ (l.rest = "past" /\ l.n > 0)

Task(l) == [interval |-> l.n, fixed_time |-> l.rest /= "none"]

TaskLine(l) ==
  /\ IF IsTask(l) THEN AddToLast("tasks", Task(l)) ELSE UNCHANGED bind
  /\ UNCHANGED settings

ConPerThreadLine(l) ==
  /\ settings' = [settings EXCEPT !.conperthread = Or(l.n, Defaults.conperthread)]
  /\ UNCHANGED bind

(* A line with none of the tags is passed over. *)
processConfigLine(l) ==
  \/ l.tag \in {"bind", "alsobind"} /\ BindLine(l)
  \/ l.tag = "server" /\ ServerLine(l)
  \/ l.tag = "retryserver" /\ RetryLine(l)
  \/ l.tag = "filter" /\ FilterLine(l)
  \/ l.tag = "admin" /\ AdminLine(l)
  \/ l.tag = "task" /\ TaskLine(l)
  \/ l.tag = "conperthread" /\ ConPerThreadLine(l)
  \/ l.tag = "comment" /\ UNCHANGED <<bind, settings>>
-----------------------------------------------------------------------------
(* loadConfig, with loadFile for one file after the other. *)

(* Mutation: without cleanBindList. *)
SettingsAreDefault == settings' = Defaults /\ UNCHANGED bind

setDefaultValues == bind' = <<>> /\ settings' = Defaults

(* The file is not there, or could not be read to its end. *)
NotLoaded ==
  /\ setDefaultValues
  /\ configfile' = Tail(configfile)
  /\ stage' = IF Len(configfile) = 1 THEN "exited" ELSE "open"

OpenFile ==
  /\ stage = "open"
  /\ \/ NotLoaded
     \/ setDefaultValues /\ stage' = "read" /\ UNCHANGED configfile
  /\ text' = <<>>
  /\ UNCHANGED <<console, running>>

ReadLine ==
  /\ stage = "read" /\ Len(text) < MAX_CONFIG_LINES
  /\ \E l \in Lines : processConfigLine(l) /\ text' = Append(text, l)
  /\ UNCHANGED <<stage, console, configfile, running>>

ReadFails ==
  /\ stage = "read" /\ Head(configfile) \in FaultyFiles
  /\ NotLoaded
  /\ UNCHANGED <<console, text, running>>

(* The end of the file, or of the lines that are read of it. *)
EndOfFile ==
  /\ stage = "read"
  /\ stage' = "check"
  /\ UNCHANGED <<console, configfile, bind, settings, text, running>>

(* Every bind, the first one and those that will not be used. *)
IsComplete ==
  /\ bind /= <<>>
  /\ \A i \in DOMAIN bind : bind[i].address /= <<>> /\ bind[i].dst /= <<>>

(* Whether the addresses are free is up to other programs. *)
checkConfig ==
  /\ stage = "check"
  /\ \/ stage' = "exited"
     \/ IsComplete /\ stage' = "setup"
  /\ UNCHANGED <<console, configfile, bind, settings, text, running>>
-----------------------------------------------------------------------------
(* What the getters find, of the first bind. *)

(* They are read once before getNext is asked. *)
AtLeast(item, list) == IF list = <<>> THEN <<item>> ELSE list

TheAddresses(b) == AtLeast([ip |-> "any", port |-> 0], b.address)

TheServers(b) == AtLeast([host |-> "void", port |-> 0, rest |-> ""], b.dst)

SetUp ==
  /\ stage = "setup"
  /\ running' = [bind |-> [address |-> TheAddresses(bind[1]), dst |-> TheServers(bind[1]),
                           filter |-> bind[1].filter, tasks |-> bind[1].tasks],
                 settings |-> settings]
  /\ stage' = "ready"
  /\ UNCHANGED <<console, configfile, bind, settings, text>>

ConfigNext ==
  \/ ReadArguments \/ OpenFile \/ ReadLine \/ ReadFails \/ EndOfFile
  \/ checkConfig \/ SetUp
-----------------------------------------------------------------------------
ConfigTypeOK ==
  /\ stage \in Stages
  /\ console \in BOOLEAN
  /\ text \in Seq(Lines) /\ Len(text) <= MAX_CONFIG_LINES
  /\ stage \in {"open", "read"} => configfile /= <<>>

(* The lines of a text that begin a bind. *)
Begins(lines) == {i \in DOMAIN lines : lines[i].tag = "bind" /\ Port(lines[i]) /= 0}

Earliest(indices) == CHOOSE i \in indices : \A j \in indices : i <= j

Latest(indices) == CHOOSE i \in indices : \A j \in indices : i >= j

(* From the first of them to the next one. *)
Section(lines) ==
  LET begin == Earliest(Begins(lines))
      later == {i \in Begins(lines) : i > begin}
  IN  SubSeq(lines, begin, IF later = {} THEN Len(lines) ELSE Earliest(later) - 1)

Values(lines, valid, value) ==
  LET those == Projection(lines, valid)
  IN  [i \in DOMAIN those |-> value[those[i]]]

Written(lines) ==
  [address |-> Values(lines,
                      {l \in Lines : l.tag \in {"bind", "alsobind"} /\ Port(l) /= 0},
                      [l \in Lines |-> Listens(l, "any")]),
   dst     |-> Values(lines, {l \in Lines : l.tag = "server" /\ IsServer(l)},
                      [l \in Lines |-> Destination(l)]),
   filter  |-> Values(lines, {l \in Lines : l.tag = "filter" /\ IsFilter(l)},
                      [l \in Lines |-> Rule(l)]),
   tasks   |-> Values(lines, {l \in Lines : l.tag = "task" /\ IsTask(l)},
                      [l \in Lines |-> Task(l)])]

(* The last line of the tag counts, wherever in the text it is. *)
Setting(lines, tag, default) ==
  LET those == {i \in DOMAIN lines : lines[i].tag = tag}
  IN  IF those = {} THEN default ELSE Or(lines[Latest(those)].n, default)

AdminIsAsked(lines) == \E i \in DOMAIN lines : lines[i].tag = "admin" /\ Port(lines[i]) /= 0

(* The Bind is told what the one file that was loaded says, whatever was    *)
(* read of a file before: the addresses, servers, filters and tasks between *)
(* its first bind line and the next, in their order and without any that    *)
(* was made up, and its last settings (doc/configuration_syntax.md).        *)
(* (Every variable holds a value of its type.)                              *)
ConfiguredAsWritten ==
  /\ ConfigTypeOK
  /\ stage = "ready" =>
    /\ Begins(text) /= {}
    /\ running.bind = Written(Section(text))
    /\ running.settings.admin.enabled <=> AdminIsAsked(text)
    /\ running.settings.retryserver = Setting(text, "retryserver", 30)
    /\ running.settings.conperthread = Setting(text, "conperthread", 16)
=============================================================================
