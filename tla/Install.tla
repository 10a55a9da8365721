------------------------------ MODULE Install ------------------------------
(***************************************************************************)
(* `updater-cli install` (host/updater-cli/src/install.rs): the bootloader *)
(* itself is programmed by external tools, according to a target's recipe  *)
(* in install.toml.  A recipe is some pre steps (fuses) and the main tool, *)
(* each a tool and the set of placeholders that occur in its arguments:    *)
(* "image", "port", "other" (an unknown one) and "unclosed".               *)
(*                                                                         *)
(* An order is what the operator asks for and what is on the disk:         *)
(*   readable, schema   install.toml is there, and is a valid one          *)
(*   targets            name -> [pre, tool, args, portArg]                 *)
(*   name, port         the target, and whether --port is given            *)
(*   image              the image path names a file and is valid UTF-8     *)
(***************************************************************************)
EXTENDS Integers, Sequences

CONSTANTS
    Orders,   \* the orders to explore
    Tools,    \* the programmers a recipe may name
    NoTool    \* an empty tool name

(* A step: a tool, and the placeholders of its arguments.                  *)
RecipeStep ==
    [tool : Tools \cup {NoTool}, args : SUBSET {"image", "port", "other", "unclosed"}]

ASSUME OrdersAssumption ==
    \A o \in Orders : \A n \in DOMAIN o.targets :
        /\ o.targets[n].pre \in Seq(RecipeStep)
        /\ [tool |-> o.targets[n].tool, args |-> o.targets[n].args] \in RecipeStep

VARIABLES
    order,     \* the order being carried out
    installed, \* the tools on PATH when the run began
    present,   \* the tools on PATH now
    ipc,       \* "read", "plan", "resolve", "run", "done"
    planned,   \* the invocations: tool, and whether the port is in its argv
    resolved,  \* how many of them have been resolved
    ran,       \* the exit statuses of the tools that ran
    verdict    \* "none", "OK", or why the run failed

installVars == <<order, installed, present, ipc, planned, resolved, ran, verdict>>

InstallInit ==
    /\ order \in Orders
    /\ installed \in SUBSET Tools /\ present = installed
    /\ ipc = "read" /\ planned = <<>> /\ resolved = 0 /\ ran = <<>>
    /\ verdict = "none"

Target == order.targets[order.name]
Steps(t) == Append(t.pre, [tool |-> t.tool, args |-> t.args])

Stop(v) ==
    /\ ipc' = "done" /\ verdict' = v
    /\ UNCHANGED <<order, installed, present, planned, resolved>>

(* read_config, parse_config (which judges every target of the file), the  *)
(* target's lookup and the image check.                                    *)
ConfigSound ==
    /\ order.readable /\ order.schema
    /\ \A n \in DOMAIN order.targets :
          \A i \in DOMAIN Steps(order.targets[n]) :
             Steps(order.targets[n])[i].tool # NoTool

ReadConfig ==
    /\ ipc = "read"
    /\ \/ /\ ~(ConfigSound /\ order.name \in DOMAIN order.targets /\ order.image)
          /\ Stop("config") /\ UNCHANGED ran
       \/ /\ ConfigSound /\ order.name \in DOMAIN order.targets /\ order.image
          /\ ipc' = "plan"
          /\ UNCHANGED <<order, installed, present, planned, resolved, ran, verdict>>

(* expand_one over the arguments of one step.                              *)
Expands(args) ==
    args \cap {"other", "unclosed"} = {} /\ ("port" \in args => order.port)

PortConsumed == \E i \in DOMAIN Steps(Target) : "port" \in Steps(Target)[i].args

(* The port that no template argument took is appended to the main tool's  *)
(* arguments.                                                              *)
Invocations ==
    [i \in DOMAIN Steps(Target) |->
        [tool |-> Steps(Target)[i].tool,
         port |-> \/ "port" \in Steps(Target)[i].args
                  \/ i = Len(Steps(Target)) /\ order.port /\ ~PortConsumed
                     /\ Target.portArg]]

(* plan: every argument expands, and a given port has somewhere to go.     *)
Plans ==
    /\ \A i \in DOMAIN Steps(Target) : Expands(Steps(Target)[i].args)
    /\ order.port => PortConsumed \/ Target.portArg

MakePlan ==
    /\ ipc = "plan"
    /\ \/ ~Plans /\ Stop("template") /\ UNCHANGED ran
       \/ /\ Plans
          /\ planned' = Invocations
          /\ ipc' = "resolve"
          /\ UNCHANGED <<order, installed, present, resolved, ran, verdict>>

(* Faulty variant: only the first tool is looked up in advance.            *)
AllResolvedAfterFirst(n) == n >= 1

AllResolved(n) == n = Len(planned)

(* resolve_tool for the next invocation; all of them before any runs.      *)
Resolve ==
    /\ ipc = "resolve"
    /\ \/ planned[resolved + 1].tool \notin present /\ Stop("missing") /\ UNCHANGED ran
       \/ /\ planned[resolved + 1].tool \in present
          /\ resolved' = resolved + 1
          /\ ipc' = IF AllResolved(resolved') THEN "run" ELSE "resolve"
          /\ UNCHANGED <<order, installed, present, planned, ran, verdict>>

Succeeded(status) == status = 0

(* Command::status: the next tool runs to its end.  A nonzero exit status  *)
(* or a signal ends the run.                                               *)
RunTool(status) ==
    /\ ipc = "run"
    /\ planned[Len(ran) + 1].tool \in present
    /\ ran' = Append(ran, status)
    /\ IF ~Succeeded(status) THEN Stop("tool failed")
       ELSE IF Len(ran') = Len(planned) THEN Stop("OK")
       ELSE UNCHANGED <<order, installed, present, ipc, planned, resolved, verdict>>

(* The tool that was resolved is gone.                                     *)
StartFails ==
    /\ ipc = "run"
    /\ planned[Len(ran) + 1].tool \notin present
    /\ Stop("start") /\ UNCHANGED ran

(* A tool is uninstalled while the run is on.                              *)
ToolVanishes(t) ==
    /\ ipc # "done" /\ t \in present
    /\ present' = present \ {t}
    /\ UNCHANGED <<order, installed, ipc, planned, resolved, ran, verdict>>

RunCli ==
    ReadConfig \/ MakePlan \/ Resolve \/ StartFails \/ \E s \in {0, 1} : RunTool(s)
-----------------------------------------------------------------------------
(* install.rs: "a broken template or missing tool can never leave the      *)
(* target half-programmed after a fuse step".  Once a tool has run, every  *)
(* step of the recipe had expanded, a given port had found its place (no   *)
(* other adapter is programmed by default) and every tool was there at the *)
(* start.  A failed step ends the run: nothing is programmed behind failed *)
(* fuses, and "install OK" means that every step succeeded.                *)
NothingHalfProgrammed ==
    /\ ran # <<>> =>
          /\ Len(planned) = Len(Steps(Target))
          /\ \A i \in DOMAIN Steps(Target) : Expands(Steps(Target)[i].args)
          /\ order.port => \E i \in DOMAIN planned : planned[i].port
          /\ \A i \in DOMAIN planned : planned[i].tool \in installed
          /\ \A i \in 1 .. Len(ran) - 1 : ran[i] = 0
    /\ verdict = "OK" => Len(ran) = Len(planned) /\ \A i \in DOMAIN ran : ran[i] = 0
=============================================================================
