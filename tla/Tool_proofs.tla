----------------------------- MODULE Tool_proofs -----------------------------
(***************************************************************************)
(* A run of the command line tool, for every command line, file, recipe,   *)
(* geometry, poll budget, retry budget and checksum: what may touch the    *)
(* wire, what an install may leave behind, what an upload leaves in the    *)
(* region, and how long a request waits.                                   *)
(***************************************************************************)
EXTENDS Tool, Image_proofs

USE DEF toolVars, hexVars, installVars

(* Every action of a run leaves the command line alone.                    *)
LEMMA CliKept ==
    ASSUME [Next]_vars
    PROVE  cli' = cli
BY DEF Next, Run, Vanishes, Done, Start, Installs, LoadImage, SpecFails, OpenFails,
       Open, Talk, Answered, Refused, AttemptFails, Untouched, vars

(* The command line is one of those explored.                              *)
LEMMA CliExplored == Spec => [](cli \in Clis)
<1>1. Init => cli \in Clis
  BY DEF Init
<1>2. cli \in Clis /\ [Next]_vars => (cli \in Clis)'
  BY CliKept
<1> QED BY <1>1, <1>2, PTL DEF Spec

-----------------------------------------------------------------------------
(* The inputs of the command are sound.                                    *)
InputsSound ==
    /\ cli.cmd # "install"
    /\ cli.cmd = "echo" => EchoSound
    /\ cli.cmd = "flash" =>
          /\ cli.file.readable
          /\ IF cli.file.hex THEN hex = "parsed" /\ code = out
             ELSE code = cli.file.code

(* Inputs are judged before the stage that opens the wire, and are not     *)
(* looked at again behind it.                                              *)
LocalInv ==
    /\ pc = "load" => cli.cmd = "flash"
    /\ pc \in {"open", "talk"} => InputsSound
    /\ opened => InputsSound /\ cli.wired /\ pc \in {"talk", "exit"}

(* No step of the tool opens the port for a run whose error is local.      *)
LEMMA LocalStep ==
    ASSUME LocalInv, [Next]_vars
    PROVE  LocalInv'
<1> USE DEF LocalInv, InputsSound, EchoSound
<1>1. CASE Start
  BY <1>1 DEF Start, Exit, Untouched, OffWire
<1>2. CASE Installs
  BY <1>2 DEF Installs, Exit, OffWire
<1>3. CASE LoadImage
  BY <1>3 DEF LoadImage, Exit, OffWire, HexAccepted, HexEnd, HexLine
<1>4. CASE SpecFails \/ OpenFails
  BY <1>4 DEF SpecFails, OpenFails, Exit, Untouched, OffWire
<1>5. CASE Open
  BY <1>5 DEF Open, Untouched
<1>6. CASE Talk
  BY <1>6 DEF Talk, Answered, Refused, AttemptFails, Retry, Exit, Untouched
<1>7. CASE Vanishes \/ Done \/ UNCHANGED vars
  BY <1>7 DEF Vanishes, Done, vars
<1> QED BY <1>1, <1>2, <1>3, <1>4, <1>5, <1>6, <1>7 DEF Next, Run

(* "a typo in an image path or hex string must never touch the wire": for  *)
(* every command line and every HEX file.                                  *)
THEOREM LocalErrors == Spec => []LocalErrorsStayLocal
<1>1. Init => LocalInv
  BY DEF Init, LocalInv
<1>2. LocalInv => LocalErrorsStayLocal
  BY DEF LocalInv, InputsSound, LocalErrorsStayLocal
<1> QED BY <1>1, <1>2, LocalStep, PTL DEF Spec

-----------------------------------------------------------------------------
(* The plan of an install, ready to run: every step has expanded, and      *)
(* every tool was on PATH when the run began.                              *)
Planned  == order \in Orders /\ order.name \in DOMAIN order.targets
            /\ Plans /\ planned = Invocations
Prepared == Planned /\ \A i \in DOMAIN planned : planned[i].tool \in installed

(* Plan, resolve and run follow one another: no tool has run before the    *)
(* last one is resolved, and only after successes does another one run.    *)
InstallInv ==
    /\ ipc \in {"read", "plan", "resolve", "run"} => order \in Orders /\ verdict = "none"
    /\ ipc = "plan" => order.name \in DOMAIN order.targets
    /\ present \subseteq installed
    /\ ran \in Seq({0, 1})
    /\ ipc \in {"read", "plan", "resolve"} => ran = <<>>
    /\ ipc = "read" => resolved = 0
    /\ ipc = "plan" => resolved = 0
    /\ ipc = "resolve" => /\ Planned /\ resolved \in Nat /\ resolved < Len(planned)
                          /\ \A i \in 1 .. resolved : planned[i].tool \in installed
    /\ ipc = "run" => /\ Prepared /\ Len(ran) < Len(planned)
                      /\ \A i \in DOMAIN ran : ran[i] = 0
    /\ ran # <<>> => Prepared /\ \A i \in 1 .. Len(ran) - 1 : ran[i] = 0
    /\ verdict = "OK" => Len(ran) = Len(planned) /\ \A i \in DOMAIN ran : ran[i] = 0

(* The steps of a recipe are a sequence, and so is a plan: one invocation  *)
(* per step.                                                               *)
LEMMA PlanShape ==
    ASSUME order \in Orders, order.name \in DOMAIN order.targets
    PROVE  /\ Steps(Target) \in Seq(RecipeStep)
           /\ Len(Steps(Target)) \in Nat /\ Len(Steps(Target)) >= 1
           /\ DOMAIN Steps(Target) = 1 .. Len(Steps(Target))
           /\ DOMAIN Invocations = 1 .. Len(Steps(Target))
           /\ Len(Invocations) = Len(Steps(Target))
<1> DEFINE main == [tool |-> Target.tool, args |-> Target.args]
<1>1. Target.pre \in Seq(RecipeStep) /\ main \in RecipeStep
  BY OrdersAssumption DEF Target
<1> HIDE DEF main
<1>2. Steps(Target) = Append(Target.pre, main)
  BY DEF Steps, main
<1>3. /\ Steps(Target) \in Seq(RecipeStep)
      /\ Len(Steps(Target)) \in Nat /\ Len(Steps(Target)) >= 1
      /\ DOMAIN Steps(Target) = 1 .. Len(Steps(Target))
  BY <1>1, <1>2
<1>4. DOMAIN Invocations = 1 .. Len(Steps(Target))
  BY <1>3 DEF Invocations
<1>5. Len(Invocations) = Len(Steps(Target))
  BY <1>3 DEF Invocations
<1> QED BY <1>3, <1>4, <1>5

(* A port that was given is in the arguments of some invocation.           *)
LEMMA PortPlaced ==
    ASSUME Planned, order.port
    PROVE  \E i \in DOMAIN planned : planned[i].port
<1>1. /\ DOMAIN Steps(Target) = 1 .. Len(Steps(Target))
      /\ DOMAIN planned = 1 .. Len(Steps(Target))
      /\ Len(Steps(Target)) \in Nat /\ Len(Steps(Target)) >= 1
  BY PlanShape DEF Planned
<1>2. CASE PortConsumed
  <2>1. PICK i \in DOMAIN Steps(Target) : "port" \in Steps(Target)[i].args
    BY <1>2 DEF PortConsumed
  <2>2. planned[i].port
    BY <2>1 DEF Planned, Invocations
  <2> QED BY <1>1, <2>1, <2>2
<1>3. CASE ~PortConsumed
  <2> DEFINE n == Len(Steps(Target))
  <2>1. Target.portArg /\ n \in DOMAIN Steps(Target)
    BY <1>1, <1>3 DEF Planned, Plans
  <2>2. planned[n].port
    BY <1>3, <2>1 DEF Planned, Invocations
  <2> QED BY <1>1, <2>1, <2>2
<1> QED BY <1>2, <1>3

(* A plan depends on the order alone.                                      *)
LEMMA OrderKept ==
    ASSUME UNCHANGED order
    PROVE  Plans' = Plans /\ Invocations' = Invocations
BY DEF Plans, Invocations, Steps, Target, Expands, PortConsumed

(* The plan of an install is fixed before its first recipe runs.           *)
LEMMA PlanKept ==
    ASSUME UNCHANGED <<order, installed, planned>>
    PROVE  Planned' = Planned /\ Prepared' = Prepared
<1>1. Planned' = Planned
  BY OrderKept DEF Planned
<1> QED BY <1>1 DEF Prepared

(* One step of the runner: a tool starts only after every one is resolved  *)
(* and all before it succeeded.                                            *)
LEMMA RunCliStep ==
    ASSUME InstallInv, RunCli
    PROVE  InstallInv'
<1> USE DEF InstallInv
<1>1. CASE ReadConfig
  BY <1>1 DEF ReadConfig, Stop
<1>2. CASE MakePlan
  <2>1. CASE ~Plans
    BY <1>2, <2>1 DEF MakePlan, Stop
  <2>2. CASE Plans
    <3>1. /\ planned' = Invocations /\ ipc' = "resolve"
          /\ UNCHANGED <<order, installed, present, resolved, ran, verdict>>
      BY <1>2, <2>2 DEF MakePlan
    <3>2. Planned'
      BY <1>2, <2>2, <3>1, OrderKept DEF MakePlan, Planned
    <3>3. resolved' = 0 /\ ran' = <<>> /\ verdict' = "none" /\ order' \in Orders
      BY <1>2, <3>1 DEF MakePlan
    <3>4. Len(planned') >= 1
      BY <1>2, <3>1, PlanShape DEF MakePlan
    <3> QED BY <3>1, <3>2, <3>3, <3>4
  <2> QED BY <2>1, <2>2
<1>3. CASE Resolve
  <2>1. CASE planned[resolved + 1].tool \notin present
    BY <1>3, <2>1 DEF Resolve, Stop
  <2>2. CASE planned[resolved + 1].tool \in present
    <3>1. /\ resolved' = resolved + 1 /\ ipc = "resolve"
          /\ ipc' = IF resolved' = Len(planned) THEN "run" ELSE "resolve"
          /\ UNCHANGED <<order, installed, present, planned, ran, verdict>>
      BY <1>3, <2>2 DEF Resolve, AllResolved
    <3>2. Planned /\ Planned'
      BY <3>1, PlanKept
    <3>3. DOMAIN planned = 1 .. Len(planned) /\ Len(planned) \in Nat
      BY <3>2, PlanShape DEF Planned
    <3>4. resolved \in Nat /\ resolved' \in Nat /\ resolved' <= Len(planned)
      BY <3>1, <3>3
    <3>5. \A i \in 1 .. resolved' : planned'[i].tool \in installed'
      BY <2>2, <3>1, <3>4
    <3>6. CASE resolved' = Len(planned)
      <4>1. Prepared'
        BY <3>1, <3>2, <3>3, <3>5, <3>6 DEF Prepared
      <4>2. ran' = <<>>
        BY <3>1
      <4>3. Len(planned') >= 1
        <5> HIDE DEF InstallInv
        <5>1. planned' = planned /\ resolved' = resolved + 1
          BY <3>1
        <5> QED BY <3>3, <3>4, <3>6, <5>1
      <4>4. Len(<<>>) = 0 /\ DOMAIN <<>> = {}
        OBVIOUS
      <4> QED BY <3>1, <3>6, <4>1, <4>2, <4>3, <4>4
    <3>7. CASE resolved' # Len(planned)
      <4>1. ipc' = "resolve" /\ resolved' < Len(planned') /\ ran' = <<>>
        BY <3>1, <3>3, <3>4, <3>7
      <4> QED BY <3>1, <3>2, <3>4, <3>5, <4>1
    <3> QED BY <3>6, <3>7
  <2> QED BY <2>1, <2>2
<1>4. CASE StartFails
  BY <1>4, PlanKept DEF StartFails, Stop
<1>5. ASSUME NEW st \in {0, 1}, RunTool(st) PROVE InstallInv'
  <2>1. /\ ipc = "run" /\ ran' = Append(ran, st) /\ Prepared
        /\ UNCHANGED <<order, installed, present, planned, resolved>>
    BY <1>5 DEF RunTool, Stop
  <2>2. Prepared'
    BY <2>1, PlanKept
  <2>3. Len(planned) \in Nat /\ Len(ran) \in Nat /\ Len(ran) < Len(planned)
    BY <2>1, PlanShape DEF Prepared, Planned
  <2>4. /\ ran' \in Seq({0, 1}) /\ Len(ran') = Len(ran) + 1 /\ ran' # <<>>
        /\ \A i \in 1 .. Len(ran) : ran'[i] = ran[i]
        /\ ran'[Len(ran) + 1] = st
        /\ DOMAIN ran' = 1 .. Len(ran) + 1 /\ DOMAIN ran = 1 .. Len(ran)
    BY <2>1
  <2>5. \A i \in 1 .. Len(ran') - 1 : ran'[i] = 0
    BY <2>1, <2>3, <2>4
  <2>6. st = 0 => \A i \in DOMAIN ran' : ran'[i] = 0
    BY <2>3, <2>4, <2>5
  <2>7. CASE st # 0
    BY <1>5, <2>1, <2>2, <2>4, <2>5, <2>7 DEF RunTool, Succeeded, Stop
  <2>8. CASE st = 0 /\ Len(ran') = Len(planned)
    BY <1>5, <2>1, <2>2, <2>4, <2>5, <2>6, <2>8 DEF RunTool, Succeeded, Stop
  <2>9. CASE st = 0 /\ Len(ran') # Len(planned)
    <3>1. UNCHANGED <<ipc, verdict>> /\ Len(ran') < Len(planned)
      BY <1>5, <2>3, <2>4, <2>9 DEF RunTool, Succeeded
    <3> QED BY <2>1, <2>2, <2>4, <2>5, <2>6, <2>9, <3>1
  <2> QED BY <2>7, <2>8, <2>9
<1> QED BY <1>1, <1>2, <1>3, <1>4, <1>5 DEF RunCli

(* The invariant over every step, tools that vanish from PATH in mid-run   *)
(* included.                                                               *)
LEMMA InstallStep ==
    ASSUME InstallInv, [Next]_vars
    PROVE  InstallInv'
<1>1. CASE Installs
  BY <1>1, RunCliStep DEF Installs
<1>2. CASE Vanishes
  <2>1. /\ UNCHANGED <<order, installed, ipc, planned, resolved, ran, verdict>>
        /\ present' \subseteq present
    BY <1>2 DEF Vanishes, ToolVanishes
  <2> QED BY <2>1, PlanKept DEF InstallInv
<1>3. CASE UNCHANGED installVars
  BY <1>3, PlanKept DEF InstallInv
<1>4. CASE Start \/ LoadImage \/ SpecFails \/ OpenFails \/ Open \/ Talk \/ Done
           \/ UNCHANGED vars
  BY <1>3, <1>4 DEF Start, LoadImage, SpecFails, OpenFails, Open, Talk, Answered,
                    Refused, AttemptFails, Untouched, Done, vars
<1> QED BY <1>1, <1>2, <1>4 DEF Next, Run

(* "a broken template or missing tool can never leave the target           *)
(* half-programmed after a fuse step": for every install.toml, order and   *)
(* PATH, tools that vanish meanwhile and tools that fail.                  *)
THEOREM NeverHalfProgrammed == Spec => []NothingHalfProgrammed
<1>1. Init => InstallInv
  <2> SUFFICES ASSUME Init PROVE InstallInv
    OBVIOUS
  <2>1. ran = <<>> /\ verdict = "none" /\ present \subseteq installed
        /\ (ipc = "done" \/ (ipc = "read" /\ resolved = 0 /\ order \in Orders))
    BY DEF Init, InstallInit
  <2>2. <<>> \in Seq({0, 1})
    OBVIOUS
  <2> QED BY <2>1, <2>2 DEF InstallInv
<1>2. InstallInv => NothingHalfProgrammed
  <2> SUFFICES ASSUME InstallInv, ran # <<>>
               PROVE  /\ Len(planned) = Len(Steps(Target))
                      /\ \A i \in DOMAIN Steps(Target) : Expands(Steps(Target)[i].args)
                      /\ order.port => \E i \in DOMAIN planned : planned[i].port
                      /\ \A i \in DOMAIN planned : planned[i].tool \in installed
    BY DEF InstallInv, NothingHalfProgrammed
  <2>1. Prepared /\ Planned
    BY DEF InstallInv, Prepared
  <2> QED BY <2>1, PlanShape, PortPlaced DEF Prepared, Planned, Plans
<1> QED BY <1>1, <1>2, InstallStep, PTL DEF Spec

-----------------------------------------------------------------------------
(* What a data record leaves of the binary is words.                       *)
LEMMA PlaceType ==
    ASSUME out \in Seq(Word), NEW l, l.addr \in Nat, l.data \in Seq(Word)
    PROVE  Place(l) \in Seq(Word)
<1> DEFINE n == IF Len(out) < End(l) THEN End(l) ELSE Len(out)
<1>1. n \in Nat /\ End(l) \in Nat /\ Len(l.data) \in Nat /\ Len(out) \in Nat
  BY DEF End
<1>2. ASSUME NEW i \in 1 .. n
      PROVE  (IF i \in l.addr + 1 .. End(l) THEN l.data[i - l.addr]
              ELSE IF i <= Len(out) THEN out[i] ELSE Blank) \in Word
  <2>1. CASE i \in l.addr + 1 .. End(l)
    <3>1. i - l.addr \in 1 .. Len(l.data)
      BY <1>1, <2>1 DEF End
    <3> QED BY <2>1, <3>1
  <2>2. CASE i \notin l.addr + 1 .. End(l)
    BY <1>1, <2>2, WordAssumption DEF Word
  <2> QED BY <2>1, <2>2
<1>3. Laid(l, n) \in [1 .. n -> Word]
  BY <1>2 DEF Laid
<1> QED BY <1>1, <1>3 DEF Place

(* The binary, as it grows and as it is loaded, is words.                  *)
CodeType == cli \in Clis /\ out \in Seq(Word) /\ code \in Seq(Word)

(* The binary that is flashed is a sequence of words, from a file of       *)
(* either format.                                                          *)
LEMMA CodeTypeStep ==
    ASSUME CodeType, [Next]_vars
    PROVE  CodeType'
<1> USE DEF CodeType
<1>1. cli' = cli
  BY CliKept
<1>2. CASE LoadImage
  <2>1. out' \in Seq(Word)
    <3>1. ASSUME NEW l \in Lines, HexLine(l) PROVE out' \in Seq(Word)
      BY <3>1, LinesAssumption, PlaceType DEF HexLine
    <3> QED BY <1>2, <3>1 DEF LoadImage, HexEnd
  <2>2. code' \in {code, out, cli.file.code}
    BY <1>2 DEF LoadImage
  <2>3. cli.file.code \in Seq(Word)
    BY ClisAssumption
  <2> QED BY <1>1, <2>1, <2>2, <2>3
<1>3. CASE UNCHANGED <<out, code>>
  BY <1>1, <1>3
<1>4. CASE Start \/ Installs \/ SpecFails \/ OpenFails \/ Open \/ Talk \/ Vanishes
           \/ Done \/ UNCHANGED vars
  BY <1>3, <1>4 DEF Start, Installs, SpecFails, OpenFails, Open, Talk, Answered,
                    Refused, AttemptFails, Untouched, Vanishes, Done, vars
<1> QED BY <1>2, <1>4 DEF Next, Run

(* The type of the binary, in every reachable state.                       *)
LEMMA CodeTypeCorrect == Spec => []CodeType
<1>1. Init => CodeType
  <2>1. <<>> \in Seq(Word)
    OBVIOUS
  <2> QED BY <2>1 DEF Init, HexInit, CodeType
<1> QED BY <1>1, CodeTypeStep, PTL DEF Spec

(* Where an upload stands: the region is untouched until the ERASE_APP     *)
(* that is answered; then the pages behind the cursor hold the image, the  *)
(* others are blank, and the footer page is among the blank ones.          *)
UploadInv ==
    cli.cmd = "flash" =>
    /\ ask \in {"none", "SIZE", "INFO", "ERASE", "WRITE", "VERIFY"}
    /\ ask # "none" => pc \in {"talk", "exit"}
    /\ pc = "talk" => ask # "none"
    /\ ask \in {"none", "SIZE", "INFO", "ERASE"} => region = OldRegion /\ cursor = 0
    /\ ask \in {"INFO", "ERASE", "WRITE", "VERIFY"} => Fits(code)
    /\ ask = "WRITE" =>
         /\ cursor \in Nat /\ cursor <= FooterPage
         /\ region \in [Pages -> Page]
         /\ \A q \in Pages : region[q] = IF q < cursor THEN PageInto(code, q)
                                         ELSE BlankPage
    /\ ask = "VERIFY" => region = ImageOf(code)

(* One page: the next that must be written is programmed over a blank one, *)
(* and the ones skipped on the way are blank in the image too.             *)
LEMMA PageWritten ==
    ASSUME Payload(code), cursor \in Nat, cursor <= FooterPage,
           region \in [Pages -> Page],
           \A q \in Pages : region[q] = IF q < cursor THEN PageInto(code, q)
                                        ELSE BlankPage,
           ask = "WRITE"
    PROVE  LET n == NextPage(code, cursor)
           IN /\ n \in Pages /\ n \in Nat
              /\ Carried \in [Pages -> Page]
              /\ \A q \in Pages : Carried[q] = IF q < n + 1 THEN PageInto(code, q)
                                               ELSE BlankPage
<1> DEFINE n == NextPage(code, cursor)
<1>1. n \in Pages
  BY FooterPageLast
<1>2. n >= cursor /\ \A q \in Pages : q >= cursor /\ q < n => ~MustWrite(code, q)
  BY <1>1, NextPageIs, GeometryAssumption DEF Pages
<1>3. n \in Nat /\ \A q \in Pages : q \in Nat
  BY <1>1, GeometryAssumption DEF Pages
<1>4. Carried = [region EXCEPT ![n] = Programmed(region[n], PageInto(code, n))]
  BY DEF Carried
<1> HIDE DEF n
<1>5. region[n] = BlankPage /\ PageInto(code, n) \in Page
  BY <1>1, <1>2, <1>3, PageIntoType
<1>6. Programmed(BlankPage, PageInto(code, n)) = PageInto(code, n)
  <2>1. ASSUME NEW w \in Word PROVE NorAnd(Blank, w) = w
    BY WordAssumption, NorAssumption DEF Word
  <2> QED BY <1>5, <2>1 DEF Programmed, BlankPage, Page
<1>7. Carried = [region EXCEPT ![n] = PageInto(code, n)]
  BY <1>4, <1>5, <1>6
<1>8. \A q \in Pages : q >= cursor /\ q < n => PageInto(code, q) = BlankPage
  BY <1>2, SkippedIsBlank
<1>9. ASSUME NEW q \in Pages
      PROVE  Carried[q] = IF q < n + 1 THEN PageInto(code, q) ELSE BlankPage
  <2>1. CASE q = n
    BY <1>3, <1>7, <2>1
  <2>2. CASE q < n
    BY <1>2, <1>3, <1>7, <1>8, <2>2
  <2>3. CASE q > n
    BY <1>2, <1>3, <1>7, <2>3
  <2> QED BY <1>3, <2>1, <2>2, <2>3
<1>10. Carried \in [Pages -> Page]
  BY <1>1, <1>5, <1>7
<1> QED BY <1>1, <1>3, <1>9, <1>10 DEF n

(* An answered exchange moves the upload on by one exchange and the region *)
(* with it.                                                                *)
LEMMA AnsweredUpload ==
    ASSUME \A s \in Seq(Word) : Crc(s) \in Word,
           CodeType, UploadInv, Answered, cli.cmd = "flash"
    PROVE  UploadInv'
<1>0. UNCHANGED <<cli, code>> /\ pc = "talk" /\ pc' \in {"talk", "exit"} /\ region' = Carried
  BY DEF Answered, Untouched, Exit
<1>1. CASE ask \in {"SIZE", "INFO", "VERIFY"}
  <2>1. UNCHANGED <<region, cursor>>
    BY <1>0, <1>1 DEF Answered, Carried
  <2> QED BY <1>0, <1>1, <2>1 DEF UploadInv, Answered, Follows, LastAsk, Exit
<1>2. CASE ask = "ERASE"
  <2>1. Payload(code)
    BY <1>2 DEF UploadInv, CodeType, Payload
  <2>2. /\ ask' = "WRITE" /\ cursor' = 0 /\ region' = BlankFlash
    BY <1>0, <1>2 DEF UploadInv, Answered, Carried, LastAsk, Follows
  <2>3. 0 <= FooterPage /\ \A q \in Pages : ~(q < 0)
    BY <2>1, Geometry, GeometryAssumption DEF Pages
  <2>4. BlankPage \in Page
    BY WordAssumption DEF BlankPage, Page, Word
  <2> QED BY <1>0, <1>2, <2>2, <2>3, <2>4 DEF UploadInv, BlankFlash
<1>3. CASE ask = "WRITE"
  <2> DEFINE n == NextPage(code, cursor)
  <2>1. Payload(code)
    BY <1>3 DEF UploadInv, CodeType, Payload
  <2>2. /\ n \in Pages /\ n \in Nat
        /\ region' \in [Pages -> Page]
        /\ \A q \in Pages : region'[q] = IF q < n + 1 THEN PageInto(code, q)
                                         ELSE BlankPage
    BY <1>0, <1>3, <2>1, PageWritten DEF UploadInv
  <2>3. cursor' = n + 1
    BY <1>3 DEF Answered
  <2>4. ask' = IF NextPage(code, n + 1) = AppPages THEN "VERIFY" ELSE "WRITE"
    BY <1>0, <1>3, <2>3 DEF Answered, LastAsk, Follows
  <2> HIDE DEF n
  <2>5. AppPages \notin Pages /\ FooterPage \in Int /\ \A q \in Pages : q \in Nat
    BY <2>1, Geometry, GeometryAssumption DEF Pages
  <2>6. CASE NextPage(code, n + 1) = AppPages
    <3>1. \A q \in Pages : region'[q] = PageInto(code, q)
      <4>1. \A q \in Pages : q >= n + 1 => ~MustWrite(code, q)
        BY <2>2, <2>5, <2>6, NextPageIs
      <4> QED BY <2>1, <2>2, <2>5, <4>1, SkippedIsBlank
    <3>2. region' = ImageOf(code)
      BY <2>2, <3>1 DEF ImageOf
    <3> QED BY <1>0, <1>3, <2>4, <2>6, <3>2 DEF UploadInv
  <2>7. CASE NextPage(code, n + 1) # AppPages
    <3>1. n + 1 <= FooterPage
      BY <2>1, <2>2, <2>5, <2>7, FooterPageLast
    <3> QED BY <1>0, <1>3, <2>2, <2>3, <2>4, <2>7, <3>1 DEF UploadInv
  <2> QED BY <2>6, <2>7
<1> QED BY <1>0, <1>1, <1>2, <1>3 DEF UploadInv

(* The upload invariant, over every step of the tool: failed attempts and  *)
(* refusals leave the region as it was.                                    *)
LEMMA UploadStep ==
    ASSUME \A s \in Seq(Word) : Crc(s) \in Word,
           CodeType, UploadInv, [Next]_vars
    PROVE  UploadInv'
<1> SUFFICES ASSUME cli.cmd = "flash" PROVE UploadInv'
  BY CliKept DEF UploadInv
<1>1. CASE Answered
  BY <1>1, AnsweredUpload
<1>2. ASSUME UNCHANGED <<cli, ask, region, cursor>>,
             ask # "none" => code' = code /\ pc' \in {"talk", "exit"},
             pc' = "talk" => pc = "talk"
      PROVE  UploadInv'
  BY <1>2 DEF UploadInv
<1>3. CASE Refused
  BY <1>2, <1>3 DEF Refused, Exit, Untouched
<1>4. CASE (\E s \in BOOLEAN : AttemptFails(s))
  BY <1>2, <1>4 DEF AttemptFails, Retry, Exit, Untouched
<1>5. CASE Start \/ SpecFails \/ OpenFails
  BY <1>2, <1>5 DEF Start, SpecFails, OpenFails, Exit, Untouched, OffWire, UploadInv
<1>6. CASE LoadImage
  BY <1>2, <1>6 DEF LoadImage, Exit, OffWire, UploadInv
<1>7. CASE Installs \/ Vanishes
  BY <1>2, <1>7 DEF Installs, Vanishes, Exit, OffWire, UploadInv
<1>8. CASE Open
  BY <1>8 DEF Open, Untouched, FirstAsk, UploadInv
<1>9. CASE Done \/ UNCHANGED vars
  BY <1>2, <1>9 DEF Done, vars, UploadInv
<1> QED BY <1>1, <1>3, <1>4, <1>5, <1>6, <1>7, <1>8, <1>9 DEF Next, Run, Talk

(* An upload boots once it is complete and never before, for every binary, *)
(* geometry and 32-bit checksum: the footer page is written last, and the  *)
(* pages that are skipped are blank in the image too.                      *)
THEOREM UploadBoots ==
    ASSUME \A s \in Seq(Word) : Crc(s) \in Word
    PROVE  Spec => []BootsOnceComplete
<1>1. Init => UploadInv
  BY DEF Init, UploadInv
<1>2. CodeType /\ UploadInv => BootsOnceComplete
  <2> SUFFICES ASSUME CodeType, UploadInv, cli.cmd = "flash" PROVE BootsOnceComplete
    BY DEF BootsOnceComplete
  <2>1. CASE ask = "VERIFY"
    BY <2>1, ImageBoots DEF BootsOnceComplete, UploadInv, CodeType, Payload
  <2>2. CASE ask = "WRITE"
    <3>1. Payload(code) /\ FooterPage \in Pages
      BY <2>2, Geometry DEF UploadInv, CodeType, Payload
    <3>2. region[FooterPage] = BlankPage
      BY <2>2, <3>1, GeometryAssumption DEF UploadInv, Pages
    <3> QED BY <2>2, <3>1, <3>2, BlankFooterRefused DEF BootsOnceComplete
  <2>3. CASE ask \in {"none", "SIZE", "INFO", "ERASE"}
    BY <2>3, OldRegionAssumption DEF BootsOnceComplete, UploadInv
  <2> QED BY <2>1, <2>2, <2>3 DEF UploadInv
<1> QED BY <1>1, <1>2, UploadStep, CodeTypeCorrect, PTL DEF Spec

-----------------------------------------------------------------------------
(* Cell a holds what the last record that covers it put there, or, covered *)
(* by none, is erased.                                                     *)
Holds(a) ==
    \/ Covering(a) = {} /\ out[a + 1] = Blank
    \/ \E i \in Covering(a) :
          /\ \A j \in Covering(a) : j <= i
          /\ out[a + 1] = read[i].data[a - read[i].addr + 1]

(* What has been read is sound so far, and the binary is what it says.     *)
HexInv ==
    /\ read \in Seq(Lines)
    /\ out \in Seq(Word)
    /\ hex = "parsed" => sawEof
    /\ hex # "rejected" =>
         /\ \A i \in Records : ~Malformed(read[i]) /\ read[i].type \in {0, 1, 3, 5}
         /\ sawEof <=> \E e \in Records : read[e].type = 1
         /\ \A e \in Records : read[e].type = 1 => \A i \in Records : i <= e
         /\ \A i \in Data : End(read[i]) <= Len(out)
         /\ Len(out) = 0 \/ \E i \in Data : End(read[i]) = Len(out)
         /\ \A a \in 0 .. Len(out) - 1 : Holds(a)

(* A line read is one more line, behind the others.                        *)
LEMMA LineAppended ==
    ASSUME HexInv, NEW l \in Lines, read' = Append(read, l)
    PROVE  LET n == Len(read) + 1
           IN /\ n \in Nat /\ read' \in Seq(Lines) /\ read'[n] = l
              /\ \A i \in DOMAIN read : i \in Nat /\ i < n /\ read'[i] = read[i]
              /\ Records' = IF l.blank THEN Records ELSE Records \cup {n}
              /\ Data' = IF l.blank \/ l.type # 0 THEN Data ELSE Data \cup {n}
<1> DEFINE n == Len(read) + 1
<1>1. /\ n \in Nat /\ read' \in Seq(Lines) /\ read'[n] = l
      /\ \A i \in DOMAIN read : i \in Nat /\ i < n /\ read'[i] = read[i]
      /\ DOMAIN read' = DOMAIN read \cup {n} /\ n \notin DOMAIN read
  BY DEF HexInv
<1> HIDE DEF n
<1>2. Records' = IF l.blank THEN Records ELSE Records \cup {n}
  BY <1>1 DEF Records
<1>3. Data' = IF l.blank \/ l.type # 0 THEN Data ELSE Data \cup {n}
  BY <1>1, <1>2 DEF Data, Records
<1> QED BY <1>1, <1>2, <1>3 DEF n

(* A line that is not data leaves every cell what it was.                  *)
LEMMA HoldsKept ==
    ASSUME NEW a, out' = out, Data' = Data, \A i \in Data : read'[i] = read[i]
    PROVE  Holds(a)' = Holds(a)
<1>1. Covering(a)' = Covering(a)
  BY DEF Covering, End
<1>2. \A i \in Covering(a) : read'[i] = read[i]
  BY DEF Covering
<1> QED BY <1>1, <1>2 DEF Holds

(* A data record wins over the ones before it, and fills the gap in front  *)
(* of it with erased cells.                                                *)
LEMMA DataLine ==
    ASSUME HexInv, hex = "reading", NEW l \in Lines, ~l.blank, l.type = 0,
           read' = Append(read, l), out' = Place(l)
    PROVE  /\ \A i \in Data' : End(read'[i]) <= Len(out')
           /\ Len(out') = 0 \/ \E i \in Data' : End(read'[i]) = Len(out')
           /\ \A a \in 0 .. Len(out') - 1 : Holds(a)'
<1> DEFINE n == Len(read) + 1
           m == IF Len(out) < End(l) THEN End(l) ELSE Len(out)
<1>1. /\ n \in Nat /\ read'[n] = l
      /\ \A i \in DOMAIN read : i \in Nat /\ i < n /\ read'[i] = read[i]
      /\ Data' = Data \cup {n}
  BY LineAppended
<1>2. Data \subseteq DOMAIN read
  BY DEF Data, Records
<1>3. l.addr \in Nat /\ l.data \in Seq(Word) /\ Len(l.data) \in Nat
      /\ End(l) \in Nat /\ End(l) = l.addr + Len(l.data)
  BY LinesAssumption DEF End
<1>4. out \in Seq(Word) /\ Len(out) \in Nat
  BY DEF HexInv
<1>5. m \in Nat /\ m >= End(l) /\ m >= Len(out) /\ (m = End(l) \/ m = Len(out))
  BY <1>3, <1>4
<1>6. out' = [i \in 1 .. m |-> IF i \in l.addr + 1 .. End(l) THEN l.data[i - l.addr]
                               ELSE IF i <= Len(out) THEN out[i] ELSE Blank]
  BY DEF Place, Laid
<1> HIDE DEF n, m
<1>7. Len(out') = m
  BY <1>5, <1>6
<1>8. \A i \in Data : /\ read[i].addr \in Nat /\ End(read[i]) \in Nat
                      /\ End(read[i]) <= Len(out) /\ End(read'[i]) = End(read[i])
  <2> SUFFICES ASSUME NEW i \in Data
               PROVE  /\ read[i].addr \in Nat /\ End(read[i]) \in Nat
                      /\ End(read[i]) <= Len(out) /\ End(read'[i]) = End(read[i])
    OBVIOUS
  <2>1. read[i] \in Lines /\ ~read[i].blank /\ read'[i] = read[i]
    BY <1>1, <1>2 DEF HexInv, Data, Records
  <2>2. read[i].addr \in Nat /\ read[i].data \in Seq(Word)
    BY <2>1, LinesAssumption
  <2>3. End(read[i]) \in Nat /\ End(read'[i]) = End(read[i])
    BY <2>1, <2>2 DEF End
  <2>4. End(read[i]) <= Len(out)
    BY DEF HexInv
  <2> QED BY <2>2, <2>3, <2>4
<1>9. \A i \in Data' : End(read'[i]) <= Len(out')
  <2>1. \A i \in Data : End(read'[i]) <= Len(out')
    <3> TAKE i \in Data
    <3>1. End(read[i]) \in Nat /\ End(read[i]) <= Len(out) /\ End(read'[i]) = End(read[i])
      BY <1>8
    <3>2. End(read[i]) <= m
      BY <1>4, <1>5, <3>1
    <3> QED BY <1>7, <3>1, <3>2
  <2>2. End(read'[n]) <= Len(out')
    BY <1>1, <1>5, <1>7
  <2> QED BY <1>1, <2>1, <2>2
<1>10. Len(out') = 0 \/ \E i \in Data' : End(read'[i]) = Len(out')
  <2>1. CASE m = End(l)
    BY <1>1, <1>7, <2>1
  <2>2. CASE m = Len(out)
    BY <1>1, <1>7, <1>8, <2>2 DEF HexInv
  <2> QED BY <1>5, <2>1, <2>2
<1>11. ASSUME NEW a \in 0 .. Len(out') - 1
       PROVE  Holds(a)'
  <2>1. /\ a \in Nat /\ a + 1 \in 1 .. m
        /\ out'[a + 1] = IF a + 1 \in l.addr + 1 .. End(l) THEN l.data[(a + 1) - l.addr]
                         ELSE IF a + 1 <= Len(out) THEN out[a + 1] ELSE Blank
    BY <1>5, <1>6, <1>7
  <2>2. \A i \in Data : a \in read'[i].addr .. End(read'[i]) - 1
                         <=> a \in read[i].addr .. End(read[i]) - 1
    BY <1>1, <1>2
  <2>3. CASE a \in l.addr .. End(l) - 1
    <3>1. n \in Covering(a)' /\ \A j \in Covering(a)' : j <= n
      <4>1. n \in Data' /\ a \in read'[n].addr .. End(read'[n]) - 1
        BY <1>1, <2>3
      <4>2. \A j \in Data' : j <= n
        BY <1>1, <1>2
      <4> QED BY <4>1, <4>2 DEF Covering, End
    <3>2. a + 1 \in l.addr + 1 .. End(l) /\ (a + 1) - l.addr = a - l.addr + 1
      <4> DEFINE b == l.addr
                 c == End(l)
      <4>1. a \in Nat /\ b \in Nat /\ c \in Nat /\ a \in b .. c - 1
        BY <1>3, <2>1, <2>3
      <4> HIDE DEF b, c
      <4>2. a + 1 \in b + 1 .. c /\ (a + 1) - b = a - b + 1
        BY <4>1
      <4> QED BY <4>2 DEF b, c
    <3>3. out'[a + 1] = read'[n].data[a - read'[n].addr + 1]
      BY <1>1, <2>1, <3>2
    <3> QED BY <3>1, <3>3 DEF Holds
  <2>4. CASE a \notin l.addr .. End(l) - 1
    <3>1. Covering(a)' = Covering(a)
      BY <1>1, <2>2, <2>4 DEF Covering
    <3>2. a + 1 \notin l.addr + 1 .. End(l)
      BY <1>3, <2>1, <2>4
    <3>3. CASE a + 1 <= Len(out)
      <4>1. Holds(a)
        BY <1>4, <2>1, <3>3 DEF HexInv
      <4>2. out'[a + 1] = out[a + 1]
        BY <2>1, <3>2, <3>3
      <4>3. \A i \in Covering(a) : read'[i] = read[i]
        BY <1>1, <1>2 DEF Covering
      <4> QED BY <3>1, <4>1, <4>2, <4>3 DEF Holds
    <3>4. CASE ~(a + 1 <= Len(out))
      <4>1. Covering(a) = {}
        BY <1>4, <1>8, <2>1, <3>4 DEF Covering
      <4> QED BY <2>1, <3>1, <3>2, <3>4, <4>1 DEF Holds
    <3> QED BY <3>3, <3>4
  <2> QED BY <2>3, <2>4
<1> QED BY <1>9, <1>10, <1>11

(* One line of the file keeps the invariant, whatever the line is.         *)
LEMMA HexLineStep ==
    ASSUME HexInv, NEW l \in Lines, HexLine(l)
    PROVE  HexInv'
<1> DEFINE n == Len(read) + 1
<1>1. /\ n \in Nat /\ read' \in Seq(Lines) /\ read'[n] = l
      /\ \A i \in DOMAIN read : i \in Nat /\ i < n /\ read'[i] = read[i]
      /\ Records' = IF l.blank THEN Records ELSE Records \cup {n}
      /\ Data' = IF l.blank \/ l.type # 0 THEN Data ELSE Data \cup {n}
      /\ hex = "reading"
  BY LineAppended DEF HexLine
<1>2. Records \subseteq DOMAIN read /\ Data \subseteq Records
  BY DEF Records, Data
<1> HIDE DEF n
<1>3. \A i \in Records : read'[i] = read[i] /\ i \in Nat /\ i < n
  BY <1>1, <1>2
<1>4. ASSUME out' = out, Data' = Data
      PROVE  /\ \A i \in Data' : End(read'[i]) <= Len(out')
             /\ Len(out') = 0 \/ \E i \in Data' : End(read'[i]) = Len(out')
             /\ \A a \in 0 .. Len(out') - 1 : Holds(a)'
  <2>1. \A i \in Data : read'[i] = read[i]
    BY <1>2, <1>3
  <2>2. \A a \in 0 .. Len(out) - 1 : Holds(a)'
    BY <1>1, <1>4, <2>1, HoldsKept DEF HexInv
  <2> QED BY <1>1, <1>4, <2>1, <2>2 DEF HexInv
<1>5. CASE l.blank
  <2>1. UNCHANGED <<out, sawEof, hex>> /\ Records' = Records /\ Data' = Data
    BY <1>1, <1>5 DEF HexLine
  <2>2. \A i \in Records : Malformed(read'[i]) = Malformed(read[i])
    BY <1>3
  <2> QED BY <1>1, <1>3, <1>4, <2>1, <2>2 DEF HexInv
<1>6. CASE hex' = "rejected"
  BY <1>1, <1>6 DEF HexInv, HexLine
<1>7. CASE ~l.blank /\ hex' # "rejected"
  <2>1. /\ ~sawEof /\ ~Malformed(l) /\ l.type \in {0, 1, 3, 5}
        /\ out' = IF l.type = 0 THEN Place(l) ELSE out
        /\ sawEof' = (l.type = 1) /\ hex' = hex /\ read' = Append(read, l)
    BY <1>7 DEF HexLine
  <2>2. Records' = Records \cup {n}
    BY <1>1, <1>7
  <2>3. /\ \A i \in Data' : End(read'[i]) <= Len(out')
        /\ Len(out') = 0 \/ \E i \in Data' : End(read'[i]) = Len(out')
        /\ \A a \in 0 .. Len(out') - 1 : Holds(a)'
    <3>1. CASE l.type = 0
      BY <1>1, <1>7, <2>1, <3>1, DataLine
    <3>2. CASE l.type # 0
      BY <1>1, <1>4, <2>1, <3>2
    <3> QED BY <3>1, <3>2
  <2>4. out' \in Seq(Word)
    BY <1>7, <2>1, LinesAssumption, PlaceType DEF HexInv
  <2>5. \A i \in Records' : ~Malformed(read'[i]) /\ read'[i].type \in {0, 1, 3, 5}
    BY <1>1, <1>3, <2>1, <2>2 DEF HexInv
  <2>6. \A i \in Records : read'[i].type # 1
    BY <1>1, <1>3, <2>1 DEF HexInv
  <2>7. sawEof' <=> \E e \in Records' : read'[e].type = 1
    BY <1>1, <2>1, <2>2, <2>6
  <2>8. \A e \in Records' : read'[e].type = 1 => \A i \in Records' : i <= e
    BY <1>1, <1>3, <2>2, <2>6
  <2> QED BY <1>1, <2>1, <2>3, <2>4, <2>5, <2>7, <2>8 DEF HexInv
<1> QED BY <1>5, <1>6, <1>7

(* Only the parser touches what was read and what came out of it.          *)
LEMMA HexStep ==
    ASSUME HexInv, [Next]_vars
    PROVE  HexInv'
<1>1. ASSUME NEW l \in Lines, HexLine(l) PROVE HexInv'
  BY <1>1, HexLineStep
<1>2. ASSUME UNCHANGED <<read, out, sawEof>>,
             hex' = hex \/ (hex = "reading" /\ (hex' = "rejected" \/ (hex' = "parsed" /\ sawEof)))
      PROVE  HexInv'
  <2>1. Records' = Records /\ Data' = Data
    BY <1>2 DEF Records, Data
  <2>2. \A a : Holds(a)' = Holds(a)
    BY <1>2, <2>1, HoldsKept
  <2> QED BY <1>2, <2>1, <2>2 DEF HexInv
<1>3. CASE HexEnd
  BY <1>2, <1>3 DEF HexEnd
<1>4. CASE LoadImage
  BY <1>1, <1>2, <1>3, <1>4 DEF LoadImage
<1>5. CASE Start \/ Installs \/ SpecFails \/ OpenFails \/ Open \/ Talk \/ Vanishes
           \/ Done \/ UNCHANGED vars
  BY <1>2, <1>5 DEF Start, Installs, SpecFails, OpenFails, Open, Talk, Answered,
                    Refused, AttemptFails, Untouched, Vanishes, Done, vars
<1> QED BY <1>4, <1>5 DEF Next, Run

(* A HEX file that parses is whole and the binary is what it says, for     *)
(* every file, however its records are ordered and overlap.                *)
THEOREM HexParsedFaithfully == Spec => []HexFaithful
<1>1. Init => HexInv
  <2> SUFFICES ASSUME Init PROVE HexInv
    OBVIOUS
  <2>1. read = <<>> /\ out = <<>> /\ sawEof = FALSE /\ hex = "reading"
    BY DEF Init, HexInit
  <2>2. /\ <<>> \in Seq(Lines) /\ <<>> \in Seq(Word) /\ Len(<<>>) = 0
        /\ DOMAIN <<>> = {} /\ 0 .. 0 - 1 = {}
    OBVIOUS
  <2>3. Records = {} /\ Data = {}
    BY <2>1, <2>2 DEF Records, Data
  <2> QED BY <2>1, <2>2, <2>3 DEF HexInv
<1>2. HexInv => HexFaithful
  <2> SUFFICES ASSUME HexInv, hex = "parsed" PROVE HexFaithful
    BY DEF HexFaithful
  <2>1. PICK e \in Records : read[e].type = 1
    BY DEF HexInv
  <2>2. \A i \in Records : i \in Nat
    BY DEF Records, HexInv
  <2>3. \A i \in Records : i <= e /\ (read[i].type = 1 <=> i = e)
    BY <2>1, <2>2 DEF HexInv
  <2>4. \A i \in Records : ~Malformed(read[i]) /\ read[i].type \notin {2, 4}
    BY DEF HexInv
  <2>5. /\ \A i \in Data : End(read[i]) <= Len(out)
        /\ Len(out) = 0 \/ \E i \in Data : End(read[i]) = Len(out)
        /\ \A a \in 0 .. Len(out) - 1 : Holds(a)
    BY DEF HexInv
  <2> QED BY <2>1, <2>3, <2>4, <2>5 DEF HexFaithful, Holds
<1> QED BY <1>1, <1>2, HexStep, PTL DEF Spec

-----------------------------------------------------------------------------
PollBudgets == [attempts : Nat, delay : Nat]

(* Dividing and rounding up covers what was divided.                       *)
LEMMA DivCeilCovers ==
    ASSUME NEW n \in Nat, NEW d \in Nat, d >= 1
    PROVE  DivCeil(n, d) \in Nat /\ DivCeil(n, d) * d >= n
<1> DEFINE x == n + d - 1
           q == x \div d
           r == x % d
<1>1. x \in Nat /\ x >= n + d - 1
  OBVIOUS
<1> HIDE DEF x
<1>2. q \in Nat /\ r \in 0 .. d - 1 /\ x = q * d + r
  <2>1. \A y, e \in Nat : e >= 1 => /\ y \div e \in Nat
                                    /\ y % e \in 0 .. e - 1
                                    /\ y = (y \div e) * e + (y % e)
    OBVIOUS
  <2> QED BY <1>1, <2>1
<1>3. DivCeil(n, d) = q
  BY DEF DivCeil, x
<1> HIDE DEF q, r
<1>4. q * d \in Nat
  BY <1>2
<1>5. q * d >= n
  BY <1>1, <1>2, <1>4
<1> QED BY <1>2, <1>3, <1>5

(* Products grow with their factors.                                       *)
LEMMA Grows ==
    ASSUME NEW m \in Nat, NEW n \in Nat, NEW k \in Nat, m <= n
    PROVE  m * k <= n * k
OBVIOUS

(* With as many attempts as erase_poll_attempts computes, every backend    *)
(* waits for an erase as EraseWaits says.                                  *)
LEMMA EraseWindow ==
    ASSUME NEW kind \in Kinds, NEW poll \in PollBudgets,
           poll.attempts >= DivCeil(AppPages * PerPageMs, AtLeast1(poll.delay))
    PROVE  EraseWaits(kind, poll.delay * NsPerMs, Window(kind, SetPoll(kind, poll)))
<1> DEFINE P == AppPages * PerPageMs
           N == NsPerMs
           S == SampleNs
           R == ReadNs
           U == U32Max
           d == poll.delay
           a == AtLeast1(poll.attempts)
           ns == d * N
           worst == P * N
           w == Window(kind, SetPoll(kind, poll))
<1>1. /\ N \in Nat /\ N >= 1 /\ S \in Nat /\ S >= 1 /\ N >= 2 * S
      /\ R \in Nat /\ R >= N /\ R <= U /\ U \in Nat /\ U >= 1
      /\ d \in Nat /\ PerPageMs \in Nat
  BY UnitsAssumption DEF PollBudgets
<1>2. P \in Nat
  BY <1>1, GeometryAssumption
<1>3. a \in Nat /\ a >= 1 /\ a >= poll.attempts /\ poll.attempts \in Nat
  BY DEF PollBudgets, AtLeast1
<1>4. worst <= (U - 1) * S
  BY EraseTimeAssumption
<1>5. /\ SetPoll(kind, poll) =
           CASE kind = "i2c"  -> [attempts |-> a, interval |-> ns]
             [] kind = "gpio" -> [attempts |-> AtLeast1(Sat32((a * ns) \div S)), interval |-> S]
             [] OTHER         -> [attempts |-> a, interval |-> Sat32(ns)]
      /\ poll.attempts >= DivCeil(P, AtLeast1(d))
  BY DEF SetPoll
<1>6. kind \in {"i2c", "uart", "spi", "gpio"}
  BY DEF Kinds
<1>7. SUFFICES /\ kind = "uart" /\ ns <= R => w >= worst
               /\ ns > 0 /\ ~(kind \in {"uart", "spi"} /\ ns > U) => w + ns >= worst
               /\ ns = 0 /\ kind # "uart" => w = 0
               /\ kind \in {"uart", "spi"} /\ ns > U => (w + U) * ns >= worst * U
  BY DEF EraseWaits
<1> HIDE DEF P, N, S, R, U, d, a
<1>8. a >= DivCeil(P, AtLeast1(d)) /\ AtLeast1(d) \in Nat /\ AtLeast1(d) >= 1
      /\ DivCeil(P, AtLeast1(d)) \in Nat /\ DivCeil(P, AtLeast1(d)) * AtLeast1(d) >= P
  <2>1. AtLeast1(d) \in Nat /\ AtLeast1(d) >= 1
    BY <1>1 DEF AtLeast1
  <2>2. /\ DivCeil(P, AtLeast1(d)) \in Nat
        /\ DivCeil(P, AtLeast1(d)) * AtLeast1(d) >= P
    BY <1>2, <2>1, DivCeilCovers
  <2> QED BY <1>3, <1>5, <2>1, <2>2
<1>9. a * AtLeast1(d) >= P /\ a * AtLeast1(d) \in Nat
  <2>1. DivCeil(P, AtLeast1(d)) * AtLeast1(d) <= a * AtLeast1(d)
    BY <1>3, <1>8, Grows
  <2>2. DivCeil(P, AtLeast1(d)) * AtLeast1(d) \in Nat /\ a * AtLeast1(d) \in Nat
    BY <1>3, <1>8
  <2> QED BY <1>2, <1>8, <2>1, <2>2
<1>10. ns \in Nat /\ worst \in Nat /\ a * ns \in Nat /\ (ns = 0 <=> d = 0)
  <2>1. ns \in Nat /\ worst \in Nat
    BY <1>1, <1>2
  <2>2. d >= 1 => 1 * N <= d * N
    BY <1>1, Grows
  <2>3. d = 0 => ns = 0
    BY <1>1
  <2>4. a * ns \in Nat
    BY <1>3, <2>1
  <2> QED BY <1>1, <2>1, <2>2, <2>3, <2>4
<1>11. d >= 1 => a * ns >= worst /\ ns >= 2 * S
  <2> SUFFICES ASSUME d >= 1 PROVE a * ns >= worst /\ ns >= 2 * S
    OBVIOUS
  <2>1. AtLeast1(d) = d
    BY <1>1 DEF AtLeast1
  <2>2. P * N <= (a * d) * N
    BY <1>1, <1>2, <1>9, <2>1, Grows
  <2>3. (a * d) * N = a * (d * N)
    BY <1>1, <1>3
  <2>4. 1 * N <= d * N
    BY <1>1, Grows
  <2> QED BY <1>1, <1>10, <2>2, <2>3, <2>4
<1> HIDE DEF ns, worst
<1>12. (a - 1) * ns + ns = a * ns /\ (a - 1) * ns \in Nat
  BY <1>3, <1>10
<1>13. a * R \in Nat /\ a * R >= R
  <2>1. 1 * R <= a * R
    BY <1>1, <1>3, Grows
  <2> QED BY <1>1, <1>3, <2>1
<1>14. CASE kind = "i2c" \/ (kind = "spi" /\ ns <= U)
  <2>1. SetPoll(kind, poll) = [attempts |-> a, interval |-> ns]
    BY <1>1, <1>5, <1>10, <1>14 DEF Sat32, U
  <2>2. w = a * 0 + (a - 1) * ns
    BY <1>14, <2>1 DEF Window, ReadBlock
  <2>3. w = (a - 1) * ns
    BY <1>3, <1>12, <2>2
  <2>4. ns = 0 => w = 0
    BY <1>3, <2>3
  <2>5. ns > 0 => w + ns >= worst
    BY <1>1, <1>10, <1>11, <1>12, <2>3
  <2> QED BY <1>1, <1>10, <1>14, <2>4, <2>5
<1>15. CASE kind = "uart" /\ ns <= U
  <2>1. SetPoll(kind, poll) = [attempts |-> a, interval |-> ns]
    BY <1>1, <1>5, <1>10, <1>15 DEF Sat32, U
  <2>2. w = a * R + (a - 1) * ns
    BY <1>15, <2>1 DEF Window, ReadBlock, R
  <2>3. ns > 0 => w + ns >= worst
    BY <1>1, <1>10, <1>11, <1>12, <1>13, <2>2
  <2>4. ASSUME ns > 0, ns <= R PROVE w >= worst
    BY <1>1, <1>10, <1>11, <1>12, <1>13, <2>2, <2>4
  <2>5. ASSUME ns = 0 PROVE w >= worst
    <3>1. AtLeast1(d) = 1
      BY <1>10, <2>5 DEF AtLeast1
    <3>2. a >= P
      BY <1>2, <1>3, <1>9, <3>1
    <3>3. P * R <= a * R /\ N * P <= R * P
      BY <1>1, <1>2, <1>3, <3>2, Grows
    <3>4. P * R = R * P /\ N * P = P * N /\ P * R \in Nat
      BY <1>1, <1>2
    <3>5. worst = P * N
      BY DEF worst
    <3> QED BY <1>1, <1>10, <1>12, <1>13, <2>2, <3>3, <3>4, <3>5
  <2> QED BY <1>1, <1>10, <1>15, <2>3, <2>4, <2>5
<1>16. CASE kind \in {"uart", "spi"} /\ ns > U
  <2>1. SetPoll(kind, poll) = [attempts |-> a, interval |-> U]
    BY <1>1, <1>5, <1>10, <1>16 DEF Sat32, U
  <2>2. w = a * ReadBlock(kind) + (a - 1) * U /\ ReadBlock(kind) \in Nat
    BY <1>1, <1>16, <2>1 DEF Window, ReadBlock, R
  <2>3. a * ReadBlock(kind) \in Nat /\ (a - 1) * U + U = a * U /\ (a - 1) * U \in Nat
        /\ a * U \in Nat
    BY <1>1, <1>3, <2>2
  <2>4. w \in Nat /\ w + U >= a * U
    BY <1>1, <2>2, <2>3
  <2>5. (a * U) * ns <= (w + U) * ns
    BY <1>1, <1>10, <2>3, <2>4, Grows
  <2>6. worst * U <= (a * ns) * U
    BY <1>1, <1>10, <1>11, <1>16, Grows
  <2>7. (a * ns) * U = (a * U) * ns
    BY <1>1, <1>3, <1>10
  <2>8. (w + U) * ns \in Nat /\ worst * U \in Nat /\ (a * U) * ns \in Nat
    BY <1>1, <1>10, <2>3, <2>4
  <2>9. (w + U) * ns >= worst * U
    BY <2>5, <2>6, <2>7, <2>8
  <2>10. ns > R /\ ns # 0
    BY <1>1, <1>10, <1>16
  <2> QED BY <1>1, <1>10, <1>16, <2>9, <2>10
<1>17. CASE kind = "gpio"
  <2> DEFINE m == (a * ns) \div S
             k == AtLeast1(Sat32(m))
  <2>1. w = k * 0 + (k - 1) * S
    BY <1>5, <1>17 DEF Window, ReadBlock
  <2>2. m \in Nat /\ m * S + S >= a * ns /\ (ns = 0 => m = 0)
    <3>1. \A y, e \in Nat : e >= 1 => /\ y \div e \in Nat
                                      /\ y % e \in 0 .. e - 1
                                      /\ y = (y \div e) * e + (y % e)
      OBVIOUS
    <3>2. /\ m \in Nat /\ (a * ns) % S \in 0 .. S - 1
          /\ a * ns = m * S + ((a * ns) % S)
      BY <1>1, <1>10, <3>1
    <3>3. m * S \in Nat
      BY <1>1, <3>2
    <3>4. ns = 0 => a * ns = 0
      BY <1>3
    <3> HIDE DEF m
    <3>5. m >= 1 => 1 * S <= m * S
      BY <1>1, <3>2, Grows
    <3>6. ASSUME ns = 0 PROVE m = 0
      <4> DEFINE r == (a * ns) % S
                 ms == m * S
      <4>1. ms \in Nat /\ r \in Nat /\ ms + r = 0
        BY <1>1, <3>2, <3>3, <3>4, <3>6
      <4>2. m >= 1 => ms >= 1
        BY <1>1, <3>3, <3>5
      <4> HIDE DEF r, ms
      <4> QED BY <3>2, <4>1, <4>2
    <3> QED BY <1>1, <1>10, <3>2, <3>3, <3>6
  <2> HIDE DEF m
  <2>3. k \in Nat /\ k >= 1 /\ (k >= m \/ k = U) /\ (m = 0 => k = 1)
    BY <1>1, <2>2 DEF AtLeast1, Sat32, U
  <2> HIDE DEF k
  <2>4. w = (k - 1) * S
    BY <1>1, <2>1, <2>3
  <2>5. ASSUME ns > 0 PROVE (k - 1) * S + ns >= worst
    <3>1. CASE k = U
      <4>1. (k - 1) * S \in Nat
        BY <1>1, <2>3
      <4> QED BY <1>4, <1>10, <3>1, <4>1
    <3>2. CASE k >= m
      <4>1. m * S <= k * S
        BY <1>1, <2>2, <2>3, <3>2, Grows
      <4>2. (k - 1) * S = k * S - S /\ k * S \in Nat /\ m * S \in Nat
        BY <1>1, <2>2, <2>3
      <4> QED BY <1>1, <1>10, <1>11, <2>2, <2>5, <4>1, <4>2
    <3> QED BY <2>3, <3>1, <3>2
  <2>6. ns = 0 => w = 0
    BY <1>1, <2>2, <2>3, <2>4
  <2> QED BY <1>17, <2>4, <2>5, <2>6
<1> QED BY <1>1, <1>6, <1>10, <1>14, <1>15, <1>16, <1>17

(* The base budget is set whenever an exchange begins, the raised one is   *)
(* ready once ERASE_APP is due, and no request has waited for too long.    *)
PollInv ==
    /\ pc \in {"load", "open"} => cli.cmd \in {"info", "boot", "echo", "flash"}
    /\ pc = "load" => cli.cmd = "flash"
    /\ pc = "talk" /\ cli.cmd = "flash" => ask \in {"SIZE", "INFO", "ERASE", "WRITE", "VERIFY"}
    /\ pc = "talk" => inner = SetPoll(cli.kind, cli.poll)
    /\ pc = "talk" /\ cli.cmd = "flash" /\ ask \in {"INFO", "ERASE"}
         => eraseAttempts = RaisedAttempts
    /\ pc = "talk" /\ ask = "ERASE" => cli.cmd = "flash"
    /\ SilenceBudget

(* What an attempt that meets silence has waited.                          *)
LEMMA SilentWait ==
    ASSUME cli \in Clis, PollInv, pc = "talk"
    PROVE  /\ ask # "ERASE" =>
                Window(cli.kind, Budget) = Window(cli.kind, SetPoll(cli.kind, cli.poll))
           /\ ask = "ERASE" =>
                EraseWaits(cli.kind, cli.poll.delay * NsPerMs, Window(cli.kind, Budget))
<1>1. cli.poll \in PollBudgets /\ cli.kind \in Kinds
  BY ClisAssumption DEF PollBudgets
<1>2. CASE ask # "ERASE"
  BY <1>2 DEF PollInv, Budget, Raised
<1>3. CASE ask = "ERASE"
  <2> DEFINE P == AppPages * PerPageMs
             d == AtLeast1(cli.poll.delay)
             poll == [cli.poll EXCEPT !.attempts = eraseAttempts]
  <2>1. /\ P \in Nat /\ P <= U32Max
        /\ d \in Nat /\ d >= 1 /\ cli.poll.attempts \in Nat
    BY <1>1, UnitsAssumption, GeometryAssumption, EraseTimeAssumption
       DEF PollBudgets, AtLeast1
  <2>2. eraseAttempts = RaisedAttempts
    BY <1>3 DEF PollInv
  <2>3. ErasePollAttempts(AppPages, cli.poll) = Larger(cli.poll.attempts, DivCeil(P, d))
    BY <2>1, UnitsAssumption DEF ErasePollAttempts, Sat32
  <2> HIDE DEF P, d
  <2>4. DivCeil(P, d) \in Nat
    BY <2>1, DivCeilCovers
  <2>5. /\ eraseAttempts \in Nat /\ eraseAttempts >= cli.poll.attempts
        /\ eraseAttempts >= DivCeil(P, d)
    BY <2>1, <2>2, <2>3, <2>4 DEF RaisedAttempts, Larger
  <2>6. /\ poll \in PollBudgets /\ poll.delay = cli.poll.delay
        /\ poll.attempts = eraseAttempts
    BY <1>1, <2>5 DEF PollBudgets
  <2>7. Budget = SetPoll(cli.kind, poll)
    <3>1. CASE Raised
      BY <3>1 DEF Budget
    <3>2. CASE ~Raised
      <4>1. eraseAttempts = cli.poll.attempts
        BY <1>3, <2>1, <2>5, <3>2 DEF Raised
      <4>2. poll = cli.poll
        BY <1>1, <4>1 DEF PollBudgets
      <4> QED BY <3>2, <4>2 DEF Budget, PollInv
    <3> QED BY <3>1, <3>2
  <2> HIDE DEF poll
  <2>8. EraseWaits(cli.kind, poll.delay * NsPerMs,
                   Window(cli.kind, SetPoll(cli.kind, poll)))
    BY <1>1, <2>5, <2>6, EraseWindow DEF P, d
  <2> QED BY <1>3, <2>6, <2>7, <2>8
<1> QED BY <1>2, <1>3

(* The budgets are set before they are needed, and a request that meets    *)
(* silence has waited long enough; the other steps leave them alone.       *)
LEMMA PollStep ==
    ASSUME cli \in Clis, PollInv, [Next]_vars
    PROVE  PollInv'
<1>0. cli' = cli
  BY CliKept
<1>1. RaisedAttempts' = RaisedAttempts
  BY <1>0 DEF RaisedAttempts
<1>2. SilenceBudget /\ (UNCHANGED gaveUp => SilenceBudget')
  BY <1>0 DEF PollInv, SilenceBudget
<1>3. gaveUp' = NoWait => SilenceBudget'
  BY DEF NoWait, SilenceBudget
<1>4. pc = "talk" => AfterRequest = SetPoll(cli.kind, cli.poll)
  BY DEF PollInv, AfterRequest
<1>5. CASE Start \/ SpecFails \/ OpenFails
  BY <1>0, <1>2, <1>5 DEF Start, SpecFails, OpenFails, Exit, OffWire, PollInv
<1>6. CASE Installs \/ Vanishes
  BY <1>0, <1>2, <1>6 DEF Installs, Vanishes, Exit, OffWire, PollInv
<1>7. CASE LoadImage
  BY <1>0, <1>2, <1>7 DEF LoadImage, Exit, OffWire, PollInv
<1>8. CASE Open
  BY <1>0, <1>2, <1>8 DEF Open, FirstAsk, PollInv
<1>9. CASE Answered
  <2>1. SilenceBudget' /\ inner' = SetPoll(cli.kind, cli.poll) /\ pc = "talk"
    BY <1>3, <1>4, <1>9 DEF Answered
  <2>2. CASE pc' = "exit"
    BY <2>1, <2>2 DEF PollInv
  <2>3. CASE pc' # "exit"
    <3>1. /\ cli.cmd = "flash" /\ ask # "VERIFY" /\ ask' = Follows /\ pc' = pc
          /\ eraseAttempts' = IF ask = "SIZE" THEN RaisedAttempts ELSE eraseAttempts
      BY <1>9, <2>3 DEF Answered, LastAsk, Exit
    <3>2. ask \in {"SIZE", "INFO", "ERASE", "WRITE"}
      BY <2>1, <3>1 DEF PollInv
    <3>3. \/ ask = "SIZE" /\ ask' = "INFO"
          \/ ask = "INFO" /\ ask' = "ERASE"
          \/ ask' \in {"WRITE", "VERIFY"}
      BY <3>1, <3>2 DEF Follows
    <3> QED BY <1>0, <1>1, <2>1, <3>1, <3>3 DEF PollInv
  <2> QED BY <2>2, <2>3
<1>10. CASE Refused
  BY <1>0, <1>2, <1>10 DEF Refused, Exit, PollInv
<1>11. ASSUME NEW silent \in BOOLEAN, AttemptFails(silent) PROVE PollInv'
  <2>1. /\ inner' = SetPoll(cli.kind, cli.poll) /\ pc = "talk"
        /\ UNCHANGED <<ask, eraseAttempts>> /\ pc' \in {"talk", "exit"}
    BY <1>4, <1>11 DEF AttemptFails, Retry, Exit
  <2>2. CASE silent
    <3>1. gaveUp' = [ask |-> ask, ns |-> Window(cli.kind, Budget)]
      BY <1>11, <2>2 DEF AttemptFails
    <3>2. SilenceBudget'
      BY <1>0, <2>1, <3>1, SilentWait DEF SilenceBudget
    <3> QED BY <1>0, <1>1, <2>1, <3>2 DEF PollInv
  <2>3. CASE ~silent
    <3>1. SilenceBudget'
      BY <1>3, <1>11, <2>3 DEF AttemptFails
    <3> QED BY <1>0, <1>1, <2>1, <3>1 DEF PollInv
  <2> QED BY <2>2, <2>3
<1>12. CASE Done \/ UNCHANGED vars
  BY <1>0, <1>1, <1>2, <1>12 DEF Done, vars, PollInv
<1> QED
  BY <1>5, <1>6, <1>7, <1>8, <1>9, <1>10, <1>11, <1>12 DEF Next, Run, Talk

(* How long a request waits, for every backend, setting and geometry: every *)
(* exchange but ERASE_APP as long as the operator's budget says, ERASE_APP  *)
(* as EraseWaits says.                                                      *)
THEOREM SilenceBounded == Spec => []SilenceBudget
<1>1. Init => PollInv
  BY DEF Init, NoWait, SilenceBudget, PollInv
<1>2. PollInv => SilenceBudget
  BY DEF PollInv
<1> QED BY <1>1, <1>2, PollStep, CliExplored, PTL DEF Spec
=============================================================================
