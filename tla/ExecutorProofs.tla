--------------------------- MODULE ExecutorProofs ---------------------------
(***************************************************************************)
(* For every set of kernel files, accessors and IRs, and for applies that  *)
(* nest to any depth: the handle accessors work on is that of the          *)
(* innermost apply, kernel ids are never reused and bindings stay.         *)
(***************************************************************************)
EXTENDS Executor, WeaveIRProofs

SomeFile == Files \cup {NoFile}
Slot == [key : Keys \cup {NoKey}, caps : SUBSET Caps, live : BOOLEAN]
FrameSet == [ir : IRs, saved : IRs \cup {NoIR}, file : SomeFile,
             cap : Caps, listed : SUBSET Caps]

\* The executor's part of the state has its type; a live slot has a library.
ExecTypes ==
  /\ kernels \in Seq(Slot) /\ frames \in Seq(FrameSet)
  /\ \A id \in DOMAIN kernels : kernels[id].live => kernels[id].key \in Keys
  /\ libs \in [Keys -> SomeFile] /\ offers \in [SomeFile -> SUBSET Caps]
  /\ current_ir \in IRs \cup {NoIR}
  /\ kernel_loaded \in BOOLEAN /\ (kernel_loaded <=> kernels # <<>>)

\* The inductive invariant.
ExecIInv == ExecTypes /\ CurrentIrScope /\ RunsListed /\ RunsExported

LEMMA FrontOfFrames ==
  ASSUME NEW S, NEW s \in Seq(S), s # <<>>
  PROVE  /\ Front(s) \in Seq(S) /\ Len(Front(s)) = Len(s) - 1
         /\ \A j \in 1..(Len(s) - 1) : Front(s)[j] = s[j]
         /\ Len(s) \in Nat \ {0} /\ Last(s) = s[Len(s)] /\ Last(s) \in S
<1>1. Len(s) \in Nat \ {0}
  BY EmptySeq, LenProperties
<1> DEFINE p == SubSeq(s, 1, Len(s) - 1)
<1>2. p \in Seq(S) /\ Len(p) = Len(s) - 1 /\ \A j \in 1..(Len(s) - 1) : p[j] = s[j]
  <2> DEFINE m == Len(s) - 1
  <2>1. m \in Nat /\ \A j \in 1..m : s[j] \in S
    BY <1>1
  <2>2. p = SubSeq(s, 1, m)
    OBVIOUS
  <2> HIDE DEF m, p
  <2>3. /\ p \in Seq(S)
        /\ Len(p) = IF 1 <= m THEN m - 1 + 1 ELSE 0
        /\ \A j \in 1..(m - 1 + 1) : p[j] = s[1 + j - 1]
    BY <2>1, <2>2, SubSeqProperties
  <2>4. Len(p) = m /\ \A j \in 1..m : p[j] = s[j]
    BY <2>1, <2>3
  <2> QED
    BY <2>3, <2>4 DEF m
<1>3. Front(s) = p
  BY DEF Front
<1>4. Last(s) = s[Len(s)] /\ Last(s) \in S
  BY <1>1 DEF Last
<1> HIDE DEF p
<1> QED
  BY <1>1, <1>2, <1>3, <1>4

LEMMA LoadsKey ==
  ASSUME NEW f \in Files, Loads(f) PROVE f.key \in Keys
BY DEF Loads, Keys

\* refresh_capabilities keeps every slot's library and liveness.
LEMMA RefreshedSlots ==
  ASSUME ExecTypes, NEW id \in DOMAIN kernels, LiveKernel(id), kernels' = Refreshed(id)
  PROVE  /\ kernels' \in Seq(Slot) /\ DOMAIN kernels' = DOMAIN kernels
         /\ \A i \in DOMAIN kernels : /\ kernels'[i].live = kernels[i].live
                                      /\ kernels'[i].key = kernels[i].key
         /\ kernels'[id].caps = Listed(kernels[id].key)
         /\ (kernels' # <<>> <=> kernels # <<>>)
<1> DEFINE new == [kernels[id] EXCEPT !.caps = Listed(kernels[id].key)]
<1>1. kernels[id] \in Slot /\ kernels[id].key \in Keys /\ kernels \in [1..Len(kernels) -> Slot]
      /\ DOMAIN kernels = 1..Len(kernels) /\ Len(kernels) \in Nat
  BY DEF ExecTypes, LiveKernel
<1>2. Listed(kernels[id].key) \subseteq Caps
  BY <1>1 DEF Listed, ExecTypes
<1>3. new \in Slot /\ new.live = kernels[id].live /\ new.key = kernels[id].key
      /\ new.caps = Listed(kernels[id].key)
  BY <1>1, <1>2 DEF Slot
<1>4. kernels' = [kernels EXCEPT ![id] = new]
  BY DEF Refreshed
<1> HIDE DEF new
<1>5. kernels' \in [1..Len(kernels) -> Slot] /\ DOMAIN kernels' = DOMAIN kernels
  BY <1>1, <1>3, <1>4
<1>6. kernels' \in Seq(Slot)
  BY <1>1, <1>5
<1>7. /\ \A i \in DOMAIN kernels : kernels'[i].live = kernels[i].live /\ kernels'[i].key = kernels[i].key
      /\ kernels'[id].caps = Listed(kernels[id].key)
  BY <1>1, <1>3, <1>4
<1>8. kernels' # <<>> /\ kernels # <<>>
  BY <1>1, <1>5
<1> QED
  BY <1>5, <1>6, <1>7, <1>8

LEMMA ExecInitInv ==
  ASSUME ExecInit PROVE ExecIInv
<1>1. /\ kernels = <<>> /\ frames = <<>> /\ current_ir = NoIR /\ kernel_loaded = FALSE
      /\ libs = [key \in Keys |-> NoFile]
      /\ offers = [f \in Files \cup {NoFile} |-> IF f = NoFile THEN {} ELSE Caps]
  BY DEF ExecInit
<1>2. kernels \in Seq(Slot) /\ frames \in Seq(FrameSet) /\ DOMAIN kernels = {} /\ DOMAIN frames = {}
  BY <1>1
<1>3. libs \in [Keys -> SomeFile] /\ offers \in [SomeFile -> SUBSET Caps]
  BY <1>1 DEF SomeFile
<1> QED
  BY <1>1, <1>2, <1>3 DEF ExecIInv, ExecTypes, CurrentIrScope, RunsListed, RunsExported

\* What a step leaves of the frames keeps the invariant's part about them.
LEMMA SameFrames ==
  ASSUME ExecIInv, frames' = frames, current_ir' = current_ir
  PROVE  (CurrentIrScope /\ RunsListed /\ RunsExported)'
BY DEF ExecIInv, CurrentIrScope, RunsListed, RunsExported

LEMMA RegisterInv ==
  ASSUME ExecIInv, NEW acc, NEW v, Register(acc, v) PROVE ExecIInv'
BY SameFrames DEF Register, ExecIInv, ExecTypes

LEMMA SetEditHookInv ==
  ASSUME ExecIInv, NEW kinds, SetEditHook(kinds) PROVE ExecIInv'
BY SameFrames DEF SetEditHook, ExecIInv, ExecTypes

LEMMA ChangeOfferInv ==
  ASSUME ExecIInv, NEW caps \in SUBSET Caps, ChangeOffer(caps) PROVE ExecIInv'
<1>1. offers' \in [SomeFile -> SUBSET Caps]
  BY DEF ChangeOffer, ExecIInv, ExecTypes
<1> QED
  BY <1>1, SameFrames DEF ChangeOffer, ExecIInv, ExecTypes

LEMMA LoadInv ==
  ASSUME ExecIInv, NEW f \in Files, Load(f) PROVE ExecIInv'
<1>1. libs' \in [Keys -> SomeFile]
  BY DEF Load, ExecIInv, ExecTypes, SomeFile, Keys
<1>2. CASE Loads(f)
  <2> DEFINE slot == [key |-> f.key, caps |-> {}, live |-> TRUE]
  <2>1. slot \in Slot /\ slot.key \in Keys /\ kernels' = Append(kernels, slot) /\ kernel_loaded' = TRUE
    BY <1>2, LoadsKey DEF Slot, Load, ExecIInv, ExecTypes
  <2> HIDE DEF slot
  <2>2. /\ kernels' \in Seq(Slot) /\ kernels' # <<>>
        /\ \A id \in DOMAIN kernels' : kernels'[id].live => kernels'[id].key \in Keys
    BY <2>1 DEF ExecIInv, ExecTypes
  <2> QED
    BY <1>1, <2>1, <2>2, SameFrames DEF Load, ExecIInv, ExecTypes
<1>3. CASE ~Loads(f)
  BY <1>1, <1>3, SameFrames DEF Load, ExecIInv, ExecTypes
<1> QED
  BY <1>2, <1>3

LEMMA UnloadInv ==
  ASSUME ExecIInv, NEW id \in DOMAIN kernels, Unload(id) PROVE ExecIInv'
<1> DEFINE dead == [key |-> NoKey, caps |-> {}, live |-> FALSE]
<1>1. dead \in Slot /\ ~dead.live
  BY DEF Slot
<1>2. kernels' = [kernels EXCEPT ![id] = dead]
  BY DEF Unload
<1> HIDE DEF dead
<1>3. /\ kernels \in [1..Len(kernels) -> Slot] /\ DOMAIN kernels = 1..Len(kernels)
      /\ Len(kernels) \in Nat /\ id \in 1..Len(kernels)
  BY DEF ExecIInv, ExecTypes
<1>4. kernels' \in [1..Len(kernels) -> Slot] /\ DOMAIN kernels' = 1..Len(kernels)
  BY <1>1, <1>2, <1>3
<1>5. kernels' \in Seq(Slot) /\ kernels' # <<>> /\ kernels # <<>>
  BY <1>3, <1>4
<1>6. \A i \in DOMAIN kernels' : kernels'[i].live => kernels'[i].key \in Keys
  BY <1>1, <1>2, <1>3, <1>4 DEF ExecIInv, ExecTypes
<1> QED
  BY <1>5, <1>6, SameFrames DEF Unload, ExecIInv, ExecTypes

LEMMA CapabilityInv ==
  ASSUME ExecIInv, NEW id \in DOMAIN kernels, CapabilityCount(id) \/ Capability(id)
  PROVE  ExecIInv'
<1>1. LiveKernel(id) /\ kernels' = Refreshed(id)
  BY DEF CapabilityCount, Capability
<1>2. UNCHANGED <<kernel_loaded, libs, offers, current_ir, frames>>
  BY DEF CapabilityCount, Capability
<1>3. /\ kernels' \in Seq(Slot)
      /\ \A i \in DOMAIN kernels' : kernels'[i].live => kernels'[i].key \in Keys
      /\ (kernels' # <<>> <=> kernels # <<>>)
  BY <1>1, RefreshedSlots DEF ExecIInv, ExecTypes
<1> QED
  BY <1>2, <1>3, SameFrames DEF ExecIInv, ExecTypes

LEMMA ApplyInv ==
  ASSUME ExecIInv, NEW id \in DOMAIN kernels, NEW cap \in Caps, NEW ir \in IRs, Apply(id, cap, ir)
  PROVE  ExecIInv'
<1>1. LiveKernel(id) /\ kernels' = Refreshed(id) /\ UNCHANGED <<libs, offers, kernel_loaded>>
  BY DEF Apply
<1>2. /\ kernels' \in Seq(Slot)
      /\ \A i \in DOMAIN kernels' : kernels'[i].live => kernels'[i].key \in Keys
      /\ kernels'[id].caps = Listed(kernels[id].key)
      /\ (kernels' # <<>> <=> kernels # <<>>)
  BY <1>1, RefreshedSlots DEF ExecIInv, ExecTypes
<1>3. CASE UNCHANGED <<frames, current_ir>>
  BY <1>1, <1>2, <1>3, SameFrames DEF ExecIInv, ExecTypes
<1>4. CASE /\ cap \in kernels'[id].caps /\ "kernel-apply" \in Exports(kernels[id].key)
           /\ frames' = Append(frames, Frame(id, cap, ir)) /\ current_ir' = ir
  <2> DEFINE frame == Frame(id, cap, ir)
             file == libs[kernels[id].key]
  <2>1. kernels[id].key \in Keys /\ file \in SomeFile /\ offers[file] \subseteq Caps
    BY <1>1 DEF LiveKernel, ExecIInv, ExecTypes
  <2>2. "kernel-apply" \in file.exports /\ cap \in offers[file]
    BY <1>2, <1>4, <2>1 DEF Exports, Listed
  <2>3. /\ frame \in FrameSet /\ frame.ir = ir /\ frame.saved = current_ir /\ frame.file = file
        /\ frame.cap = cap /\ frame.listed = offers[file]
    BY <2>1 DEF Frame, FrameSet, ExecIInv, ExecTypes
  <2> HIDE DEF frame, file
  <2>4. /\ frames' \in Seq(FrameSet) /\ frames' # <<>> /\ Len(frames) \in Nat
        /\ Len(frames') = Len(frames) + 1 /\ DOMAIN frames' = 1..(Len(frames) + 1)
        /\ frames'[Len(frames) + 1] = frame
        /\ \A i \in 1..Len(frames) : frames'[i] = frames[i]
    BY <1>4, <2>3 DEF ExecIInv, ExecTypes, frame
  <2>5. CurrentIrScope'
    <3>1. Last(frames') = frame
      BY <2>4 DEF Last
    <3>2. ASSUME NEW i \in 1..(Len(frames) + 1)
          PROVE  frames'[i].saved = IF i = 1 THEN NoIR ELSE frames'[i - 1].ir
      <4>1. CASE i \in 1..Len(frames)
        BY <4>1, <2>4 DEF ExecIInv, ExecTypes, CurrentIrScope
      <4>2. CASE i = Len(frames) + 1 /\ Len(frames) = 0
        <5>1. frames = <<>>
          BY <4>2, EmptySeq DEF ExecIInv, ExecTypes
        <5> QED
          BY <4>2, <5>1, <2>3, <2>4 DEF ExecIInv, CurrentIrScope
      <4>3. CASE i = Len(frames) + 1 /\ Len(frames) > 0
        <5>1. frames # <<>> /\ Last(frames) = frames[Len(frames)]
          BY <4>3 DEF Last
        <5>2. current_ir = frames[Len(frames)].ir
          BY <5>1 DEF ExecIInv, CurrentIrScope
        <5> QED
          BY <4>3, <5>2, <2>3, <2>4
      <4> QED
        BY <2>4, <4>1, <4>2, <4>3
    <3> QED
      BY <1>4, <2>3, <2>4, <3>1, <3>2 DEF CurrentIrScope
  <2>6. RunsListed'
    BY <2>2, <2>3, <2>4 DEF ExecIInv, ExecTypes, RunsListed
  <2>7. RunsExported'
    BY <2>2, <2>3, <2>4 DEF ExecIInv, ExecTypes, RunsExported
  <2> QED
    BY <1>1, <1>2, <1>4, <2>4, <2>5, <2>6, <2>7 DEF ExecIInv, ExecTypes
<1> QED
  BY <1>3, <1>4 DEF Apply

LEMMA ReturnInv ==
  ASSUME ExecIInv, Return PROVE ExecIInv'
<1>1. /\ frames # <<>> /\ frames' = Front(frames) /\ current_ir' = Last(frames).saved
      /\ UNCHANGED <<kernels, kernel_loaded, libs, offers>>
  BY DEF Return
<1>2. /\ frames' \in Seq(FrameSet) /\ Len(frames') = Len(frames) - 1
      /\ \A j \in 1..(Len(frames) - 1) : frames'[j] = frames[j]
      /\ Len(frames) \in Nat \ {0} /\ Last(frames) = frames[Len(frames)] /\ Last(frames) \in FrameSet
  BY <1>1, FrontOfFrames DEF ExecIInv, ExecTypes
<1>3. DOMAIN frames' = 1..(Len(frames) - 1) /\ DOMAIN frames = 1..Len(frames)
  BY <1>2 DEF ExecIInv, ExecTypes
<1>4. ExecTypes'
  BY <1>1, <1>2 DEF ExecIInv, ExecTypes, FrameSet
<1>5. current_ir' = IF Len(frames) = 1 THEN NoIR ELSE frames[Len(frames) - 1].ir
  BY <1>1, <1>2, <1>3 DEF ExecIInv, CurrentIrScope
<1>6. CurrentIrScope'
  <2>1. CASE Len(frames) = 1
    <3>1. frames' = <<>>
      BY <2>1, <1>2, EmptySeq
    <3> QED
      BY <2>1, <3>1, <1>5 DEF CurrentIrScope
  <2>2. CASE Len(frames) > 1
    <3>1. frames' # <<>> /\ Last(frames') = frames[Len(frames) - 1]
      BY <2>2, <1>2 DEF Last
    <3>2. \A i \in DOMAIN frames' : frames'[i].saved = IF i = 1 THEN NoIR ELSE frames'[i - 1].ir
      <4> SUFFICES ASSUME NEW i \in 1..(Len(frames) - 1)
                   PROVE  frames'[i].saved = IF i = 1 THEN NoIR ELSE frames'[i - 1].ir
        BY <1>3
      <4>1. i \in DOMAIN frames /\ frames'[i] = frames[i]
        BY <1>2, <1>3
      <4>2. i # 1 => frames'[i - 1] = frames[i - 1]
        BY <1>2
      <4> QED
        BY <4>1, <4>2 DEF ExecIInv, CurrentIrScope
    <3> QED
      BY <2>2, <1>2, <1>5, <3>1, <3>2 DEF CurrentIrScope
  <2> QED
    BY <1>2, <2>1, <2>2
<1>7. RunsListed' /\ RunsExported'
  BY <1>2, <1>3 DEF ExecIInv, RunsListed, RunsExported
<1> QED
  BY <1>4, <1>6, <1>7 DEF ExecIInv

LEMMA ExecNextInv ==
  ASSUME ExecIInv, [ExecNext]_allVars PROVE ExecIInv'
<1>1. CASE HostCall
  BY <1>1, RegisterInv, LoadInv, UnloadInv, CapabilityInv, ApplyInv, SetEditHookInv DEF HostCall
<1>2. CASE Return
  BY <1>2, ReturnInv
<1>3. CASE \E caps \in SUBSET Caps : ChangeOffer(caps)
  BY <1>3, ChangeOfferInv
<1>4. CASE UNCHANGED xvars
  BY <1>4, SameFrames DEF xvars, ExecIInv, ExecTypes
<1> QED
  BY <1>1, <1>2, <1>3, <1>4 DEF ExecNext, allVars, xvars

\* The strengthening is an invariant of every behaviour of host and kernels.
THEOREM ExecInductive == ExecSpec => []ExecIInv
<1>1. ExecInit => ExecIInv
  BY ExecInitInv
<1>2. ExecIInv /\ [ExecNext]_allVars => ExecIInv'
  BY ExecNextInv
<1> QED
  BY <1>1, <1>2, PTL DEF ExecSpec

\* ccw_kernel_apply sets and restores the handle: accessors work on the IR of the
\* innermost apply, and on none outside one.
THEOREM HandleScoped == ExecSpec => []CurrentIrScope
BY ExecInductive, PTL DEF ExecIInv

\* What runs was listed by the procedure that runs (ccw_kernel_apply).
THEOREM OnlyListedRun == ExecSpec => []RunsListed
BY ExecInductive, PTL DEF ExecIInv

\* The executor never calls something that is no procedure.
THEOREM OnlyExportedRun == ExecSpec => []RunsExported
BY ExecInductive, PTL DEF ExecIInv

\* A module changes only while an apply on it is the innermost one (trampoline).
THEOREM Isolation == ExecSpec => IsolatedIR
<1>1. ExecIInv /\ [ExecNext]_allVars
        => [frames = <<>> \/ Last(frames).ir # "main" => UNCHANGED vars]_allVars
  <2> SUFFICES ASSUME ExecIInv, ExecNext, frames = <<>> \/ Last(frames).ir # "main"
               PROVE  UNCHANGED vars
    OBVIOUS
  <2>1. ~ GlueCall
    BY ExecAssumption DEF GlueCall, ExecIInv, CurrentIrScope
  <2> QED
    BY <2>1 DEF ExecNext
<1> QED
  BY <1>1, ExecInductive, PTL DEF ExecSpec, IsolatedIR

\* Once some kernel was loaded no accessor is rebound (ccw_glue_register).
THEOREM NoRebinding == ExecSpec => BindingsFrozen
<1>1. ExecIInv /\ [ExecNext]_allVars => [kernels # <<>> => bindings' = bindings]_allVars
  <2> SUFFICES ASSUME ExecIInv, ExecNext, kernels # <<>> PROVE bindings' = bindings
    OBVIOUS
  <2>1. \A acc \in Accessors, v \in Versions : ~ Register(acc, v)
    BY DEF ExecIInv, ExecTypes, Register
  <2>2. CASE HostCall
    BY <2>1, <2>2 DEF HostCall, Load, Unload, CapabilityCount, Capability, Apply, SetEditHook
  <2> QED
    BY <2>2 DEF ExecNext, Return, ChangeOffer, xvars
<1> QED
  BY <1>1, ExecInductive, PTL DEF ExecSpec, BindingsFrozen

\* A slot never changes its library and a dead one never comes back
\* (ccw_executor_load_kernel, ccw_executor_unload_kernel).
THEOREM KernelIdsNeverReused == ExecSpec => IdsStable
<1> DEFINE Stable(id) == /\ id \in DOMAIN kernels'
                         /\ kernels'[id].live => kernels[id].live /\ kernels'[id].key = kernels[id].key
<1>1. ExecIInv /\ [ExecNext]_allVars => [\A id \in DOMAIN kernels : Stable(id)]_allVars
  <2> SUFFICES ASSUME ExecIInv, ExecNext, NEW id \in DOMAIN kernels PROVE Stable(id)
    OBVIOUS
  <2>0. kernels \in Seq(Slot) /\ ExecTypes
    BY DEF ExecIInv, ExecTypes
  <2>1. ASSUME NEW f \in Files, Load(f) PROVE Stable(id)
    <3>1. CASE Loads(f)
      <4> DEFINE slot == [key |-> f.key, caps |-> {}, live |-> TRUE]
      <4>1. slot \in Slot /\ kernels' = Append(kernels, slot)
        BY <2>1, <3>1, LoadsKey DEF Slot, Load
      <4> HIDE DEF slot
      <4>2. id \in DOMAIN kernels' /\ kernels'[id] = kernels[id]
        BY <2>0, <4>1
      <4> QED
        BY <4>2
    <3>2. CASE ~ Loads(f)
      BY <2>1, <3>2 DEF Load
    <3> QED
      BY <3>1, <3>2
  <2>2. ASSUME NEW i \in DOMAIN kernels, Unload(i) PROVE Stable(id)
    <3>1. DOMAIN kernels' = DOMAIN kernels
      BY <2>2 DEF Unload
    <3>2. id # i => kernels'[id] = kernels[id]
      BY <2>2 DEF Unload
    <3>3. id = i => ~ kernels'[id].live
      BY <2>2 DEF Unload
    <3> QED
      BY <3>1, <3>2, <3>3
  <2>3. ASSUME NEW i \in DOMAIN kernels, LiveKernel(i), kernels' = Refreshed(i) PROVE Stable(id)
    BY <2>0, <2>3, RefreshedSlots
  <2>4. CASE HostCall
    BY <2>1, <2>2, <2>3, <2>4 DEF HostCall, Register, CapabilityCount, Capability, Apply, SetEditHook
  <2>5. CASE UNCHANGED kernels
    BY <2>5
  <2> QED
    BY <2>4, <2>5 DEF ExecNext, Return, ChangeOffer, xvars
<1> QED
  BY <1>1, ExecInductive, PTL DEF ExecSpec, IdsStable

\* What runs in ccw_kernel_apply is exported, listed and works on the IR it was given.
THEOREM AppliesSound == ExecSpec => []FramesSound
<1>1. ExecIInv => FramesSound
  BY DEF ExecIInv, FramesSound
<1> QED
  BY <1>1, ExecInductive, PTL

\* Bindings and kernel ids stay what they were (ccw_kernel_load, ccw_kernel_unload).
THEOREM HandlesStay == ExecSpec => HandlesKept
BY NoRebinding, KernelIdsNeverReused DEF HandlesKept

(***************************************************************************)
(* The module under edit: WeaveIR's invariant holds through every accessor *)
(* call, and the host's one function stays the only one.                   *)
(***************************************************************************)
OneFunction == functions = <<1>> /\ \A n \in Ids : kind[n] = "function" <=> n = 1
HostTypes == bindings \in [Accessors -> Versions \cup {NoIR}] /\ refused \subseteq EditKinds
EditInv == IInv /\ OneFunction

\* An edit in which no function dies and none appears.
LEMMA FunctionKept ==
  ASSUME OneFunction, functions' = functions,
         \A n \in Ids : kind'[n] = "function" <=> kind[n] = "function"
  PROVE  OneFunction'
BY DEF OneFunction

\* The module ExecInit describes is a tree.
LEMMA StartInv == ExecInit => EditInv
<1> SUFFICES ASSUME ExecInit PROVE EditInv
  OBVIOUS
<1>0. MaxNodes \in Nat /\ MaxNodes >= 7 /\ 1..7 \subseteq Ids
  BY IRAssumption, ExecAssumption DEF Ids
<1>1. node_count = 7 /\ attached = 5..7 /\ functions = <<1>>
  BY DEF ExecInit
<1>a. /\ kind[1] = "function" /\ \A i \in 2..4 : kind[i] = "block"
      /\ \A i \in 5..7 : kind[i] = "instr"
      /\ \A i \in Ids : i > 7 => kind[i] = "dead"
  BY <1>0 DEF ExecInit, Ids
<1>b. \A i \in 2..4 : parent[i] = 1 /\ parent[i + 3] = i
  BY <1>0 DEF ExecInit
<1>c. /\ children[1] = <<2, 3, 4>> /\ \A i \in 2..4 : children[i] = <<i + 3>>
      /\ \A i \in Ids : i > 7 => children[i] = <<>>
  BY <1>0 DEF ExecInit, Ids
<1>2. TypeOK
  <2>1. kind \in [Ids -> Kinds] /\ parent \in [Ids -> Ids \cup {0}] /\ attached \subseteq Ids
        /\ node_count \in 0..MaxNodes /\ functions \in Seq(Ids)
    BY <1>0 DEF ExecInit, Kinds
  <2>2. children \in [Ids -> Seq(Ids)]
    <3>1. <<2, 3, 4>> \in Seq(Ids) /\ \A i \in 2..4 : <<i + 3>> \in Seq(Ids)
      BY <1>0
    <3> QED
      BY <3>1 DEF ExecInit
  <2>3. operands \in [Ids -> Seq(Names \cup {NoName})]
    <3>1. <<"exit">> \in Seq(Names \cup {NoName})
      BY ExecAssumption
    <3>2. <<>> \in Seq(Names \cup {NoName})
      OBVIOUS
    <3>3. operands = [i \in Ids |-> IF i = 5 THEN <<"exit">> ELSE <<>>]
      BY DEF ExecInit
    <3> QED
      BY <3>1, <3>2, <3>3
  <2>4. opcode \in [Ids -> Opcodes \cup {NoName}] /\ name \in [Ids -> Names \cup {NoName}]
        /\ call \in {"returned", "hung"}
    BY ExecAssumption DEF ExecInit
  <2> QED
    BY <2>1, <2>2, <2>3, <2>4 DEF TypeOK
<1>3. Fresh
  BY <1>1, <1>a, <1>c DEF Fresh
<1>4. /\ DOMAIN children[1] = 1..3 /\ children[1][1] = 2 /\ children[1][2] = 3 /\ children[1][3] = 4
      /\ \A b \in 2..4 : DOMAIN children[b] = {1} /\ children[b][1] = b + 3
  BY <1>c
<1>5. /\ \A i \in Ids : kind[i] = "function" <=> i = 1
      /\ \A i \in Ids : kind[i] = "block" <=> i \in 2..4
      /\ \A i \in Ids : kind[i] = "instr" <=> i \in 5..7
  <2>1. \A i \in Ids : i = 1 \/ i \in 2..4 \/ i \in 5..7 \/ i > 7
    BY DEF Ids
  <2> QED
    BY <1>a, <2>1
<1>6. Lists("function", "block")
  BY <1>a, <1>b, <1>4, <1>5 DEF Lists
<1>7. Lists("block", "instr")
  BY <1>a, <1>b, <1>4, <1>5 DEF Lists
<1>8. BlocksOwned
  <2>1. \A n \in 2..4 : \E j \in DOMAIN children[1] : children[1][j] = n
    BY <1>4
  <2> QED
    BY <1>0, <1>a, <1>b, <1>5, <2>1 DEF BlocksOwned, ListedBy
<1>9. AttachedOwned
  <2>1. \A n \in 5..7 : n - 3 \in 2..4 /\ parent[n] = n - 3 /\ children[n - 3][1] = n
    BY <1>b, <1>4
  <2> QED
    BY <1>0, <1>1, <1>a, <1>4, <2>1 DEF AttachedOwned, ListedBy
<1>10. ListedAttached
  BY <1>1, <1>4, <1>5 DEF ListedAttached
<1> QED
  BY <1>1, <1>2, <1>3, <1>5, <1>6, <1>7, <1>8, <1>9, <1>10
     DEF EditInv, IInv, Ownership, OneFunction

\* The edits of the node table that leave every kind alone.
LEMMA EditKeepsKinds ==
  ASSUME EditInv, Splice \/ GlueSet PROVE EditInv'
<1>1. IInv'
  <2>1. CASE Splice
    BY <2>1, InstrReplaceIInv, InstrInsertBeforeIInv, InstrDeleteIInv DEF EditInv, Splice
  <2>2. ASSUME NEW ins \in Ids, NEW nm \in Names, InstrSetDest(ins, nm) PROVE IInv'
    BY <2>2, InstrSetDestIInv DEF EditInv
  <2>3. ASSUME NEW ins \in Ids, NEW i \in 0..MaxOperands, NEW nm \in Names \cup {NoName},
               InstrSetOperand(ins, arg_index(i) + 1, nm)
        PROVE  IInv'
    <3> DEFINE idx == arg_index(i) + 1
    <3> HIDE DEF idx
    <3>1. InstrSetOperand(ins, idx, nm)
      BY <2>3 DEF idx
    <3> QED
      BY <3>1, InstrSetOperandIInv DEF EditInv
  <2> QED
    BY <2>1, <2>2, <2>3 DEF GlueSet
<1>2. kind' = kind /\ functions' = functions
  BY DEF Splice, GlueSet, InstrReplace, InstrInsertBefore, InstrDelete, InstrSetDest, InstrSetOperand
<1> QED
  BY <1>1, <1>2, FunctionKept DEF EditInv

LEMMA DeleteInv ==
  ASSUME EditInv, NEW blk \in Ids, GlueBlockDelete(blk)
  PROVE  EditInv'
<1>1. IInv' /\ functions' = functions
  BY BlockDeleteIInv DEF GlueBlockDelete, BlockDelete, EditInv
<1>2. kind[blk] = "block" /\ \A n \in ToSet(children[blk]) : kind[n] = "instr"
  BY DEF GlueBlockDelete, BlockDelete, Live, EditInv, IInv, Ownership, Lists, ToSet
<1>3. \A n \in Ids : kind'[n] = "function" <=> kind[n] = "function"
  BY <1>2 DEF GlueBlockDelete, BlockDelete
<1> QED
  BY <1>1, <1>3, FunctionKept DEF EditInv

LEMMA MergeInv ==
  ASSUME EditInv, NEW first \in Ids, NEW second \in Ids, GlueBlockMerge(first, second)
  PROVE  EditInv'
<1>1. IInv' /\ functions' = functions
  BY BlockMergeIInv DEF GlueBlockMerge, BlockMerge, EditInv
<1> DEFINE jump == Last(children[first])
<1>2. kind[first] = "block" /\ kind[second] = "block" /\ jump \in Ids /\ kind[jump] = "instr"
  <2>1. Mergeable(first, second) /\ IInv
    BY DEF GlueBlockMerge, BlockMerge, EditInv
  <2>2. kind[first] = "block" /\ kind[second] = "block" /\ Len(children[first]) \in Nat \ {0}
    BY <2>1, MergeableFacts
  <2>3. children[first] \in Seq(Ids)
    BY <2>1 DEF IInv, TypeOK
  <2>4. jump = children[first][Len(children[first])] /\ Len(children[first]) \in DOMAIN children[first]
    BY <2>2, <2>3 DEF Last
  <2> QED
    BY <2>1, <2>2, <2>3, <2>4 DEF IInv, Ownership, Lists
<1>3. kind' = kind \/ kind' = [kind EXCEPT ![jump] = "dead", ![second] = "dead"]
  BY DEF GlueBlockMerge, BlockMerge
<1>4. kind \in [Ids -> Kinds]
  BY DEF EditInv, IInv, TypeOK
<1> HIDE DEF jump
<1>5. \A n \in Ids : kind'[n] = "function" <=> kind[n] = "function"
  BY <1>2, <1>3, <1>4
<1> QED
  BY <1>1, <1>5, FunctionKept DEF EditInv

LEMMA BuildInv ==
  ASSUME EditInv, NEW op \in Opcodes, NEW ops \in {<<>>, <<NoName>>}, GlueBuild(op, ops)
  PROVE  EditInv'
<1>1. ops \in Seq(Names \cup {NoName})
  <2>1. <<>> \in Seq(Names \cup {NoName}) /\ <<NoName>> \in Seq(Names \cup {NoName})
    OBVIOUS
  <2> QED
    BY <2>1
<1>2. NewNode("instr", NoName, op, ops, 0) /\ UNCHANGED <<functions, children, attached>>
  BY DEF GlueBuild
<1>3. IInv'
  BY <1>1, <1>2, InstrBuildIInv DEF EditInv
<1>4. Created(node_count + 1, "instr", 0)
  BY <1>1, <1>2, NewNodeFacts DEF EditInv, Kinds
<1>5. \A n \in Ids : kind'[n] = "function" <=> kind[n] = "function"
  BY <1>4 DEF Created
<1> QED
  BY <1>2, <1>3, <1>5, FunctionKept DEF EditInv

\* Nothing that host or kernel does takes the module out of its invariant.
LEMMA EditNextInv ==
  ASSUME EditInv, [ExecNext]_allVars PROVE EditInv'
<1>1. CASE UNCHANGED vars
  BY <1>1 DEF vars, EditInv, OneFunction, IInv, TypeOK, Fresh, Ownership, Lists, BlocksOwned,
              ListedBy, AttachedOwned, ListedAttached
<1>2. CASE GlueCall
  BY <1>2, EditKeepsKinds, DeleteInv, MergeInv, BuildInv DEF GlueCall
<1> QED
  BY <1>1, <1>2 DEF ExecNext, allVars

THEOREM EditsSound == ExecSpec => []EditInv
<1>1. EditInv /\ [ExecNext]_allVars => EditInv'
  BY EditNextInv
<1> QED
  BY <1>1, StartInv, PTL DEF ExecSpec

(***************************************************************************)
(* The walk.  -ref answers what is at the place when no vector is longer   *)
(* than an int counts, and a vector without repetitions never is.          *)
(***************************************************************************)
LEMMA IndexExact ==
  ASSUME NEW i \in 0..(MaxNodes - 1) PROVE arg_index(i) = i
<1>1. IntRange \in Nat \ {0} /\ 2 * MaxNodes <= IntRange /\ MaxNodes \in Nat
  BY IRAssumption, ExecAssumption
<1>2. i \in Nat /\ i < IntRange /\ 2 * i < IntRange
  BY <1>1
<1>3. i % IntRange = i
  BY <1>1, <1>2
<1> QED
  BY <1>1, <1>2, <1>3 DEF arg_index

LEMMA VectorFits ==
  ASSUME NEW s \in Seq(Ids), \A i, j \in DOMAIN s : s[i] = s[j] => i = j
  PROVE  Len(s) \in Nat /\ Len(s) <= MaxNodes
<1>1. Len(s) \in Nat /\ DOMAIN s = 1..Len(s) /\ s \in [1..Len(s) -> Ids]
  OBVIOUS
<1>2. IsFiniteSet(Ids) /\ Cardinality(Ids) = MaxNodes
  <2>1. MaxNodes \in Nat
    BY IRAssumption
  <2> QED
    BY <2>1, FS_Interval DEF Ids
<1>3. IsFiniteSet(1..Len(s)) /\ Cardinality(1..Len(s)) = Len(s)
  BY <1>1, FS_Interval
<1>4. s \in Injection(1..Len(s), Ids)
  BY <1>1 DEF Injection, IsInjective
<1>5. Cardinality(1..Len(s)) <= Cardinality(Ids)
  BY <1>2, <1>4, FS_Injection DEF ExistsInjection
<1> QED
  BY <1>1, <1>2, <1>3, <1>5

LEMMA RefExact ==
  ASSUME NEW of, NEW n, NEW s, s = Listing(of, n),
         Len(s) \in Nat, Len(s) <= MaxNodes, NEW i \in 0..(Len(s) - 1)
  PROVE  RefAt(of, n, i) = s[i + 1]
<1>1. MaxNodes \in Nat /\ i \in 0..(MaxNodes - 1)
  BY IRAssumption
<1>2. arg_index(i) = i
  BY <1>1, IndexExact
<1>3. RefAt(of, n, i) = IF arg_index(i) \in 0..(Len(s) - 1) THEN s[arg_index(i) + 1] ELSE 0
  BY DEF RefAt
<1> QED
  BY <1>2, <1>3

\* What the -count and -ref pairs answer about a live function and a live block.
LEMMA Answers ==
  ASSUME EditInv
  PROVE  /\ CountOf("ir-function", 0) = 1 /\ RefAt("ir-function", 0, 0) = 1
         /\ \A f \in Ids : kind[f] = "function" =>
              /\ CountOf("function-block", f) = Len(children[f])
              /\ \A i \in 0..(Len(children[f]) - 1) :
                   RefAt("function-block", f, i) = children[f][i + 1]
         /\ \A b \in Ids : kind[b] = "block" =>
              /\ CountOf("block-instr", b) = Len(children[b])
              /\ \A i \in 0..(Len(children[b]) - 1) :
                   RefAt("block-instr", b, i) = children[b][i + 1]
<1>1. Listing("ir-function", 0) = <<1>>
  BY DEF Listing, EditInv, OneFunction
<1>2. CountOf("ir-function", 0) = 1 /\ RefAt("ir-function", 0, 0) = 1
  <2> DEFINE s == <<1>>
  <2>1. Len(s) = 1 /\ s[1] = 1
    OBVIOUS
  <2>2. s = Listing("ir-function", 0)
    BY <1>1
  <2> HIDE DEF s
  <2>3. Len(s) \in Nat /\ Len(s) <= MaxNodes /\ 0 \in 0..(Len(s) - 1)
    BY <2>1, IRAssumption, ExecAssumption
  <2>4. RefAt("ir-function", 0, 0) = s[0 + 1]
    BY <2>2, <2>3, RefExact
  <2> QED
    BY <2>1, <2>2, <2>4 DEF CountOf
<1>3. ASSUME NEW p \in Ids, kind[p] \in {"function", "block"}
      PROVE  Len(children[p]) \in Nat /\ Len(children[p]) <= MaxNodes
  <2>1. children[p] \in Seq(Ids)
    BY DEF EditInv, IInv, TypeOK
  <2>2. \A i, j \in DOMAIN children[p] : children[p][i] = children[p][j] => i = j
    BY <1>3 DEF EditInv, IInv, Ownership, Lists
  <2> QED
    BY <2>1, <2>2, VectorFits
<1>4. ASSUME NEW f \in Ids, kind[f] = "function"
      PROVE  /\ CountOf("function-block", f) = Len(children[f])
             /\ \A i \in 0..(Len(children[f]) - 1) :
                  RefAt("function-block", f, i) = children[f][i + 1]
  <2>1. children[f] = Listing("function-block", f)
    BY <1>4 DEF Listing, Live
  <2> QED
    BY <1>3, <1>4, <2>1, RefExact DEF CountOf
<1>5. ASSUME NEW b \in Ids, kind[b] = "block"
      PROVE  /\ CountOf("block-instr", b) = Len(children[b])
             /\ \A i \in 0..(Len(children[b]) - 1) :
                  RefAt("block-instr", b, i) = children[b][i + 1]
  <2>1. children[b] = Listing("block-instr", b)
    BY <1>5 DEF Listing, Live
  <2> QED
    BY <1>3, <1>5, <2>1, RefExact DEF CountOf
<1> QED
  BY <1>2, <1>4, <1>5

\* An owner's vector as the accessors see it, counted from 0.
LEMMA Places ==
  ASSUME EditInv, NEW p \in Ids, kind[p] \in {"function", "block"}
  PROVE  /\ Len(children[p]) \in Nat
         /\ \A i \in 0..(Len(children[p]) - 1) :
              i + 1 \in DOMAIN children[p] /\ children[p][i + 1] \in Ids
         /\ \A i, j \in 0..(Len(children[p]) - 1) :
              children[p][i + 1] = children[p][j + 1] => i = j
         /\ \A k \in DOMAIN children[p] :
              k - 1 \in 0..(Len(children[p]) - 1) /\ children[p][(k - 1) + 1] = children[p][k]
<1> DEFINE s == children[p]
<1>1. s \in Seq(Ids) /\ \A i, j \in DOMAIN s : s[i] = s[j] => i = j
  BY DEF EditInv, IInv, TypeOK, Ownership, Lists
<1> HIDE DEF s
<1>2. Len(s) \in Nat /\ DOMAIN s = 1..Len(s) /\ \A i \in 1..Len(s) : s[i] \in Ids
  BY <1>1
<1>3. \A i \in 0..(Len(s) - 1) : i + 1 \in DOMAIN s /\ s[i + 1] \in Ids
  BY <1>2
<1>4. \A i, j \in 0..(Len(s) - 1) : s[i + 1] = s[j + 1] => i = j
  <2> SUFFICES ASSUME NEW i \in 0..(Len(s) - 1), NEW j \in 0..(Len(s) - 1), s[i + 1] = s[j + 1]
               PROVE  i = j
    OBVIOUS
  <2>1. i + 1 = j + 1
    BY <1>1, <1>3
  <2> QED
    BY <2>1
<1>5. \A k \in DOMAIN s : k - 1 \in 0..(Len(s) - 1) /\ (k - 1) + 1 = k
  BY <1>2
<1> QED
  BY <1>2, <1>3, <1>4, <1>5 DEF s

LEMMA WalkFromInv == EditInv => WalkComplete
<1> SUFFICES ASSUME EditInv PROVE WalkComplete
  OBVIOUS
<1>0. 1 \in Ids /\ kind[1] = "function" /\ \A n \in Ids : kind[n] = "function" => n = 1
  BY IRAssumption, ExecAssumption DEF EditInv, OneFunction, Ids
<1>1. Functions = {0} /\ FunctionAt(0) = 1
  BY Answers DEF Functions, FunctionAt
<1> DEFINE B == 0..(Len(children[1]) - 1)
<1>2. BlockPlaces = {0} \X B
  BY <1>0, <1>1, Answers DEF BlockPlaces
<1>3. \A i \in B : <<0, i>> \in BlockPlaces /\ BlockAt(<<0, i>>) = children[1][i + 1]
  BY <1>0, <1>1, <1>2, Answers DEF BlockAt
<1>4. \A p \in BlockPlaces : \E i \in B : p = <<0, i>>
  BY <1>2
<1>5. \A p \in BlockPlaces : BlockAt(p) \in Ids /\ kind[BlockAt(p)] = "block"
  <2>1. \A i \in B : kind[children[1][i + 1]] = "block" /\ children[1][i + 1] \in Ids
    BY <1>0, Places DEF EditInv, IInv, Ownership, Lists
  <2> QED
    BY <1>3, <1>4, <2>1
<1>6. ASSUME NEW p \in BlockPlaces, NEW q \in BlockPlaces, BlockAt(p) = BlockAt(q) PROVE p = q
  <2>1. PICK i \in B : p = <<0, i>>
    BY <1>4
  <2>2. PICK j \in B : q = <<0, j>>
    BY <1>4
  <2>3. i = j
    BY <1>0, <1>3, <1>6, <2>1, <2>2, Places
  <2> QED
    BY <2>1, <2>2, <2>3
<1>7. ASSUME NEW n \in Ids, kind[n] = "block" PROVE \E p \in BlockPlaces : BlockAt(p) = n
  <2>1. parent[n] \in Ids /\ kind[parent[n]] = "function"
        /\ \E k \in DOMAIN children[parent[n]] : children[parent[n]][k] = n
    BY <1>7 DEF EditInv, IInv, Ownership, BlocksOwned, ListedBy
  <2>2. PICK k \in DOMAIN children[1] : children[1][k] = n
    BY <1>0, <2>1
  <2>3. k - 1 \in B /\ children[1][(k - 1) + 1] = n
    BY <1>0, <2>2, Places
  <2> QED
    BY <1>3, <2>3
<1>8. {BlockAt(p) : p \in BlockPlaces} = {n \in Ids : kind[n] = "block"}
  BY <1>5, <1>7
<1> HIDE DEF B
<1> DEFINE I(p) == 0..(Len(children[BlockAt(p)]) - 1)
<1>9. InstrPlaces = UNION {{p} \X I(p) : p \in BlockPlaces}
  BY <1>5, Answers DEF InstrPlaces
<1>10. \A p \in BlockPlaces : \A i \in I(p) :
         <<p, i>> \in InstrPlaces /\ InstrAt(<<p, i>>) = children[BlockAt(p)][i + 1]
  BY <1>5, <1>9, Answers DEF InstrAt
<1>11. \A q \in InstrPlaces : \E p \in BlockPlaces : \E i \in I(p) : q = <<p, i>>
  BY <1>9
<1>12. \A p \in BlockPlaces : \A i \in I(p) :
         /\ children[BlockAt(p)][i + 1] \in attached
         /\ parent[children[BlockAt(p)][i + 1]] = BlockAt(p)
  <2> TAKE p \in BlockPlaces
  <2> DEFINE b == BlockAt(p)
  <2>1. b \in Ids /\ kind[b] = "block"
    BY <1>5
  <2> HIDE DEF b
  <2>2. \A i \in 0..(Len(children[b]) - 1) :
          children[b][i + 1] \in attached /\ parent[children[b][i + 1]] = b
    BY <2>1, Places DEF EditInv, IInv, Ownership, Lists, ListedAttached
  <2> QED
    BY <2>2 DEF b
<1>13. ASSUME NEW q \in InstrPlaces, NEW r \in InstrPlaces, InstrAt(q) = InstrAt(r) PROVE q = r
  <2>1. PICK p1 \in BlockPlaces : \E i \in I(p1) : q = <<p1, i>>
    BY <1>11
  <2>2. PICK i1 \in I(p1) : q = <<p1, i1>>
    BY <2>1
  <2>3. PICK p2 \in BlockPlaces : \E i \in I(p2) : r = <<p2, i>>
    BY <1>11
  <2>4. PICK i2 \in I(p2) : r = <<p2, i2>>
    BY <2>3
  <2>5. children[BlockAt(p1)][i1 + 1] = children[BlockAt(p2)][i2 + 1]
    BY <1>10, <1>13, <2>2, <2>4
  <2>6. BlockAt(p1) = BlockAt(p2)
    BY <1>12, <2>5
  <2>7. p1 = p2
    BY <1>6, <2>6
  <2>8. i1 = i2
    BY <1>5, <2>5, <2>7, Places
  <2> QED
    BY <2>2, <2>4, <2>7, <2>8
<1>14. ASSUME NEW n \in attached PROVE \E q \in InstrPlaces : InstrAt(q) = n
  <2> DEFINE b == parent[n]
  <2>1. b \in Ids /\ kind[b] = "block" /\ \E k \in DOMAIN children[b] : children[b][k] = n
    BY DEF EditInv, IInv, Ownership, AttachedOwned, ListedBy
  <2>2. PICK p \in BlockPlaces : BlockAt(p) = b
    BY <1>7, <2>1
  <2>3. PICK k \in DOMAIN children[b] : children[b][k] = n
    BY <2>1
  <2>4. k - 1 \in 0..(Len(children[b]) - 1) /\ children[b][(k - 1) + 1] = n
    BY <2>1, <2>3, Places
  <2> HIDE DEF b
  <2>5. <<p, k - 1>> \in InstrPlaces /\ InstrAt(<<p, k - 1>>) = n
    BY <1>10, <2>2, <2>4
  <2> QED
    BY <2>5
<1>15. {InstrAt(q) : q \in InstrPlaces} = attached
  <2>1. \A q \in InstrPlaces : InstrAt(q) \in attached
    BY <1>10, <1>11, <1>12
  <2> QED
    BY <1>14, <2>1
<1> DEFINE blocks == {<<p, BlockAt(p)>> : p \in BlockPlaces}
           instrs == {<<q, InstrAt(q)>> : q \in InstrPlaces}
<1>16. /\ {m[2] : m \in blocks} = {n \in Ids : kind[n] = "block"}
       /\ \A m, n \in blocks : m[2] = n[2] => m = n
  <2>1. \A m \in blocks : \E p \in BlockPlaces : m = <<p, BlockAt(p)>>
    OBVIOUS
  <2>2. \A p \in BlockPlaces : <<p, BlockAt(p)>> \in blocks
    OBVIOUS
  <2> HIDE DEF blocks
  <2>3. {m[2] : m \in blocks} = {BlockAt(p) : p \in BlockPlaces}
    <3>1. \A m \in blocks : \E p \in BlockPlaces : m[2] = BlockAt(p)
      BY <2>1
    <3>2. \A p \in BlockPlaces : \E m \in blocks : m[2] = BlockAt(p)
      <4> TAKE p \in BlockPlaces
      <4>1. <<p, BlockAt(p)>> \in blocks /\ <<p, BlockAt(p)>>[2] = BlockAt(p)
        BY <2>2
      <4>2. QED
        BY <4>1, Zenon
    <3>3. QED
      BY <3>1, <3>2
  <2>4. QED
    BY <1>6, <1>8, <2>1, <2>3
<1>17. /\ {m[2] : m \in instrs} = attached
       /\ \A m, n \in instrs : m[2] = n[2] => m = n
  <2>1. \A m \in instrs : \E q \in InstrPlaces : m = <<q, InstrAt(q)>>
    OBVIOUS
  <2>2. \A q \in InstrPlaces : <<q, InstrAt(q)>> \in instrs
    OBVIOUS
  <2> HIDE DEF instrs
  <2>3. {m[2] : m \in instrs} = {InstrAt(q) : q \in InstrPlaces}
    <3>1. \A m \in instrs : \E q \in InstrPlaces : m[2] = InstrAt(q)
      BY <2>1
    <3>2. \A q \in InstrPlaces : \E m \in instrs : m[2] = InstrAt(q)
      <4> TAKE q \in InstrPlaces
      <4>1. <<q, InstrAt(q)>> \in instrs /\ <<q, InstrAt(q)>>[2] = InstrAt(q)
        BY <2>2
      <4>2. QED
        BY <4>1, Zenon
    <3>3. QED
      BY <3>1, <3>2
  <2>4. QED
    BY <1>13, <1>15, <2>1, <2>3
<1> QED
  BY <1>16, <1>17, Zenon DEF WalkComplete

LEMMA HostTypesInit == ExecInit => HostTypes
BY DEF ExecInit, HostTypes

LEMMA HostTypesNext ==
  ASSUME HostTypes, [ExecNext]_allVars PROVE HostTypes'
<1>1. CASE UNCHANGED <<bindings, refused>>
  BY <1>1 DEF HostTypes
<1>2. ASSUME NEW acc \in Accessors, NEW v \in Versions, Register(acc, v) PROVE HostTypes'
  BY <1>2 DEF Register, HostTypes
<1>3. ASSUME NEW kinds \in {{}, {"block_delete"}, EditKinds}, SetEditHook(kinds) PROVE HostTypes'
  BY <1>3 DEF SetEditHook, HostTypes, EditKinds
<1>4. CASE HostCall
  BY <1>1, <1>2, <1>3, <1>4 DEF HostCall, Load, Unload, CapabilityCount, Capability, Apply
<1> QED
  BY <1>1, <1>4 DEF ExecNext, Return, ChangeOffer, xvars, allVars

\* Whatever kernels do through the accessors, a walk with -count and -ref still finds
\* every live block and every attached instruction exactly once, and the executor's
\* slots are what loads and unloads left (ccw_host_accessors.c, ccw_s7_executor.c).
THEOREM SlotsStaySound == ExecSpec => []SlotsSound
<1>1. ExecSpec => []HostTypes
  <2>1. HostTypes /\ [ExecNext]_allVars => HostTypes'
    BY HostTypesNext
  <2> QED
    BY <2>1, HostTypesInit, PTL DEF ExecSpec
<1>2. ExecIInv /\ EditInv /\ HostTypes => ExecTypeOK
  <2> SUFFICES ASSUME ExecIInv, EditInv, HostTypes PROVE ExecTypeOK
    OBVIOUS
  <2>1. kernels \in Seq(Slot)
    BY DEF ExecIInv, ExecTypes
  <2>2. \A id \in DOMAIN kernels : kernels[id] \in Slot
    BY <2>1
  <2>3. \A id \in DOMAIN kernels :
          kernels[id].caps \subseteq Caps /\ (kernels[id].live => kernels[id].key \in Keys)
    BY <2>2 DEF Slot, ExecIInv, ExecTypes
  <2>4. kernel_loaded = (kernels # <<>>) /\ libs \in [Keys -> Files \cup {NoFile}]
        /\ current_ir \in IRs \cup {NoIR}
    BY DEF ExecIInv, ExecTypes, SomeFile
  <2> QED
    BY <2>3, <2>4 DEF ExecTypeOK, HostTypes, EditInv, IInv
<1> QED
  BY <1>1, <1>2, ExecInductive, EditsSound, WalkFromInv, PTL DEF SlotsSound

\* The edits the hook refuses do not happen by another accessor: acc_block_merge asks
\* about the deletion it implies, and no other call kills a block or moves a listed
\* instruction (edit_allowed, ccw_host_accessors.c).
THEOREM RefusalsHold == ExecSpec => RefusalHolds
<1> DEFINE Held ==
  /\ ~edit_allowed("block_delete") => \A n \in Ids : kind[n] = "block" => kind'[n] = "block"
  /\ {"replace", "delete", "block_delete"} \subseteq refused => attached \subseteq attached'
  /\ {"replace", "insert_before"} \subseteq refused => attached' \subseteq attached
<1>1. EditInv /\ [ExecNext]_allVars => [Held]_allVars
  <2> SUFFICES ASSUME EditInv, ExecNext PROVE Held
    OBVIOUS
  <2>1. CASE UNCHANGED vars
    BY <2>1 DEF vars
  <2>2. ASSUME NEW old \in Ids, NEW new \in Ids, edit_allowed("replace"), InstrReplace(old, new)
        PROVE  Held
    BY <2>2 DEF edit_allowed, InstrReplace
  <2>3. ASSUME NEW a \in Ids, NEW new \in Ids, edit_allowed("insert_before"),
               InstrInsertBefore(a, new)
        PROVE  Held
    BY <2>3 DEF edit_allowed, InstrInsertBefore
  <2>4. ASSUME NEW ins \in Ids, edit_allowed("delete"), InstrDelete(ins) PROVE Held
    BY <2>4 DEF edit_allowed, InstrDelete
  <2>5. ASSUME NEW blk \in Ids, GlueBlockDelete(blk) PROVE Held
    BY <2>5 DEF GlueBlockDelete, edit_allowed, BlockDelete
  <2>6. ASSUME NEW first \in Ids, NEW second \in Ids, GlueBlockMerge(first, second) PROVE Held
    BY <2>6 DEF GlueBlockMerge, edit_allowed, BlockMerge
  <2>7. ASSUME NEW op \in Opcodes, NEW ops \in {<<>>, <<NoName>>}, GlueBuild(op, ops) PROVE Held
    <3>1. kind[node_count + 1] = "dead" /\ kind \in [Ids -> Kinds] /\ attached' = attached
      BY <2>7, IRAssumption DEF GlueBuild, NewNode, EditInv, IInv, TypeOK, Fresh, Ids
    <3>2. kind' = [kind EXCEPT ![node_count + 1] = "instr"]
      BY <2>7 DEF GlueBuild, NewNode
    <3> QED
      BY <3>1, <3>2
  <2>8. CASE GlueSet
    BY <2>8 DEF GlueSet, InstrSetDest, InstrSetOperand
  <2>9. CASE GlueCall
    BY <2>2, <2>3, <2>4, <2>5, <2>6, <2>7, <2>8, <2>9 DEF GlueCall, Splice
  <2> QED
    BY <2>1, <2>9 DEF ExecNext
<1> QED
  BY <1>1, EditsSound, PTL DEF ExecSpec, RefusalHolds

=============================================================================
