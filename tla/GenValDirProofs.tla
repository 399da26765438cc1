--------------------------- MODULE GenValDirProofs ---------------------------
(***************************************************************************)
(* Proofs about GenValDir for any number of generations, validations and   *)
(* restarts.                                                               *)
(***************************************************************************)
EXTENDS GenValDir, TLAPS

CallSteps == {"idle", "sweep", "unlink", "start", "wait", "collect",
              "returned", "raised", "lost"}
EngineSteps == {"off", "reading", "writing", "zero", "nonzero"}

\* A file, but for a grade, is named by the call it was computed from.
Named == Calls \union {NoFile}
Contents == Named \union (Named \X Named)
Results == UNION {[fs -> Contents] : fs \in SUBSET Files}

\* The types of the directory, the calls and their engines.
TypeOK == /\ dir \in [Files -> Contents]
          /\ \A f \in Files \ {"validation"} : dir[f] \in Named
          /\ created \in BOOLEAN
          /\ key \in Named
          /\ pc \in [Calls -> CallSteps]
          /\ sent \in [Calls -> Named]
          /\ engine \in [Calls -> EngineSteps]
          /\ input \in [Calls -> Contents]
          /\ \A c \in Generations : input[c] \in Named
          /\ out \in [Calls -> Results]
          /\ restarts \in Nat
          /\ disturbed \subseteq Calls

\* A call that had the directory to itself so far still has.
AloneInv ==
    \A c \in Calls \ disturbed : UnderWay(c) =>
        \A d \in Calls \ {c} : ~UnderWay(d)

AtWork == {"sweep", "unlink", "start", "wait", "collect"}

\* Such a generation finds in the directory its own registration, and no
\* vectors but those its own engine computes from it.
GenerationFiles(c) ==
    /\ pc[c] \in AtWork =>
          /\ dir["registration"] = c
          /\ \A f \in Outputs(c) : dir[f] \in {c, NoFile}
    /\ pc[c] = "wait" /\ engine[c] = "writing" => input[c] = c
    /\ pc[c] = "returned" =>
          /\ out[c]["prompt"] = c
          /\ out[c]["internalProjection"] = c
          /\ out[c]["expectedResults"] \in {c, NoFile}

\* Such a validation finds in it the key and the response it wrote, and from
\* its sweep on no grade but its own.
ValidationFiles(c) ==
    /\ pc[c] \in AtWork =>
          /\ dir["internalProjection"] = sent[c]
          /\ dir["response"] = c
    /\ pc[c] \in {"start", "wait", "collect"} =>
          dir["validation"] \in {<<sent[c], c>>, NoFile}
    /\ pc[c] = "wait" /\ engine[c] = "writing" => input[c] = <<sent[c], c>>
    /\ pc[c] = "returned" => out[c]["validation"] = <<sent[c], c>>

FilesInv == /\ \A c \in Generations \ disturbed : GenerationFiles(c)
            /\ \A c \in Validations \ disturbed : ValidationFiles(c)

IInv == TypeOK /\ NoEngineOutlivesItsCall /\ AloneInv /\ FilesInv

-----------------------------------------------------------------------------
\* Which files an engine writes.
LEMMA OutputFacts ==
    /\ \A c \in Generations :
          Outputs(c) = {"prompt", "internalProjection", "expectedResults"}
    /\ \A c \in Validations : Outputs(c) = {"validation"}
    /\ \A c \in Calls : Outputs(c) \subseteq Files /\ Required(c) \subseteq Outputs(c)
BY CallsAssumption DEF Outputs, Required, Files, Calls

\* What a call returns is a part of the directory.
LEMMA ResultFact ==
    ASSUME NEW fs \in SUBSET Files, NEW g \in [fs -> Contents]
    PROVE  g \in Results
BY DEF Results

\* The initial state satisfies the invariant.
LEMMA InitIInv == Init => IInv
<1> SUFFICES ASSUME Init PROVE IInv
  OBVIOUS
<1>1. TypeOK
  <2>1. out \in [Calls -> Results]
    <3>1. ASSUME NEW c \in Calls PROVE [f \in Outputs(c) |-> NoFile] \in Results
      <4>1. [f \in Outputs(c) |-> NoFile] \in [Outputs(c) -> Contents]
        BY DEF Contents, Named
      <4>2. QED
        BY <4>1, ResultFact, OutputFacts
    <3>2. QED
      BY <3>1 DEF Init
  <2>2. QED
    BY <2>1 DEF Init, TypeOK, CallSteps, EngineSteps, Contents, Named, Calls
<1>2. NoEngineOutlivesItsCall
  BY DEF Init, NoEngineOutlivesItsCall, Running
<1>3. AloneInv
  BY DEF Init, AloneInv, UnderWay, Running
<1>4. FilesInv
  BY DEF Init, FilesInv, GenerationFiles, ValidationFiles, AtWork, Calls
<1>5. QED
  BY <1>1, <1>2, <1>3, <1>4 DEF IInv

-----------------------------------------------------------------------------
(* Types.                                                                  *)

\* A call writing the files it starts from keeps every type.
LEMMA BeginTypeOK ==
    ASSUME TypeOK, NEW c \in Calls, BeginGenerate(c) \/ BeginValidate(c)
    PROVE  TypeOK'
<1>1. disturbed' \subseteq Calls
  BY DEF TypeOK, BeginGenerate, BeginValidate, Share
<1>2. dir' \in [Files -> Contents] /\ \A f \in Files \ {"validation"} : dir'[f] \in Named
  BY DEF TypeOK, BeginGenerate, BeginValidate, Contents, Named, Files
<1>3. pc' \in [Calls -> CallSteps] /\ sent' \in [Calls -> Named]
  BY DEF TypeOK, BeginGenerate, BeginValidate, CallSteps
<1>4. QED
  BY <1>1, <1>2, <1>3 DEF TypeOK, BeginGenerate, BeginValidate

\* A call collecting its files keeps every type.
LEMMA CollectTypeOK ==
    ASSUME TypeOK, NEW c \in Calls, Collect(c)
    PROVE  TypeOK'
<1>1. [f \in Outputs(c) |-> dir[f]] \in Results
  <2>1. [f \in Outputs(c) |-> dir[f]] \in [Outputs(c) -> Contents]
    BY OutputFacts DEF TypeOK
  <2>2. QED
    BY <2>1, ResultFact, OutputFacts
<1>2. out' \in [Calls -> Results]
  <2> DEFINE g == [f \in Outputs(c) |-> dir[f]]
  <2>1. out' = [out EXCEPT ![c] = g] \/ out' = out
    BY DEF Collect
  <2>2. g \in Results
    BY <1>1
  <2> HIDE DEF g
  <2>3. QED
    BY <2>1, <2>2 DEF TypeOK
<1>3. key' \in Named /\ pc' \in [Calls -> CallSteps]
  BY DEF Collect, Raise, TypeOK, CallSteps, Named, Calls
<1>4. QED
  BY <1>2, <1>3 DEF Collect, TypeOK

\* An engine reading or writing a file keeps every type.
LEMMA EngineTypeOK ==
    ASSUME TypeOK, NEW c \in Calls, EngineReads(c) \/ EngineWrites(c)
    PROVE  TypeOK'
<1>1. CASE EngineReads(c)
  <2>1. dir["internalProjection"] \in Named /\ dir["response"] \in Named
        /\ dir["registration"] \in Named
    BY DEF TypeOK, Files
  <2>2. input' \in [Calls -> Contents]
    BY <1>1, <2>1 DEF EngineReads, TypeOK, Contents
  <2>3. \A d \in Generations : input'[d] \in Named
    BY <1>1, <2>1 DEF EngineReads, TypeOK
  <2>4. QED
    BY <1>1, <2>2, <2>3 DEF EngineReads, TypeOK, EngineSteps
<1>2. CASE EngineWrites(c)
  <2>1. PICK f \in Outputs(c) : dir' = [dir EXCEPT ![f] = input[c]]
    BY <1>2 DEF EngineWrites
  <2>2. f = "validation" \/ input[c] \in Named
    BY <2>1, OutputFacts DEF TypeOK, Calls
  <2>3. QED
    BY <1>2, <2>1, <2>2, OutputFacts DEF EngineWrites, TypeOK
<1>3. QED
  BY <1>1, <1>2

\* A restart keeps every type.
LEMMA RestartTypeOK == TypeOK /\ Restart => TypeOK'
<1> SUFFICES ASSUME TypeOK, Restart PROVE TypeOK'
  OBVIOUS
<1>1. input' \in [Calls -> Contents] /\ \A c \in Generations : input'[c] \in Named
  BY DEF Restart, TypeOK, Contents, Named, Calls
<1>2. engine' \in [Calls -> EngineSteps] /\ pc' \in [Calls -> CallSteps]
  BY DEF Restart, TypeOK, EngineSteps, CallSteps
<1>3. key' \in Named /\ created' \in BOOLEAN
  BY DEF Restart, TypeOK, Named
<1>4. QED
  BY <1>1, <1>2, <1>3 DEF Restart, TypeOK

\* Every step keeps every type.
LEMMA StepTypeOK == TypeOK /\ [Next]_vars => TypeOK'
<1> SUFFICES ASSUME TypeOK, [Next]_vars PROVE TypeOK'
  OBVIOUS
<1>1. ASSUME NEW c \in Calls, Sweep(c) \/ Unlink(c) \/ Start(c)
      PROVE  TypeOK'
  BY <1>1 DEF Sweep, Unlink, Start, Raise, TypeOK, CallSteps, EngineSteps, Contents, Named
<1>2. ASSUME NEW c \in Calls, Timeout(c) \/ Exited(c) \/ EngineExits(c)
      PROVE  TypeOK'
  <2>1. input' \in [Calls -> Contents] /\ \A d \in Generations : input'[d] \in Named
    BY <1>2 DEF Timeout, Exited, EngineExits, TypeOK, Contents, Named, Calls
  <2>2. pc' \in [Calls -> CallSteps] /\ engine' \in [Calls -> EngineSteps]
    BY <1>2 DEF Timeout, Exited, EngineExits, Raise, TypeOK, CallSteps, EngineSteps
  <2>3. QED
    BY <1>2, <2>1, <2>2 DEF Timeout, Exited, EngineExits, TypeOK
<1>3. CASE UNCHANGED vars
  BY <1>3 DEF vars, TypeOK
<1>4. QED
  BY <1>1, <1>2, <1>3, BeginTypeOK, CollectTypeOK, EngineTypeOK, RestartTypeOK
     DEF Next, Call

-----------------------------------------------------------------------------
(* Engines and their calls.                                                *)

\* Every step keeps an engine with the call that waits for it, until a restart.
LEMMA StepEngines ==
    TypeOK /\ NoEngineOutlivesItsCall /\ [Next]_vars => NoEngineOutlivesItsCall'
<1> SUFFICES ASSUME TypeOK, NoEngineOutlivesItsCall, [Next]_vars
             PROVE  NoEngineOutlivesItsCall'
  OBVIOUS
<1> USE DEF TypeOK, NoEngineOutlivesItsCall, Running
<1>1. ASSUME NEW c \in Calls, BeginGenerate(c) \/ BeginValidate(c)
      PROVE  NoEngineOutlivesItsCall'
  BY <1>1 DEF BeginGenerate, BeginValidate
<1>2. ASSUME NEW c \in Calls, Sweep(c) \/ Unlink(c)
      PROVE  NoEngineOutlivesItsCall'
  BY <1>2 DEF Sweep, Unlink, Raise
<1>3. ASSUME NEW c \in Calls, Start(c) \/ Timeout(c)
      PROVE  NoEngineOutlivesItsCall'
  BY <1>3 DEF Start, Timeout, Raise
<1>4. ASSUME NEW c \in Calls, Exited(c) \/ Collect(c)
      PROVE  NoEngineOutlivesItsCall'
  BY <1>4 DEF Exited, Collect, Raise
<1>5. ASSUME NEW c \in Calls, EngineReads(c) \/ EngineWrites(c) \/ EngineExits(c)
      PROVE  NoEngineOutlivesItsCall'
  BY <1>5 DEF EngineReads, EngineWrites, EngineExits
<1>6. CASE Restart
  <2> SUFFICES ASSUME NEW c \in Calls, Running(c)'
               PROVE  pc'[c] \in {"wait", "lost"}
    OBVIOUS
  <2>1. Running(c)
    BY <1>6 DEF Restart
  <2>2. QED
    BY <1>6, <2>1 DEF Restart
<1>7. CASE UNCHANGED vars
  BY <1>7 DEF vars
<1>8. QED
  BY <1>1, <1>2, <1>3, <1>4, <1>5, <1>6, <1>7 DEF Next, Call

\* Only a call that begins comes under way.
LEMMA NobodyNew ==
    ASSUME TypeOK, NoEngineOutlivesItsCall, [Next]_vars,
           ~ \E b \in Calls : BeginGenerate(b) \/ BeginValidate(b)
    PROVE  /\ \A d \in Calls : UnderWay(d)' => UnderWay(d)
           /\ disturbed' = disturbed
<1> USE DEF TypeOK, NoEngineOutlivesItsCall, UnderWay, Running
<1>1. ASSUME NEW c \in Calls, Sweep(c) \/ Unlink(c) \/ Start(c)
      PROVE  /\ \A d \in Calls : UnderWay(d)' => UnderWay(d)
             /\ disturbed' = disturbed
  BY <1>1 DEF Sweep, Unlink, Start, Raise
<1>2. ASSUME NEW c \in Calls, Timeout(c) \/ Exited(c) \/ Collect(c)
      PROVE  /\ \A d \in Calls : UnderWay(d)' => UnderWay(d)
             /\ disturbed' = disturbed
  BY <1>2 DEF Timeout, Exited, Collect, Raise
<1>3. ASSUME NEW c \in Calls, EngineReads(c) \/ EngineWrites(c) \/ EngineExits(c)
      PROVE  /\ \A d \in Calls : UnderWay(d)' => UnderWay(d)
             /\ disturbed' = disturbed
  BY <1>3 DEF EngineReads, EngineWrites, EngineExits
<1>4. CASE Restart
  BY <1>4 DEF Restart
<1>5. CASE UNCHANGED vars
  BY <1>5 DEF vars
<1>6. QED
  BY <1>1, <1>2, <1>3, <1>4, <1>5 DEF Next, Call

\* A call that begins disturbs everybody under way, and is itself disturbed if
\* there is anybody.
LEMMA StepAlone ==
    TypeOK /\ NoEngineOutlivesItsCall /\ AloneInv /\ [Next]_vars => AloneInv'
<1> SUFFICES ASSUME TypeOK, NoEngineOutlivesItsCall, AloneInv, [Next]_vars
             PROVE  AloneInv'
  OBVIOUS
<1>1. ASSUME NEW b \in Calls, BeginGenerate(b) \/ BeginValidate(b)
      PROVE  AloneInv'
  <2>1. \A d \in Calls \ {b} : UnderWay(d)' <=> UnderWay(d)
    BY <1>1 DEF BeginGenerate, BeginValidate, TypeOK, UnderWay, Running
  <2>2. \A d \in Calls \ {b} : UnderWay(d) => d \in disturbed' /\ b \in disturbed'
    BY <1>1 DEF BeginGenerate, BeginValidate, Share
  <2>3. QED
    BY <2>1, <2>2 DEF AloneInv
<1>2. CASE ~ \E b \in Calls : BeginGenerate(b) \/ BeginValidate(b)
  BY <1>2, NobodyNew DEF AloneInv
<1>3. QED
  BY <1>1, <1>2

-----------------------------------------------------------------------------
(* Files and the calls they belong to.                                     *)

\* A file says nothing of a call that is not at work; what it returned stays.
LEMMA RestingFiles ==
    ASSUME TypeOK, TypeOK', NEW c \in Calls, ~UnderWay(c),
           pc'[c] = pc[c], out'[c] = out[c], sent'[c] = sent[c]
    PROVE  /\ GenerationFiles(c) => GenerationFiles(c)'
           /\ ValidationFiles(c) => ValidationFiles(c)'
<1>1. pc'[c] \notin AtWork /\ pc'[c] # "wait"
  BY DEF UnderWay, AtWork
<1>2. QED
  BY <1>1 DEF GenerationFiles, ValidationFiles, AtWork

\* The steps of a call and its engine that follow its beginning.
Step(a) == Call(a) \/ EngineReads(a) \/ EngineWrites(a) \/ EngineExits(a)

\* Whoever takes such a step is under way, and touches no other call's state.
LEMMA StepLocal ==
    ASSUME TypeOK, NEW a \in Calls, Step(a)
    PROVE  /\ UnderWay(a)
           /\ disturbed' = disturbed /\ sent' = sent
           /\ \A c \in Calls \ {a} : pc'[c] = pc[c] /\ out'[c] = out[c]
<1> USE DEF TypeOK, UnderWay, Running
<1>1. CASE Sweep(a) \/ Unlink(a) \/ Start(a)
  BY <1>1 DEF Sweep, Unlink, Start, Raise
<1>2. CASE Timeout(a) \/ Exited(a) \/ Collect(a)
  BY <1>2 DEF Timeout, Exited, Collect, Raise
<1>3. CASE EngineReads(a) \/ EngineWrites(a) \/ EngineExits(a)
  BY <1>3 DEF EngineReads, EngineWrites, EngineExits
<1>4. QED
  BY <1>1, <1>2, <1>3 DEF Step, Call

\* A generation that is alone keeps its files through its own steps.
LEMMA OwnGenerationStep ==
    ASSUME TypeOK, TypeOK', NoEngineOutlivesItsCall,
           NEW c \in Generations, GenerationFiles(c), Step(c)
    PROVE  GenerationFiles(c)'
<1> USE OutputFacts, CallsAssumption DEF TypeOK, GenerationFiles, AtWork, Calls, Files
<1>1. CASE Sweep(c) \/ Start(c)
  BY <1>1 DEF Sweep, Start, Raise
<1>2. CASE Unlink(c)
  BY <1>2 DEF Unlink, Raise
<1>3. CASE Timeout(c) \/ Exited(c)
  BY <1>3 DEF Timeout, Exited, Raise, Running
<1>4. CASE Collect(c)
  BY <1>4 DEF Collect, Raise, Required
<1>5. CASE EngineReads(c)
  BY <1>5 DEF EngineReads, NoEngineOutlivesItsCall, Running
<1>6. CASE EngineWrites(c)
  BY <1>6 DEF EngineWrites, NoEngineOutlivesItsCall, Running
<1>7. CASE EngineExits(c)
  BY <1>7 DEF EngineExits, Running
<1>8. QED
  BY <1>1, <1>2, <1>3, <1>4, <1>5, <1>6, <1>7 DEF Step, Call

\* And so does a validation: its sweep leaves no grade but its own.
LEMMA OwnValidationStep ==
    ASSUME TypeOK, TypeOK', NoEngineOutlivesItsCall,
           NEW c \in Validations, ValidationFiles(c), Step(c)
    PROVE  ValidationFiles(c)'
<1> USE OutputFacts, CallsAssumption DEF TypeOK, ValidationFiles, AtWork, Calls, Files
<1>1. CASE Sweep(c) \/ Start(c)
  BY <1>1 DEF Sweep, Start, Raise
<1>2. CASE Unlink(c)
  BY <1>2 DEF Unlink, Raise
<1>3. CASE Timeout(c) \/ Exited(c)
  BY <1>3 DEF Timeout, Exited, Raise, Running
<1>4. CASE Collect(c)
  BY <1>4 DEF Collect, Raise, Required
<1>5. CASE EngineReads(c)
  BY <1>5 DEF EngineReads, NoEngineOutlivesItsCall, Running
<1>6. CASE EngineWrites(c)
  <2>1. dir' = [dir EXCEPT !["validation"] = input[c]]
    <3>1. PICK f \in Outputs(c) : dir' = [dir EXCEPT ![f] = input[c]]
      BY <1>6 DEF EngineWrites
    <3>2. f = "validation"
      OBVIOUS
    <3>3. QED
      BY <3>1, <3>2
  <2>2. (pc[c] = "wait" /\ engine[c] = "writing") \/ pc[c] = "lost"
    BY <1>6 DEF EngineWrites, NoEngineOutlivesItsCall, Running
  <2>3. QED
    BY <1>6, <2>1, <2>2 DEF EngineWrites
<1>7. CASE EngineExits(c)
  BY <1>7 DEF EngineExits, Running
<1>8. QED
  BY <1>1, <1>2, <1>3, <1>4, <1>5, <1>6, <1>7 DEF Step, Call

\* A call that begins in an undisturbed directory has it as it needs it.
LEMMA BeginFiles ==
    ASSUME IInv, TypeOK', NEW b \in Calls, BeginGenerate(b) \/ BeginValidate(b)
    PROVE  FilesInv'
<1> USE DEF IInv
<1>1. ASSUME NEW c \in Calls \ disturbed', c # b
      PROVE  /\ ~UnderWay(c) /\ c \notin disturbed
             /\ pc'[c] = pc[c] /\ out'[c] = out[c] /\ sent'[c] = sent[c]
  BY <1>1 DEF BeginGenerate, BeginValidate, Share, TypeOK
<1>2. ~Running(b)
  BY DEF BeginGenerate, BeginValidate, NoEngineOutlivesItsCall
<1>3. ASSUME b \in Generations \ disturbed' PROVE GenerationFiles(b)'
  <2>1. BeginGenerate(b) /\ \A f \in Outputs(b) : dir[f] = NoFile
    BY <1>3, CallsAssumption DEF BeginGenerate, BeginValidate, Share
  <2>2. dir'["registration"] = b /\ \A f \in Outputs(b) : dir'[f] = NoFile
    BY <1>3, <2>1, OutputFacts DEF BeginGenerate, TypeOK, Files
  <2>3. pc'[b] = "start"
    BY <2>1 DEF BeginGenerate, TypeOK
  <2>4. QED
    BY <2>2, <2>3 DEF GenerationFiles
<1>4. ASSUME b \in Validations \ disturbed' PROVE ValidationFiles(b)'
  <2>1. BeginValidate(b)
    BY <1>4, CallsAssumption DEF BeginGenerate
  <2>2. dir'["internalProjection"] = sent'[b] /\ dir'["response"] = b
    BY <2>1 DEF BeginValidate, TypeOK, Files
  <2>3. pc'[b] = "sweep"
    BY <2>1 DEF BeginValidate, TypeOK
  <2>4. QED
    BY <2>2, <2>3 DEF ValidationFiles
<1>5. ASSUME NEW c \in Generations \ disturbed' PROVE GenerationFiles(c)'
  BY <1>1, <1>3, <1>5, RestingFiles DEF FilesInv, Calls
<1>6. ASSUME NEW c \in Validations \ disturbed' PROVE ValidationFiles(c)'
  BY <1>1, <1>4, <1>6, RestingFiles DEF FilesInv, Calls
<1>7. QED
  BY <1>5, <1>6 DEF FilesInv

\* While a call is alone no other call or engine takes a step, so every step
\* keeps its files.
LEMMA StepFiles ==
    ASSUME IInv, TypeOK', NEW a \in Calls, Step(a)
    PROVE  FilesInv'
<1> USE DEF IInv
<1>1. disturbed' = disturbed
  BY StepLocal
<1>2. ASSUME NEW c \in Calls \ disturbed, c # a
      PROVE  /\ ~UnderWay(c)
             /\ pc'[c] = pc[c] /\ out'[c] = out[c] /\ sent'[c] = sent[c]
  BY <1>2, StepLocal DEF AloneInv
<1>3. ASSUME NEW c \in Generations \ disturbed' PROVE GenerationFiles(c)'
  <2>1. CASE c = a
    BY <1>1, <2>1, OwnGenerationStep DEF FilesInv
  <2>2. CASE c # a
    BY <1>1, <1>2, <2>2, RestingFiles DEF FilesInv, Calls
  <2>3. QED
    BY <2>1, <2>2
<1>4. ASSUME NEW c \in Validations \ disturbed' PROVE ValidationFiles(c)'
  <2>1. CASE c = a
    BY <1>1, <2>1, OwnValidationStep DEF FilesInv
  <2>2. CASE c # a
    BY <1>1, <1>2, <2>2, RestingFiles DEF FilesInv, Calls
  <2>3. QED
    BY <2>1, <2>2
<1>5. QED
  BY <1>3, <1>4 DEF FilesInv

\* After a restart nobody is at work.
LEMMA RestartFiles ==
    ASSUME IInv, TypeOK', Restart
    PROVE  FilesInv'
<1> USE DEF IInv
<1>1. ASSUME NEW c \in Calls
      PROVE  /\ pc'[c] \notin AtWork /\ pc'[c] # "wait"
             /\ pc'[c] = "returned" => pc[c] = "returned"
             /\ out' = out /\ sent' = sent /\ disturbed' = disturbed
  BY DEF Restart, TypeOK, CallSteps, AtWork
<1>2. ASSUME NEW c \in Generations \ disturbed' PROVE GenerationFiles(c)'
  BY <1>1 DEF FilesInv, GenerationFiles, Calls
<1>3. ASSUME NEW c \in Validations \ disturbed' PROVE ValidationFiles(c)'
  BY <1>1 DEF FilesInv, ValidationFiles, AtWork, Calls
<1>4. QED
  BY <1>2, <1>3 DEF FilesInv

\* Every step keeps the invariant.
LEMMA StepIInv == IInv /\ [Next]_vars => IInv'
<1> SUFFICES ASSUME IInv, [Next]_vars PROVE IInv'
  OBVIOUS
<1>1. TypeOK' /\ NoEngineOutlivesItsCall' /\ AloneInv'
  BY StepTypeOK, StepEngines, StepAlone DEF IInv
<1>2. CASE UNCHANGED vars
  BY <1>1, <1>2 DEF vars, IInv, FilesInv, GenerationFiles, ValidationFiles
<1>3. ASSUME NEW c \in Calls, BeginGenerate(c) \/ BeginValidate(c) \/ Step(c)
      PROVE  IInv'
  BY <1>1, <1>3, BeginFiles, StepFiles DEF IInv
<1>4. CASE Restart
  BY <1>1, <1>4, RestartFiles DEF IInv
<1>5. QED
  BY <1>2, <1>3, <1>4 DEF Next, Step

-----------------------------------------------------------------------------
\* The inductive invariant holds in every reachable state.
THEOREM Invariance == Spec => []IInv
BY InitIInv, StepIInv, PTL DEF Spec

\* Only a restart leaves an engine at work after the call that started it,
\* whatever engines hang and whichever calls share the directory.
THEOREM NoEngineOutlivesItsCallHolds == Spec => []NoEngineOutlivesItsCall
<1>1. IInv => NoEngineOutlivesItsCall
  BY DEF IInv
<1>2. QED
  BY <1>1, Invariance, PTL

\* A validation that had the directory to itself returns its own grade.
THEOREM GradeIsOwnHolds == Spec => []GradeIsOwn
<1>1. IInv => GradeIsOwn
  BY DEF IInv, FilesInv, ValidationFiles, GradeIsOwn
<1>2. QED
  BY <1>1, Invariance, PTL

\* A generation that found the directory empty and had it to itself returns
\* the vectors of one run.
THEOREM VectorsAreOneRunHolds == Spec => []VectorsAreOneRun
<1>1. IInv => VectorsAreOneRun
  BY DEF IInv, FilesInv, GenerationFiles, VectorsAreOneRun
<1>2. QED
  BY <1>1, Invariance, PTL
=============================================================================
