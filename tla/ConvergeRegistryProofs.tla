----------------------- MODULE ConvergeRegistryProofs -----------------------
(***************************************************************************)
(* Proofs about ConvergeRegistry: of the calls that saw one version at     *)
(* most one is accepted, every converger that was ever made is stopped or  *)
(* found by Shutdown, and answers go to who waits for them; for any        *)
(* components, calls and bounds.                                           *)
(***************************************************************************)
EXTENDS ConvergeRegistry, TLAPS

(* What the calls and the convergers refer to exists. *)
Refs ==
  /\ \A r \in Reqs : /\ req[r].pc # "idle" => req[r].comp \in Comps
                     /\ req[r].pc \in {"set", "send", "wait"} => req[r].conv \in 1 .. made
  /\ \A k \in 1 .. made : conv[k].comp \in Comps

(* A run loop that waits for an id wants a container more. *)
Wanted == \A k \in Convs : conv[k].run = "create" => conv[k].running < conv[k].goal

Typed == TypeOK /\ Refs /\ Wanted

(* An accepted call saw a version that is over. *)
Versions ==
  /\ \A r \in Reqs : Accepted(r) => req[r].at < version
  /\ OneCallPerVersion

(* While Shutdown waits, what it finds in the map has been cancelled. *)
Stops ==
  /\ EveryConvergerIsStopped
  /\ phase = "stopping" => \A c \in Comps : byComp[c] # 0 => conv[byComp[c]].cancelled

(* The run loop and its caller know each other. *)
Served ==
  /\ \A k \in 1 .. made : conv[k].serving # None =>
       /\ req[conv[k].serving].pc = "wait" /\ req[conv[k].serving].conv = k
       /\ conv[k].run \in {"converge", "create"}
  /\ \A r \in Reqs : req[r].pc = "wait" => conv[req[r].conv].serving = r

RegistryInv == Typed /\ Versions /\ Stops /\ Served

LEMMA InitInv == Init => RegistryInv
BY RegistryAssumption DEF Init, RegistryInv, Typed, Refs, Wanted, Versions, Stops,
   Served, TypeOK,
  Converger, Call, NoConverger, NoCall, Convs, Phases, Accepted, OneCallPerVersion,
  EveryConvergerIsStopped

LEMMA ConvTyped ==
  ASSUME Typed, NEW k \in 1 .. made
  PROVE  k \in Convs /\ conv[k] \in Converger
BY RegistryAssumption DEF Typed, TypeOK, Convs

(* Fields keep their types. *)
Fields == conv \in [Convs -> Converger] /\ req \in [Reqs -> Call]

LEMMA Bounds ==
  Typed => /\ Fields /\ None \notin Reqs
           /\ made \in Nat /\ version \in Nat /\ version \in 0 .. MaxCalls
           /\ {0, MaxCount} \subseteq 0 .. MaxCount
           /\ 0 \in 0 .. MaxConvs /\ 0 \in 0 .. MaxCalls
           /\ \A k \in Convs : k \in 0 .. MaxConvs
           /\ made < MaxConvs => made + 1 \in Convs
BY RegistryAssumption DEF Typed, TypeOK, Convs, Fields

LEMMA FieldsStep == Typed /\ [Next]_vars => Fields'
<1> SUFFICES ASSUME Typed, [Next]_vars PROVE Fields'
  OBVIOUS
<1>1. ASSUME NEW r \in Reqs, NEW c \in Comps, NEW n \in 0 .. MaxCount, StartStopComponents(r, c, n)
      PROVE  Fields'
  BY <1>1, Bounds, ConvTyped DEF StartStopComponents, Fields, Converger, Call
<1>2. ASSUME NEW r \in Reqs, CheckVersion(r) PROVE Fields'
  BY <1>2, Bounds, ConvTyped DEF CheckVersion, NoCall, Fields, Converger, Call
<1>3. ASSUME NEW r \in Reqs, ByComponent(r) PROVE Fields'
  <2>1. req[r] \in Call /\ req[r].comp \in Comps
    BY <1>3, Bounds DEF ByComponent, Fields, Typed, Refs
  <2>2. CASE byComp[req[r].comp] # 0
    <3>1. byComp[req[r].comp] \in 0 .. MaxConvs
      BY <2>1, RegistryAssumption DEF Typed, TypeOK
    <3>2. conv' = conv /\ req' = [req EXCEPT ![r].pc = "set", ![r].conv = byComp[req[r].comp]]
      BY <1>3, <2>2 DEF ByComponent
    <3> QED
      BY <3>1, <3>2, Bounds DEF Fields, Call
  <2>3. CASE byComp[req[r].comp] = 0
    <3>1. /\ made + 1 \in Convs /\ NewConverger(made + 1, req[r].comp)
          /\ req' = [req EXCEPT ![r].pc = "set", ![r].conv = made + 1]
      BY <1>3, <2>3, Bounds DEF ByComponent
    <3>2. req' \in [Reqs -> Call]
      BY <3>1, Bounds DEF Fields, Call
    <3>3. [NoConverger EXCEPT !.comp = req[r].comp, !.run = "select"] \in Converger
      BY <2>1, Bounds DEF NoConverger, Converger
    <3> QED
      BY <3>1, <3>2, <3>3, Bounds DEF Fields, NewConverger
  <2> QED
    BY <2>2, <2>3
<1>4. ASSUME NEW r \in Reqs, SetTarget(r) PROVE Fields'
  <2>1. req[r].conv \in 1 .. made /\ req[r] \in Call
    BY <1>4, Bounds DEF SetTarget, Fields, Typed, Refs
  <2> QED
    BY <1>4, <2>1, Bounds, ConvTyped DEF SetTarget, Fields, Converger, Call
<1>5. ASSUME NEW k \in 1 .. made, NEW r \in Reqs, TakeSender(k, r) PROVE Fields'
  BY <1>5, Bounds, ConvTyped DEF TakeSender, BeginConverge, Others, Fields, Converger,
     Call
<1>6. ASSUME NEW k \in 1 .. made, Wake(k) PROVE Fields'
  BY <1>6, Bounds, ConvTyped DEF Wake, BeginConverge, Others, Fields, Converger, Call
<1>7. ASSUME NEW k \in 1 .. made, StartStep(k) PROVE Fields'
  BY <1>7, Bounds, ConvTyped DEF StartStep, Others, Fields, Converger, Call
<1>8. ASSUME NEW k \in 1 .. made, CreateContainer(k) PROVE Fields'
  BY <1>8, Bounds, ConvTyped DEF CreateContainer, Others, Answer, NoCall, Fields,
     Converger, Call
<1>9. ASSUME NEW k \in 1 .. made, StopStep(k) PROVE Fields'
  BY <1>9, Bounds, ConvTyped DEF StopStep, Others, Fields, Converger, Call
<1>10. ASSUME NEW k \in 1 .. made, Converged(k) PROVE Fields'
  BY <1>10, Bounds, ConvTyped DEF Converged, Others, Answer, NoCall, Fields, Converger,
     Call
<1>11. ASSUME NEW k \in 1 .. made, Exit(k) PROVE Fields'
  BY <1>11, Bounds, ConvTyped DEF Exit, Others, Fields, Converger, Call
<1>12. ASSUME NEW k \in 1 .. made, Drains(k) PROVE Fields'
  <2>1. conv[k].running - 1 \in 0 .. MaxCount
    BY <1>12, ConvTyped, RegistryAssumption DEF Drains, Converger
  <2> QED
    BY <1>12, <2>1, Bounds, ConvTyped DEF Drains, Others, Fields, Converger
<1>13. ASSUME NEW c \in Comps, PutComponent(c) PROVE Fields'
  BY <1>13, Bounds, ConvTyped DEF PutComponent, Fields, Converger, Call
<1>14. ASSUME NEW c \in Comps, RemoveComponent(c) PROVE Fields'
  BY <1>14, Bounds, ConvTyped DEF RemoveComponent, Fields, Converger, Call
<1>15. ASSUME NEW c \in Comps, OnRemoveComponent(c) PROVE Fields'
  BY <1>15, Bounds, ConvTyped DEF OnRemoveComponent, Fields, Converger, Call
<1>16. ASSUME NEW k \in 1 .. made, StopConverger(k) PROVE Fields'
  BY <1>16, Bounds, ConvTyped DEF StopConverger, Fields, Converger, Call
<1>17. ASSUME Drained PROVE Fields'
  BY <1>17, Bounds, ConvTyped DEF Drained, Fields, Converger, Call
<1>18. ASSUME ShutdownBegins PROVE Fields'
  <2>1. \A k \in Convs : [conv[k] EXCEPT !.cancelled = TRUE] \in Converger
    BY Bounds DEF Fields, Converger
  <2> QED
    BY <1>18, <2>1, Bounds DEF ShutdownBegins, Fields
<1>19. ASSUME ShutdownReturns PROVE Fields'
  BY <1>19, Bounds, ConvTyped DEF ShutdownReturns, Fields, Converger, Call
<1>20. ASSUME CloseServers PROVE Fields'
  BY <1>20, Bounds, ConvTyped DEF CloseServers, Fields, Converger, Call
<1>21. ASSUME ProcessExits PROVE Fields'
  BY <1>21, Bounds, ConvTyped DEF ProcessExits, Fields, Converger, Call
<1>22. ASSUME UNCHANGED vars PROVE Fields'
  BY <1>22, Bounds, ConvTyped DEF vars, Fields, Converger, Call
<1> QED
  BY <1>1, <1>2, <1>3, <1>4, <1>5, <1>6, <1>7, <1>8, <1>9, <1>10, <1>11, <1>12, <1>13,
     <1>14, <1>15, <1>16, <1>17, <1>18, <1>19, <1>20, <1>21, <1>22
  DEF Next, CallStep, LoopStep, ShutdownStep, Typed, TypeOK

(* Convergers keep their component, stay cancelled, and are made in order. *)
Kept ==
  /\ \A j \in 1 .. made : conv'[j].comp = conv[j].comp /\ (conv[j].cancelled => conv'[j].cancelled)
  /\ \A j \in Convs : conv'[j].run = "none" <=> j > made'

LEMMA Ordered ==
  Typed => \A j \in Convs : conv[j].run = "none" <=> j > made
BY DEF Typed, TypeOK

LEMMA ByComponentMakes ==
  ASSUME Typed, NEW r \in Reqs, ByComponent(r), byComp[req[r].comp] = 0
  PROVE  /\ made + 1 \in Convs /\ made' = made + 1 /\ req[r].comp \in Comps
         /\ byComp' = [byComp EXCEPT ![req[r].comp] = made + 1]
         /\ req' = [req EXCEPT ![r].pc = "set", ![r].conv = made + 1]
         /\ \A j \in Convs : j # made + 1 => conv'[j] = conv[j]
         /\ conv'[made + 1] = [NoConverger EXCEPT !.comp = req[r].comp, !.run = "select"]
         /\ /\ conv'[made + 1].comp = req[r].comp /\ conv'[made + 1].run = "select"
            /\ conv'[made + 1].serving = None
<1>1. /\ made + 1 \in Convs /\ made' = made + 1
      /\ byComp' = [byComp EXCEPT ![req[r].comp] = made + 1]
      /\ req' = [req EXCEPT ![r].pc = "set", ![r].conv = made + 1]
      /\ NewConverger(made + 1, req[r].comp)
  BY Bounds DEF ByComponent
<1>2. req[r].comp \in Comps
  BY DEF ByComponent, Typed, Refs
<1>3. /\ \A j \in Convs : j # made + 1 => conv'[j] = conv[j]
      /\ conv'[made + 1] = [NoConverger EXCEPT !.comp = req[r].comp, !.run = "select"]
  BY <1>1, Bounds DEF NewConverger, Fields
<1> QED
  BY <1>1, <1>2, <1>3 DEF NoConverger

LEMMA KeptStep == Typed /\ [Next]_vars => Kept
<1> SUFFICES ASSUME Typed, [Next]_vars PROVE Kept
  OBVIOUS
<1>1. ASSUME NEW r \in Reqs, NEW c \in Comps, NEW n \in 0 .. MaxCount, StartStopComponents(r, c, n)
      PROVE  Kept
  BY <1>1, Bounds, ConvTyped, Ordered DEF StartStopComponents, Kept, Fields, Converger
<1>2. ASSUME NEW r \in Reqs, CheckVersion(r) PROVE Kept
  BY <1>2, Bounds, ConvTyped, Ordered DEF CheckVersion, NoCall, Kept, Fields, Converger
<1>3. ASSUME NEW r \in Reqs, ByComponent(r) PROVE Kept
  <2>1. CASE byComp[req[r].comp] # 0
    BY <1>3, <2>1, Ordered DEF ByComponent, Kept
  <2>2. CASE byComp[req[r].comp] = 0
    <3>1. \A j \in 1 .. made : j \in Convs /\ j # made + 1
      BY ConvTyped, Bounds
    <3>2. \A j \in Convs \ {made + 1} : j > made <=> j > made + 1
      BY Bounds DEF Convs
    <3>3. \A j \in 1 .. made : conv'[j] = conv[j]
      BY <1>3, <2>2, <3>1, ByComponentMakes
    <3>4. made' = made + 1 /\ conv'[made + 1].run # "none"
      BY <1>3, <2>2, ByComponentMakes
    <3>5. ASSUME NEW j \in Convs PROVE conv'[j].run = "none" <=> j > made'
      <4>1. CASE j = made + 1
        BY <4>1, <3>4, Bounds
      <4>2. CASE j # made + 1
        <5>1. conv'[j] = conv[j]
          BY <1>3, <2>2, <4>2, ByComponentMakes
        <5> QED
          BY <5>1, <4>2, <3>2, <3>4, Ordered
      <4> QED
        BY <4>1, <4>2
    <3> QED
      BY <3>3, <3>5 DEF Kept
  <2> QED
    BY <2>1, <2>2
<1>4. ASSUME NEW r \in Reqs, SetTarget(r) PROVE Kept
  BY <1>4, Bounds, ConvTyped, Ordered DEF SetTarget, Kept, Fields, Converger
<1>5. ASSUME NEW k \in 1 .. made, NEW r \in Reqs, TakeSender(k, r) PROVE Kept
  BY <1>5, Bounds, ConvTyped, Ordered DEF TakeSender, BeginConverge, Others, Kept,
     Fields, Converger
<1>6. ASSUME NEW k \in 1 .. made, Wake(k) PROVE Kept
  BY <1>6, Bounds, ConvTyped, Ordered DEF Wake, BeginConverge, Others, Kept, Fields,
     Converger
<1>7. ASSUME NEW k \in 1 .. made, StartStep(k) PROVE Kept
  BY <1>7, Bounds, ConvTyped, Ordered DEF StartStep, Others, Kept, Fields, Converger
<1>8. ASSUME NEW k \in 1 .. made, CreateContainer(k) PROVE Kept
  BY <1>8, Bounds, ConvTyped, Ordered DEF CreateContainer, Others, Answer, NoCall, Kept,
     Fields, Converger
<1>9. ASSUME NEW k \in 1 .. made, StopStep(k) PROVE Kept
  BY <1>9, Bounds, ConvTyped, Ordered DEF StopStep, Others, Kept, Fields, Converger
<1>10. ASSUME NEW k \in 1 .. made, Converged(k) PROVE Kept
  BY <1>10, Bounds, ConvTyped, Ordered DEF Converged, Others, Answer, NoCall, Kept,
     Fields, Converger
<1>11. ASSUME NEW k \in 1 .. made, Exit(k) PROVE Kept
  BY <1>11, Bounds, ConvTyped, Ordered DEF Exit, Others, Kept, Fields, Converger
<1>12. ASSUME NEW k \in 1 .. made, Drains(k) PROVE Kept
  BY <1>12, Bounds, ConvTyped, Ordered DEF Drains, Others, Kept, Fields, Converger
<1>13. ASSUME NEW c \in Comps, PutComponent(c) PROVE Kept
  BY <1>13, Bounds, ConvTyped, Ordered DEF PutComponent, Kept, Fields, Converger
<1>14. ASSUME NEW c \in Comps, RemoveComponent(c) PROVE Kept
  BY <1>14, Bounds, ConvTyped, Ordered DEF RemoveComponent, Kept, Fields, Converger
<1>15. ASSUME NEW c \in Comps, OnRemoveComponent(c) PROVE Kept
  BY <1>15, Bounds, ConvTyped, Ordered DEF OnRemoveComponent, Kept, Fields, Converger
<1>16. ASSUME NEW k \in 1 .. made, StopConverger(k) PROVE Kept
  BY <1>16, Bounds, ConvTyped, Ordered DEF StopConverger, Kept, Fields, Converger
<1>17. ASSUME Drained PROVE Kept
  BY <1>17, Bounds, ConvTyped, Ordered DEF Drained, Kept, Fields, Converger
<1>18. ASSUME ShutdownBegins PROVE Kept
  BY <1>18, Bounds, ConvTyped, Ordered DEF ShutdownBegins, Kept, Fields, Converger
<1>19. ASSUME ShutdownReturns PROVE Kept
  BY <1>19, Bounds, ConvTyped, Ordered DEF ShutdownReturns, Kept, Fields, Converger
<1>20. ASSUME CloseServers PROVE Kept
  BY <1>20, Bounds, ConvTyped, Ordered DEF CloseServers, Kept, Fields, Converger
<1>21. ASSUME ProcessExits PROVE Kept
  BY <1>21, Bounds, ConvTyped, Ordered DEF ProcessExits, Kept, Fields, Converger
<1>22. ASSUME UNCHANGED vars PROVE Kept
  BY <1>22, Bounds, ConvTyped, Ordered DEF vars, Kept, Fields, Converger
<1> QED
  BY <1>1, <1>2, <1>3, <1>4, <1>5, <1>6, <1>7, <1>8, <1>9, <1>10, <1>11, <1>12, <1>13,
     <1>14, <1>15, <1>16, <1>17, <1>18, <1>19, <1>20, <1>21, <1>22
  DEF Next, CallStep, LoopStep, ShutdownStep, Typed, TypeOK

LEMMA RefsStep == Typed /\ [Next]_vars => Refs'
<1> SUFFICES ASSUME Typed, [Next]_vars PROVE Refs'
  OBVIOUS
<1>1. ASSUME NEW r \in Reqs, NEW c \in Comps, NEW n \in 0 .. MaxCount, StartStopComponents(r, c, n)
      PROVE  Refs'
  BY <1>1, Bounds, KeptStep DEF StartStopComponents, Kept, Typed, Refs, Fields, Call
<1>2. ASSUME NEW r \in Reqs, CheckVersion(r) PROVE Refs'
  BY <1>2, Bounds, KeptStep DEF CheckVersion, NoCall, Kept, Typed, Refs, Fields, Call
<1>3. ASSUME NEW r \in Reqs, ByComponent(r) PROVE Refs'
  <2>1. CASE byComp[req[r].comp] # 0
    BY <1>3, <2>1, Bounds DEF ByComponent, Typed, Refs, TypeOK, Fields, Call
  <2>2. CASE byComp[req[r].comp] = 0
    <3>1. \A q \in Reqs : q # r => req'[q] = req[q]
      BY <1>3, <2>2, ByComponentMakes, Bounds DEF Fields
    <3>2. /\ req' = [req EXCEPT ![r].pc = "set", ![r].conv = made + 1]
          /\ made' = made + 1 /\ req[r].comp \in Comps
          /\ conv'[made + 1].comp = req[r].comp
      BY <1>3, <2>2, ByComponentMakes
    <3>3. req'[r].comp = req[r].comp /\ req'[r].conv = made + 1
      BY <3>2, Bounds DEF Fields, Call
    <3>5. \A k \in 1 .. made + 1 : k \in 1 .. made \/ k = made + 1
      BY Bounds
    <3>6. 1 .. made \subseteq 1 .. made + 1 /\ made + 1 \in 1 .. made + 1
      BY Bounds
    <3>4. \A k \in 1 .. made : conv'[k].comp = conv[k].comp
      BY KeptStep DEF Kept
    <3> QED
      BY <3>1, <3>2, <3>3, <3>4, <3>5, <3>6 DEF Typed, Refs
  <2> QED
    BY <2>1, <2>2
<1>4. ASSUME NEW r \in Reqs, SetTarget(r) PROVE Refs'
  BY <1>4, Bounds, KeptStep DEF SetTarget, Kept, Typed, Refs, Fields, Call
<1>5. ASSUME NEW k \in 1 .. made, NEW r \in Reqs, TakeSender(k, r) PROVE Refs'
  <2>1. req' = [req EXCEPT ![r].pc = "wait"] /\ req[r].pc = "send" /\ made' = made
    BY <1>5 DEF TakeSender, Others
  <2>2. \A j \in 1 .. made : conv'[j].comp = conv[j].comp
    BY KeptStep DEF Kept
  <2> QED
    BY <2>1, <2>2, Bounds DEF Typed, Refs, Fields, Call
<1>6. ASSUME NEW k \in 1 .. made, Wake(k) PROVE Refs'
  BY <1>6, Bounds, KeptStep DEF Wake, BeginConverge, Others, Kept, Typed, Refs, Fields,
     Call
<1>7. ASSUME NEW k \in 1 .. made, StartStep(k) PROVE Refs'
  BY <1>7, Bounds, KeptStep DEF StartStep, Others, Kept, Typed, Refs, Fields, Call
<1>8. ASSUME NEW k \in 1 .. made, CreateContainer(k) PROVE Refs'
  BY <1>8, Bounds, KeptStep DEF CreateContainer, Others, Answer, NoCall, Kept, Typed,
     Refs, Fields, Call
<1>9. ASSUME NEW k \in 1 .. made, StopStep(k) PROVE Refs'
  BY <1>9, Bounds, KeptStep DEF StopStep, Others, Kept, Typed, Refs, Fields, Call
<1>10. ASSUME NEW k \in 1 .. made, Converged(k) PROVE Refs'
  BY <1>10, Bounds, KeptStep DEF Converged, Others, Answer, NoCall, Kept, Typed, Refs,
     Fields, Call
<1>11. ASSUME NEW k \in 1 .. made, Exit(k) PROVE Refs'
  BY <1>11, Bounds, KeptStep DEF Exit, Others, Kept, Typed, Refs, Fields, Call
<1>12. ASSUME NEW k \in 1 .. made, Drains(k) PROVE Refs'
  BY <1>12, Bounds, KeptStep DEF Drains, Others, Kept, Typed, Refs, Fields, Call
<1>13. ASSUME NEW c \in Comps, PutComponent(c) PROVE Refs'
  BY <1>13, Bounds, KeptStep DEF PutComponent, Kept, Typed, Refs, Fields, Call
<1>14. ASSUME NEW c \in Comps, RemoveComponent(c) PROVE Refs'
  BY <1>14, Bounds, KeptStep DEF RemoveComponent, Kept, Typed, Refs, Fields, Call
<1>15. ASSUME NEW c \in Comps, OnRemoveComponent(c) PROVE Refs'
  BY <1>15, Bounds, KeptStep DEF OnRemoveComponent, Kept, Typed, Refs, Fields, Call
<1>16. ASSUME NEW k \in 1 .. made, StopConverger(k) PROVE Refs'
  BY <1>16, Bounds, KeptStep DEF StopConverger, Kept, Typed, Refs, Fields, Call
<1>17. ASSUME Drained PROVE Refs'
  BY <1>17, Bounds, KeptStep DEF Drained, Kept, Typed, Refs, Fields, Call
<1>18. ASSUME ShutdownBegins PROVE Refs'
  BY <1>18, Bounds, KeptStep DEF ShutdownBegins, Kept, Typed, Refs, Fields, Call
<1>19. ASSUME ShutdownReturns PROVE Refs'
  BY <1>19, Bounds, KeptStep DEF ShutdownReturns, Kept, Typed, Refs, Fields, Call
<1>20. ASSUME CloseServers PROVE Refs'
  BY <1>20, Bounds, KeptStep DEF CloseServers, Kept, Typed, Refs, Fields, Call
<1>21. ASSUME ProcessExits PROVE Refs'
  BY <1>21, Bounds, KeptStep DEF ProcessExits, Kept, Typed, Refs, Fields, Call
<1>22. ASSUME UNCHANGED vars PROVE Refs'
  BY <1>22, Bounds, KeptStep DEF vars, Kept, Typed, Refs, Fields, Call
<1> QED
  BY <1>1, <1>2, <1>3, <1>4, <1>5, <1>6, <1>7, <1>8, <1>9, <1>10, <1>11, <1>12, <1>13,
     <1>14, <1>15, <1>16, <1>17, <1>18, <1>19, <1>20, <1>21, <1>22
  DEF Next, CallStep, LoopStep, ShutdownStep, Typed, TypeOK

LEMMA WantedStep == Typed /\ [Next]_vars => Wanted'
<1> SUFFICES ASSUME Typed, [Next]_vars PROVE Wanted'
  OBVIOUS
<1>1. ASSUME NEW r \in Reqs, NEW c \in Comps, NEW n \in 0 .. MaxCount, StartStopComponents(r, c, n)
      PROVE  Wanted'
  BY <1>1, Bounds, ConvTyped DEF StartStopComponents, Typed, Wanted, Fields, Converger
<1>2. ASSUME NEW r \in Reqs, CheckVersion(r) PROVE Wanted'
  BY <1>2, Bounds, ConvTyped DEF CheckVersion, NoCall, Typed, Wanted, Fields, Converger
<1>3. ASSUME NEW r \in Reqs, ByComponent(r) PROVE Wanted'
  <2>1. CASE byComp[req[r].comp] # 0
    BY <1>3, <2>1 DEF ByComponent, Typed, Wanted
  <2>2. CASE byComp[req[r].comp] = 0
    BY <1>3, <2>2, ByComponentMakes DEF Typed, Wanted
  <2> QED
    BY <2>1, <2>2
<1>4. ASSUME NEW r \in Reqs, SetTarget(r) PROVE Wanted'
  BY <1>4, Bounds, ConvTyped DEF SetTarget, Typed, Wanted, Fields, Converger
<1>5. ASSUME NEW k \in 1 .. made, NEW r \in Reqs, TakeSender(k, r) PROVE Wanted'
  BY <1>5, Bounds, ConvTyped DEF TakeSender, BeginConverge, Others, Typed, Wanted,
     Fields, Converger
<1>6. ASSUME NEW k \in 1 .. made, Wake(k) PROVE Wanted'
  BY <1>6, Bounds, ConvTyped DEF Wake, BeginConverge, Others, Typed, Wanted, Fields,
     Converger
<1>7. ASSUME NEW k \in 1 .. made, StartStep(k) PROVE Wanted'
  BY <1>7, Bounds, ConvTyped DEF StartStep, Others, Typed, Wanted, Fields, Converger
<1>8. ASSUME NEW k \in 1 .. made, CreateContainer(k) PROVE Wanted'
  BY <1>8, Bounds, ConvTyped DEF CreateContainer, Others, Answer, NoCall, Typed, Wanted,
     Fields, Converger
<1>9. ASSUME NEW k \in 1 .. made, StopStep(k) PROVE Wanted'
  BY <1>9, Bounds, ConvTyped DEF StopStep, Others, Typed, Wanted, Fields, Converger
<1>10. ASSUME NEW k \in 1 .. made, Converged(k) PROVE Wanted'
  BY <1>10, Bounds, ConvTyped DEF Converged, Others, Answer, NoCall, Typed, Wanted,
     Fields, Converger
<1>11. ASSUME NEW k \in 1 .. made, Exit(k) PROVE Wanted'
  BY <1>11, Bounds, ConvTyped DEF Exit, Others, Typed, Wanted, Fields, Converger
<1>12. ASSUME NEW k \in 1 .. made, Drains(k) PROVE Wanted'
  BY <1>12, Bounds, ConvTyped DEF Drains, Others, Typed, Wanted, Fields, Converger
<1>13. ASSUME NEW c \in Comps, PutComponent(c) PROVE Wanted'
  BY <1>13, Bounds, ConvTyped DEF PutComponent, Typed, Wanted, Fields, Converger
<1>14. ASSUME NEW c \in Comps, RemoveComponent(c) PROVE Wanted'
  BY <1>14, Bounds, ConvTyped DEF RemoveComponent, Typed, Wanted, Fields, Converger
<1>15. ASSUME NEW c \in Comps, OnRemoveComponent(c) PROVE Wanted'
  BY <1>15, Bounds, ConvTyped DEF OnRemoveComponent, Typed, Wanted, Fields, Converger
<1>16. ASSUME NEW k \in 1 .. made, StopConverger(k) PROVE Wanted'
  BY <1>16, Bounds, ConvTyped DEF StopConverger, Typed, Wanted, Fields, Converger
<1>17. ASSUME Drained PROVE Wanted'
  BY <1>17, Bounds, ConvTyped DEF Drained, Typed, Wanted, Fields, Converger
<1>18. ASSUME ShutdownBegins PROVE Wanted'
  BY <1>18, Bounds, ConvTyped DEF ShutdownBegins, Typed, Wanted, Fields, Converger
<1>19. ASSUME ShutdownReturns PROVE Wanted'
  BY <1>19, Bounds, ConvTyped DEF ShutdownReturns, Typed, Wanted, Fields, Converger
<1>20. ASSUME CloseServers PROVE Wanted'
  BY <1>20, Bounds, ConvTyped DEF CloseServers, Typed, Wanted, Fields, Converger
<1>21. ASSUME ProcessExits PROVE Wanted'
  BY <1>21, Bounds, ConvTyped DEF ProcessExits, Typed, Wanted, Fields, Converger
<1>22. ASSUME UNCHANGED vars PROVE Wanted'
  BY <1>22, Bounds, ConvTyped DEF vars, Typed, Wanted, Fields, Converger
<1> QED
  BY <1>1, <1>2, <1>3, <1>4, <1>5, <1>6, <1>7, <1>8, <1>9, <1>10, <1>11, <1>12, <1>13,
     <1>14, <1>15, <1>16, <1>17, <1>18, <1>19, <1>20, <1>21, <1>22
  DEF Next, CallStep, LoopStep, ShutdownStep, Typed, TypeOK

(* The rest of the state keeps its types. *)
Globals ==
  /\ version \in 0 .. MaxCalls /\ made \in 0 .. MaxConvs
  /\ byComp \in [Comps -> 0 .. made]
  /\ stored \subseteq Comps /\ removals \in 0 .. MaxRemovals /\ notices \subseteq Comps
  /\ toStop \subseteq 1 .. made
  /\ phase \in Phases

(* The map gives a component a converger of its own. *)
Mapped == \A c \in Comps : byComp[c] # 0 => conv[byComp[c]].comp = c

LEMMA TypedGlobals == Typed => Globals /\ Mapped
BY DEF Typed, TypeOK, Globals, Mapped

LEMMA Found ==
  ASSUME Typed, NEW c \in Comps, byComp[c] # 0
  PROVE  byComp[c] \in 1 .. made
BY TypedGlobals, RegistryAssumption DEF Globals

LEMMA GlobalsStep == Typed /\ [Next]_vars => Globals'
<1> SUFFICES ASSUME Typed, [Next]_vars PROVE Globals'
  OBVIOUS
<1>1. ASSUME NEW r \in Reqs, NEW c \in Comps, NEW n \in 0 .. MaxCount, StartStopComponents(r, c, n)
      PROVE  Globals'
  BY <1>1, TypedGlobals, RegistryAssumption DEF StartStopComponents, Globals, Phases
<1>2. ASSUME NEW r \in Reqs, CheckVersion(r) PROVE Globals'
  BY <1>2, TypedGlobals, RegistryAssumption DEF CheckVersion, NoCall, Globals, Phases
<1>3. ASSUME NEW r \in Reqs, ByComponent(r) PROVE Globals'
  <2>1. CASE byComp[req[r].comp] # 0
    BY <1>3, <2>1, TypedGlobals DEF ByComponent, Globals
  <2>2. CASE byComp[req[r].comp] = 0
    <3>1. made + 1 \in 0 .. MaxConvs
      BY <1>3, <2>2, ByComponentMakes, Bounds
    <3>2. 0 .. made \subseteq 0 .. made + 1 /\ 1 .. made \subseteq 1 .. made + 1
      BY Bounds
    <3>3. made + 1 \in 0 .. made + 1
      BY Bounds
    <3>4. made' = made + 1 /\ byComp' = [byComp EXCEPT ![req[r].comp] = made + 1]
      BY <1>3, <2>2, ByComponentMakes
    <3>5. byComp' \in [Comps -> 0 .. made']
      BY <3>2, <3>3, <3>4, TypedGlobals DEF Globals
    <3> QED
      BY <1>3, <3>1, <3>2, <3>4, <3>5, TypedGlobals DEF ByComponent, Globals
  <2> QED
    BY <2>1, <2>2
<1>4. ASSUME NEW r \in Reqs, SetTarget(r) PROVE Globals'
  BY <1>4, TypedGlobals, RegistryAssumption DEF SetTarget, Globals, Phases
<1>5. ASSUME NEW k \in 1 .. made, NEW r \in Reqs, TakeSender(k, r) PROVE Globals'
  BY <1>5, TypedGlobals, RegistryAssumption DEF TakeSender, BeginConverge, Others,
     Globals, Phases
<1>6. ASSUME NEW k \in 1 .. made, Wake(k) PROVE Globals'
  BY <1>6, TypedGlobals, RegistryAssumption DEF Wake, BeginConverge, Others, Globals,
     Phases
<1>7. ASSUME NEW k \in 1 .. made, StartStep(k) PROVE Globals'
  BY <1>7, TypedGlobals, RegistryAssumption DEF StartStep, Others, Globals, Phases
<1>8. ASSUME NEW k \in 1 .. made, CreateContainer(k) PROVE Globals'
  BY <1>8, TypedGlobals, RegistryAssumption DEF CreateContainer, Others, Answer, NoCall,
     Globals, Phases
<1>9. ASSUME NEW k \in 1 .. made, StopStep(k) PROVE Globals'
  BY <1>9, TypedGlobals, RegistryAssumption DEF StopStep, Others, Globals, Phases
<1>10. ASSUME NEW k \in 1 .. made, Converged(k) PROVE Globals'
  BY <1>10, TypedGlobals, RegistryAssumption DEF Converged, Others, Answer, NoCall,
     Globals, Phases
<1>11. ASSUME NEW k \in 1 .. made, Exit(k) PROVE Globals'
  BY <1>11, TypedGlobals, RegistryAssumption DEF Exit, Others, Globals, Phases
<1>12. ASSUME NEW k \in 1 .. made, Drains(k) PROVE Globals'
  BY <1>12, TypedGlobals, RegistryAssumption DEF Drains, Others, Globals, Phases
<1>13. ASSUME NEW c \in Comps, PutComponent(c) PROVE Globals'
  BY <1>13, TypedGlobals, RegistryAssumption DEF PutComponent, Globals, Phases
<1>14. ASSUME NEW c \in Comps, RemoveComponent(c) PROVE Globals'
  BY <1>14, TypedGlobals, RegistryAssumption DEF RemoveComponent, Globals, Phases
<1>15. ASSUME NEW c \in Comps, OnRemoveComponent(c) PROVE Globals'
  <2>1. byComp' = [byComp EXCEPT ![c] = 0] /\ made' = made /\ 0 \in 0 .. made
    BY <1>15, Bounds DEF OnRemoveComponent
  <2>2. toStop' \subseteq 1 .. made
    BY <1>15, Found, TypedGlobals DEF OnRemoveComponent, Globals
  <2>3. byComp' \in [Comps -> 0 .. made]
    BY <2>1, TypedGlobals DEF Globals
  <2> QED
    BY <1>15, <2>1, <2>2, <2>3, TypedGlobals DEF OnRemoveComponent, Globals
<1>16. ASSUME NEW k \in 1 .. made, StopConverger(k) PROVE Globals'
  BY <1>16, TypedGlobals, RegistryAssumption DEF StopConverger, Globals, Phases
<1>17. ASSUME Drained PROVE Globals'
  BY <1>17, TypedGlobals, RegistryAssumption DEF Drained, Globals, Phases
<1>18. ASSUME ShutdownBegins PROVE Globals'
  BY <1>18, TypedGlobals, RegistryAssumption DEF ShutdownBegins, Globals, Phases
<1>19. ASSUME ShutdownReturns PROVE Globals'
  <2>1. 0 \in 0 .. made
    BY Bounds
  <2> QED
    BY <1>19, <2>1, TypedGlobals DEF ShutdownReturns, Globals, Phases
<1>20. ASSUME CloseServers PROVE Globals'
  BY <1>20, TypedGlobals, RegistryAssumption DEF CloseServers, Globals, Phases
<1>21. ASSUME ProcessExits PROVE Globals'
  BY <1>21, TypedGlobals, RegistryAssumption DEF ProcessExits, Globals, Phases
<1>22. ASSUME UNCHANGED vars PROVE Globals'
  BY <1>22, TypedGlobals, RegistryAssumption DEF vars, Globals, Phases
<1> QED
  BY <1>1, <1>2, <1>3, <1>4, <1>5, <1>6, <1>7, <1>8, <1>9, <1>10, <1>11, <1>12, <1>13,
     <1>14, <1>15, <1>16, <1>17, <1>18, <1>19, <1>20, <1>21, <1>22
  DEF Next, CallStep, LoopStep, ShutdownStep, Typed, TypeOK

(* Only three actions write the map. *)
LEMMA MapStep ==
  Typed /\ [Next]_vars =>
    \/ UNCHANGED <<byComp, made>>
    \/ \E r \in Reqs : ByComponent(r) /\ byComp[req[r].comp] = 0
    \/ \E c \in Comps : OnRemoveComponent(c)
    \/ ShutdownReturns
BY TypedGlobals DEF Globals, Next, CallStep, LoopStep, ShutdownStep,
   StartStopComponents, CheckVersion,
  ByComponent, SetTarget, TakeSender, Wake, StartStep, CreateContainer, StopStep, Converged,
  Exit, Drains, PutComponent, RemoveComponent, StopConverger, Drained, ShutdownBegins,
  CloseServers, ProcessExits, Others, vars

LEMMA MappedStep == Typed /\ [Next]_vars => Mapped'
<1> SUFFICES ASSUME Typed, [Next]_vars PROVE Mapped'
  OBVIOUS
<1>1. \A c \in Comps : byComp[c] # 0 => conv'[byComp[c]].comp = c
  BY Found, KeptStep, TypedGlobals DEF Kept, Mapped
<1>2. ASSUME NEW r \in Reqs, ByComponent(r), byComp[req[r].comp] = 0 PROVE Mapped'
  <2>1. \A c \in Comps : byComp'[c] = IF c = req[r].comp THEN made + 1 ELSE byComp[c]
    BY <1>2, ByComponentMakes, TypedGlobals DEF Globals
  <2> QED
    BY <1>1, <1>2, <2>1, ByComponentMakes DEF Mapped
<1>3. ASSUME \A c \in Comps : byComp'[c] \in {0, byComp[c]} PROVE Mapped'
  BY <1>1, <1>3 DEF Mapped
<1>4. CASE UNCHANGED byComp
  BY <1>1, <1>4 DEF Mapped
<1>5. ASSUME NEW c \in Comps, OnRemoveComponent(c) PROVE Mapped'
  BY <1>3, <1>5, TypedGlobals DEF OnRemoveComponent, Globals
<1>6. ASSUME ShutdownReturns PROVE Mapped'
  BY <1>3, <1>6 DEF ShutdownReturns
<1> QED
  BY <1>2, <1>4, <1>5, <1>6, MapStep

LEMMA TypedStep == Typed /\ [Next]_vars => Typed'
<1> SUFFICES ASSUME Typed, [Next]_vars PROVE Typed'
  OBVIOUS
<1>1. TypeOK'
  BY FieldsStep, KeptStep, GlobalsStep, MappedStep DEF TypeOK, Fields, Kept, Globals,
     Mapped
<1> QED
  BY <1>1, RefsStep, WantedStep DEF Typed

LEMMA VersionsStep == Typed /\ Versions /\ [Next]_vars => Versions'
<1> SUFFICES ASSUME Typed /\ Versions, [Next]_vars PROVE Versions'
  OBVIOUS
<1>1. ASSUME NEW r \in Reqs, NEW c \in Comps, NEW n \in 0 .. MaxCount, StartStopComponents(r, c, n)
      PROVE  Versions'
  BY <1>1, RegistryAssumption DEF StartStopComponents, Versions, OneCallPerVersion,
     Accepted, Typed, TypeOK, Call
<1>2. ASSUME NEW r \in Reqs, CheckVersion(r) PROVE Versions'
  BY <1>2, RegistryAssumption DEF CheckVersion, NoCall, Versions, OneCallPerVersion,
     Accepted, Typed, TypeOK, Call
<1>3. ASSUME NEW r \in Reqs, ByComponent(r) PROVE Versions'
  BY <1>3, RegistryAssumption DEF ByComponent, NewConverger, NoConverger, Versions,
     OneCallPerVersion, Accepted, Typed, TypeOK, Call
<1>4. ASSUME NEW r \in Reqs, SetTarget(r) PROVE Versions'
  BY <1>4, RegistryAssumption DEF SetTarget, Versions, OneCallPerVersion, Accepted,
     Typed, TypeOK, Call
<1>5. ASSUME NEW k \in 1 .. made, NEW r \in Reqs, TakeSender(k, r) PROVE Versions'
  BY <1>5, RegistryAssumption DEF TakeSender, BeginConverge, Others, Versions,
     OneCallPerVersion, Accepted, Typed, TypeOK, Call
<1>6. ASSUME NEW k \in 1 .. made, Wake(k) PROVE Versions'
  BY <1>6, RegistryAssumption DEF Wake, BeginConverge, Others, Versions,
     OneCallPerVersion, Accepted, Typed, TypeOK, Call
<1>7. ASSUME NEW k \in 1 .. made, StartStep(k) PROVE Versions'
  BY <1>7, RegistryAssumption DEF StartStep, Others, Versions, OneCallPerVersion,
     Accepted, Typed, TypeOK, Call
<1>8. ASSUME NEW k \in 1 .. made, CreateContainer(k) PROVE Versions'
  BY <1>8, RegistryAssumption DEF CreateContainer, Others, Answer, NoCall, Versions,
     OneCallPerVersion, Accepted, Typed, TypeOK, Call
<1>9. ASSUME NEW k \in 1 .. made, StopStep(k) PROVE Versions'
  BY <1>9, RegistryAssumption DEF StopStep, Others, Versions, OneCallPerVersion,
     Accepted, Typed, TypeOK, Call
<1>10. ASSUME NEW k \in 1 .. made, Converged(k) PROVE Versions'
  BY <1>10, RegistryAssumption DEF Converged, Others, Answer, NoCall, Versions,
     OneCallPerVersion, Accepted, Typed, TypeOK, Call
<1>11. ASSUME NEW k \in 1 .. made, Exit(k) PROVE Versions'
  BY <1>11, RegistryAssumption DEF Exit, Others, Versions, OneCallPerVersion, Accepted,
     Typed, TypeOK, Call
<1>12. ASSUME NEW k \in 1 .. made, Drains(k) PROVE Versions'
  BY <1>12, RegistryAssumption DEF Drains, Others, Versions, OneCallPerVersion,
     Accepted, Typed, TypeOK, Call
<1>13. ASSUME NEW c \in Comps, PutComponent(c) PROVE Versions'
  BY <1>13, RegistryAssumption DEF PutComponent, Versions, OneCallPerVersion, Accepted,
     Typed, TypeOK, Call
<1>14. ASSUME NEW c \in Comps, RemoveComponent(c) PROVE Versions'
  BY <1>14, RegistryAssumption DEF RemoveComponent, Versions, OneCallPerVersion,
     Accepted, Typed, TypeOK, Call
<1>15. ASSUME NEW c \in Comps, OnRemoveComponent(c) PROVE Versions'
  BY <1>15, RegistryAssumption DEF OnRemoveComponent, Versions, OneCallPerVersion,
     Accepted, Typed, TypeOK, Call
<1>16. ASSUME NEW k \in 1 .. made, StopConverger(k) PROVE Versions'
  BY <1>16, RegistryAssumption DEF StopConverger, Versions, OneCallPerVersion, Accepted,
     Typed, TypeOK, Call
<1>17. ASSUME Drained PROVE Versions'
  BY <1>17, RegistryAssumption DEF Drained, Versions, OneCallPerVersion, Accepted,
     Typed, TypeOK, Call
<1>18. ASSUME ShutdownBegins PROVE Versions'
  BY <1>18, RegistryAssumption DEF ShutdownBegins, Versions, OneCallPerVersion,
     Accepted, Typed, TypeOK, Call
<1>19. ASSUME ShutdownReturns PROVE Versions'
  BY <1>19, RegistryAssumption DEF ShutdownReturns, Versions, OneCallPerVersion,
     Accepted, Typed, TypeOK, Call
<1>20. ASSUME CloseServers PROVE Versions'
  BY <1>20, RegistryAssumption DEF CloseServers, Versions, OneCallPerVersion, Accepted,
     Typed, TypeOK, Call
<1>21. ASSUME ProcessExits PROVE Versions'
  BY <1>21, RegistryAssumption DEF ProcessExits, Versions, OneCallPerVersion, Accepted,
     Typed, TypeOK, Call
<1>22. ASSUME UNCHANGED vars PROVE Versions'
  BY <1>22, RegistryAssumption DEF vars, Versions, OneCallPerVersion, Accepted, Typed,
     TypeOK, Call
<1> QED
  BY <1>1, <1>2, <1>3, <1>4, <1>5, <1>6, <1>7, <1>8, <1>9, <1>10, <1>11, <1>12, <1>13,
     <1>14, <1>15, <1>16, <1>17, <1>18, <1>19, <1>20, <1>21, <1>22
  DEF Next, CallStep, LoopStep, ShutdownStep, Typed, TypeOK

(* Two actions touch what shutdown relies on. *)
LEMMA StopKinds ==
  [Next]_vars => /\ toStop \subseteq toStop' \/ \E k \in 1 .. made : StopConverger(k)
                 /\ phase' = "stopping" => UNCHANGED <<byComp, phase>> \/ ShutdownBegins
BY DEF Next, CallStep, LoopStep, ShutdownStep, StartStopComponents, CheckVersion,
  ByComponent, SetTarget, TakeSender, Wake, StartStep, CreateContainer, StopStep, Converged,
  Exit, Drains, PutComponent, RemoveComponent, OnRemoveComponent, Drained,
  ShutdownBegins, ShutdownReturns, CloseServers, ProcessExits, Others, Unlocked, vars,
  StopConverger

LEMMA StopsStep == Typed /\ Stops /\ [Next]_vars => Stops'
<1> SUFFICES ASSUME Typed, Stops, [Next]_vars PROVE Stops'
  OBVIOUS
<1> DEFINE Told(j) == conv[j].cancelled \/ j \in toStop
<1>1. \A j \in 1 .. made : conv'[j].comp = conv[j].comp /\ (conv[j].cancelled =>
   conv'[j].cancelled)
  BY KeptStep DEF Kept
<1>2. \A j \in 1 .. made : Told(j) => Told(j)'
  <2>1. ASSUME NEW k \in 1 .. made, StopConverger(k)
        PROVE  toStop' = toStop \ {k} /\ conv'[k].cancelled
    BY <2>1, ConvTyped, Bounds DEF StopConverger, Fields, Converger
  <2> QED
    BY <1>1, <2>1, StopKinds
<1>3. EveryConvergerIsStopped'
  <2>1. ASSUME UNCHANGED <<byComp, made>> PROVE EveryConvergerIsStopped'
    BY <1>1, <1>2, <2>1 DEF Stops, EveryConvergerIsStopped
  <2>2. ASSUME NEW r \in Reqs, ByComponent(r), byComp[req[r].comp] = 0
        PROVE  EveryConvergerIsStopped'
    <3>1. \A c \in Comps : byComp'[c] = IF c = req[r].comp THEN made + 1 ELSE byComp[c]
      BY <2>2, ByComponentMakes, TypedGlobals DEF Globals
    <3>2. \A j \in 1 .. made' : j \in 1 .. made \/ j = made + 1
      <4>1. made' = made + 1
        BY <2>2, ByComponentMakes
      <4> QED
        BY <4>1, Bounds
    <3>3. ASSUME NEW j \in 1 .. made PROVE Told(j)' \/ byComp'[conv'[j].comp] = j
      <4>1. conv[j].comp \in Comps /\ j # 0
        BY Bounds DEF Typed, Refs
      <4> QED
        BY <1>1, <1>2, <2>2, <3>1, <4>1 DEF Stops, EveryConvergerIsStopped
    <3> QED
      BY <2>2, <3>1, <3>2, <3>3, ByComponentMakes DEF EveryConvergerIsStopped
  <2>3. ASSUME NEW c \in Comps, OnRemoveComponent(c) PROVE EveryConvergerIsStopped'
    <3>1. \A d \in Comps : byComp'[d] = IF d = c THEN 0 ELSE byComp[d]
      BY <2>3, TypedGlobals DEF OnRemoveComponent, Globals
    <3>2. made' = made /\ (byComp[c] # 0 => byComp[c] \in toStop')
      BY <2>3 DEF OnRemoveComponent
    <3>3. ASSUME NEW j \in 1 .. made PROVE Told(j)' \/ byComp'[conv'[j].comp] = j
      <4>1. conv[j].comp \in Comps /\ j # 0
        BY Bounds DEF Typed, Refs
      <4> QED
        BY <1>1, <1>2, <3>1, <3>2, <4>1 DEF Stops, EveryConvergerIsStopped
    <3> QED
      BY <3>2, <3>3 DEF EveryConvergerIsStopped
  <2>4. ASSUME ShutdownReturns PROVE EveryConvergerIsStopped'
    <3>1. made' = made /\ phase = "stopping"
      BY <2>4 DEF ShutdownReturns
    <3>2. ASSUME NEW j \in 1 .. made PROVE Told(j)'
      <4>1. conv[j].comp \in Comps /\ j # 0
        BY Bounds DEF Typed, Refs
      <4>2. byComp[conv[j].comp] = j => conv[j].cancelled
        BY <3>1, <4>1 DEF Stops
      <4> QED
        BY <1>2, <4>2 DEF Stops, EveryConvergerIsStopped
    <3> QED
      BY <3>1, <3>2 DEF EveryConvergerIsStopped
  <2> QED
    BY <2>1, <2>2, <2>3, <2>4, MapStep
<1>4. ASSUME phase' = "stopping", NEW c \in Comps, byComp'[c] # 0
      PROVE  conv'[byComp'[c]].cancelled
  <2>1. CASE UNCHANGED <<byComp, phase>>
    BY <1>1, <1>4, <2>1, Found DEF Stops
  <2>2. CASE ShutdownBegins
    <3>1. UNCHANGED byComp /\ byComp[c] \in Convs /\ conv[byComp[c]] \in Converger
      BY <1>4, <2>2, Found, ConvTyped DEF ShutdownBegins
    <3>2. conv'[byComp[c]] = [conv[byComp[c]] EXCEPT !.cancelled = TRUE]
      BY <2>2, <3>1 DEF ShutdownBegins
    <3> QED
      BY <3>1, <3>2 DEF Converger
  <2> QED
    BY <1>4, <2>1, <2>2, StopKinds
<1> QED
  BY <1>3, <1>4 DEF Stops

LEMMA ServedStep == Typed /\ Served /\ [Next]_vars => Served'
<1> SUFFICES ASSUME Typed /\ Served, [Next]_vars PROVE Served'
  OBVIOUS
<1>1. ASSUME NEW r \in Reqs, NEW c \in Comps, NEW n \in 0 .. MaxCount, StartStopComponents(r, c, n)
      PROVE  Served'
  BY <1>1, Bounds, ConvTyped DEF StartStopComponents, Served, Typed, Refs, Fields,
     Converger, Call
<1>2. ASSUME NEW r \in Reqs, CheckVersion(r) PROVE Served'
  BY <1>2, Bounds, ConvTyped DEF CheckVersion, NoCall, Served, Typed, Refs, Fields,
     Converger, Call
<1>3. ASSUME NEW r \in Reqs, ByComponent(r) PROVE Served'
  <2>1. CASE byComp[req[r].comp] # 0
    <3>1. /\ conv' = conv /\ made' = made /\ req[r].pc = "find"
          /\ req' = [req EXCEPT ![r].pc = "set", ![r].conv = byComp[req[r].comp]]
      BY <1>3, <2>1 DEF ByComponent
    <3>2. req'[r].pc = "set" /\ \A q \in Reqs : q # r => req'[q] = req[q]
      BY <3>1, Bounds DEF Fields, Call
    <3>3. \A j \in 1 .. made : conv[j].serving \in Reqs \cup {None}
      BY ConvTyped DEF Converger
    <3>4. \A q \in Reqs : req[q].pc = "wait" \/ req'[q].pc = "wait" => q # r /\ req'[q] = req[q]
      BY <3>1, <3>2
    <3>5. ASSUME NEW j \in 1 .. made, conv[j].serving # None
          PROVE  req'[conv[j].serving] = req[conv[j].serving]
      BY <3>3, <3>4, <3>5 DEF Served
    <3>6. conv' = conv /\ made' = made
      BY <3>1
    <3> QED
      BY <3>4, <3>5, <3>6 DEF Served
  <2>2. CASE byComp[req[r].comp] = 0
    <3>1. \A j \in 1 .. made : conv'[j] = conv[j]
      <4>1. \A j \in 1 .. made : j \in Convs /\ j # made + 1
        BY ConvTyped, Bounds
      <4> QED
        BY <1>3, <2>2, <4>1, ByComponentMakes
    <3>2. \A q \in Reqs : q # r => req'[q] = req[q]
      BY <1>3, <2>2, ByComponentMakes, Bounds DEF Fields
    <3>3. req[r].pc = "find" /\ req'[r].pc = "set"
      <4>1. req' = [req EXCEPT ![r].pc = "set", ![r].conv = made + 1]
        BY <1>3, <2>2, ByComponentMakes
      <4> QED
        BY <1>3, <4>1, Bounds DEF ByComponent, Fields, Call
    <3>4. \A j \in 1 .. made : conv[j].serving \in Reqs \cup {None}
      BY ConvTyped DEF Converger
    <3>5. made' = made + 1 /\ conv'[made + 1].serving = None
      BY <1>3, <2>2, ByComponentMakes
    <3>6. \A j \in 1 .. made + 1 : j \in 1 .. made \/ j = made + 1
      BY Bounds
    <3>7. \A q \in Reqs : req[q].pc = "wait" => req[q].conv \in 1 .. made
      BY DEF Typed, Refs
    <3> QED
      BY <3>1, <3>2, <3>3, <3>4, <3>5, <3>6, <3>7 DEF Served
  <2> QED
    BY <2>1, <2>2
<1>4. ASSUME NEW r \in Reqs, SetTarget(r) PROVE Served'
  BY <1>4, Bounds, ConvTyped DEF SetTarget, Served, Typed, Refs, Fields, Converger, Call
<1>5. ASSUME NEW k \in 1 .. made, NEW r \in Reqs, TakeSender(k, r) PROVE Served'
  BY <1>5, Bounds, ConvTyped DEF TakeSender, BeginConverge, Others, Served, Typed, Refs,
     Fields, Converger, Call
<1>6. ASSUME NEW k \in 1 .. made, Wake(k) PROVE Served'
  BY <1>6, Bounds, ConvTyped DEF Wake, BeginConverge, Others, Served, Typed, Refs,
     Fields, Converger, Call
<1>7. ASSUME NEW k \in 1 .. made, StartStep(k) PROVE Served'
  BY <1>7, Bounds, ConvTyped DEF StartStep, Others, Served, Typed, Refs, Fields,
     Converger, Call
<1>8. ASSUME NEW k \in 1 .. made, CreateContainer(k) PROVE Served'
  BY <1>8, Bounds, ConvTyped DEF CreateContainer, Others, Answer, NoCall, Served, Typed,
     Refs, Fields, Converger, Call
<1>9. ASSUME NEW k \in 1 .. made, StopStep(k) PROVE Served'
  BY <1>9, Bounds, ConvTyped DEF StopStep, Others, Served, Typed, Refs, Fields,
     Converger, Call
<1>10. ASSUME NEW k \in 1 .. made, Converged(k) PROVE Served'
  BY <1>10, Bounds, ConvTyped DEF Converged, Others, Answer, NoCall, Served, Typed,
     Refs, Fields, Converger, Call
<1>11. ASSUME NEW k \in 1 .. made, Exit(k) PROVE Served'
  BY <1>11, Bounds, ConvTyped DEF Exit, Others, Served, Typed, Refs, Fields, Converger,
     Call
<1>12. ASSUME NEW k \in 1 .. made, Drains(k) PROVE Served'
  BY <1>12, Bounds, ConvTyped DEF Drains, Others, Served, Typed, Refs, Fields,
     Converger, Call
<1>13. ASSUME NEW c \in Comps, PutComponent(c) PROVE Served'
  BY <1>13, Bounds, ConvTyped DEF PutComponent, Served, Typed, Refs, Fields, Converger,
     Call
<1>14. ASSUME NEW c \in Comps, RemoveComponent(c) PROVE Served'
  BY <1>14, Bounds, ConvTyped DEF RemoveComponent, Served, Typed, Refs, Fields,
     Converger, Call
<1>15. ASSUME NEW c \in Comps, OnRemoveComponent(c) PROVE Served'
  BY <1>15, Bounds, ConvTyped DEF OnRemoveComponent, Served, Typed, Refs, Fields,
     Converger, Call
<1>16. ASSUME NEW k \in 1 .. made, StopConverger(k) PROVE Served'
  BY <1>16, Bounds, ConvTyped DEF StopConverger, Served, Typed, Refs, Fields, Converger,
     Call
<1>17. ASSUME Drained PROVE Served'
  BY <1>17, Bounds, ConvTyped DEF Drained, Served, Typed, Refs, Fields, Converger, Call
<1>18. ASSUME ShutdownBegins PROVE Served'
  BY <1>18, Bounds, ConvTyped DEF ShutdownBegins, Served, Typed, Refs, Fields,
     Converger, Call
<1>19. ASSUME ShutdownReturns PROVE Served'
  BY <1>19, Bounds, ConvTyped DEF ShutdownReturns, Served, Typed, Refs, Fields,
     Converger, Call
<1>20. ASSUME CloseServers PROVE Served'
  BY <1>20, Bounds, ConvTyped DEF CloseServers, Served, Typed, Refs, Fields, Converger,
     Call
<1>21. ASSUME ProcessExits PROVE Served'
  BY <1>21, Bounds, ConvTyped DEF ProcessExits, Served, Typed, Refs, Fields, Converger,
     Call
<1>22. ASSUME UNCHANGED vars PROVE Served'
  BY <1>22, Bounds, ConvTyped DEF vars, Served, Typed, Refs, Fields, Converger, Call
<1> QED
  BY <1>1, <1>2, <1>3, <1>4, <1>5, <1>6, <1>7, <1>8, <1>9, <1>10, <1>11, <1>12, <1>13,
     <1>14, <1>15, <1>16, <1>17, <1>18, <1>19, <1>20, <1>21, <1>22
  DEF Next, CallStep, LoopStep, ShutdownStep, Typed, TypeOK

LEMMA Inductive == RegistryInv /\ [Next]_vars => RegistryInv'
BY TypedStep, VersionsStep, StopsStep, ServedStep DEF RegistryInv

THEOREM RegistryInductive == Spec => []RegistryInv
BY InitInv, Inductive, PTL DEF Spec

(* registry.go: the state of the registry, of the convergers and of the calls
   has its types; a call's converger was made. *)
THEOREM RegistryTypes == Spec => []TypeOK
<1>1. RegistryInv => TypeOK
  BY DEF RegistryInv, Typed
<1> QED
  BY <1>1, RegistryInductive, PTL

(* registry.go:152-158: of the calls that saw one version at most one is
   accepted, however they interleave. *)
THEOREM OneCallAccepted == Spec => []OneCallPerVersion
<1>1. RegistryInv => OneCallPerVersion
  BY DEF RegistryInv, Versions
<1> QED
  BY <1>1, RegistryInductive, PTL

(* registry.go:69-137: no converger escapes both removal and Shutdown. *)
THEOREM NoConvergerEscapes == Spec => []EveryConvergerIsStopped
<1>1. RegistryInv => EveryConvergerIsStopped
  BY DEF RegistryInv, Stops
<1> QED
  BY <1>1, RegistryInductive, PTL

(* registry.go:163-170, converger.go:262-266: an answer goes to the caller
   that waits for it, and every caller that waits is being served. *)
THEOREM AnswersBelong == Spec => []AnswersMatch
<1>1. RegistryInv => AnswersMatch
  <2>1. ASSUME RegistryInv, NEW r \in Reqs, req[r].pc = "wait"
        PROVE  \E k \in 1 .. made : conv[k].serving = r /\ req[r].conv = k
    BY <2>1 DEF RegistryInv, Typed, Refs, Served
  <2>2. ASSUME RegistryInv, NEW r \in Reqs, NEW k \in 1 .. made, conv[k].serving = r
        PROVE  req[r].pc = "wait"
    BY <2>2, Bounds DEF RegistryInv, Served
  <2> QED
    BY <2>1, <2>2 DEF AnswersMatch
<1> QED
  BY <1>1, RegistryInductive, PTL
=============================================================================
