----------------------------- MODULE ConvergePlan ----------------------------
(***************************************************************************)
(* Converger.plan (pkg/converge/converger.go:387-493): from the list of    *)
(* containers and the target of a component, the steps that lead there.    *)
(*                                                                         *)
(* A container is [id, ver, reason], reason "" while it is not marked for  *)
(* termination.  A target is [ver, count, para, order]: the component's    *)
(* version, the count, and the component's startParallelism and            *)
(* restartOrder, "" when they are not set.  Containers of a converger all  *)
(* have its component's name, which is left out.                           *)
(***************************************************************************)
EXTENDS Integers, Sequences, SequencesExt

Unset == ""   \* no reason to terminate, no value in the project file
Parallelisms == {Unset, "parallel", "series", "seriesfirst"}
RestartOrders == {Unset, "startstop", "stopstart"}

ScaleDown == "scale down"
VersionChanged == "component version changed"

StartStep(ver, lock) == [op |-> "start", ver |-> ver, lock |-> lock]
StopStep(id, reason) == [op |-> "stop", id |-> id, reason |-> reason]

(* Mutant: the loop index is compared with the count. *)
ScanOne_ByIndex(acc, cn, target) ==
  LET stop(reason) == [acc EXCEPT !.toStop = Append(@, StopStep(cn.id, reason))] IN
  IF acc.active + Len(acc.toStop) >= target.count THEN stop(ScaleDown)
  ELSE IF cn.reason # Unset THEN stop(cn.reason)
  ELSE IF cn.ver = target.ver THEN [acc EXCEPT !.active = @ + 1]
  ELSE stop(VersionChanged)

(* Mutant: a container of the target version is counted though it is marked. *)
ScanOne_IgnoresMark(acc, cn, target) ==
  LET stop(reason) == [acc EXCEPT !.toStop = Append(@, StopStep(cn.id, reason))] IN
  IF acc.active >= target.count THEN stop(ScaleDown)
  ELSE IF cn.ver = target.ver THEN [acc EXCEPT !.active = @ + 1]
  ELSE stop(VersionChanged)

(* The loop body: keep and count the container, or stop it and say why. *)
ScanOne(acc, cn, target) ==
  LET stop(reason) == [acc EXCEPT !.toStop = Append(@, StopStep(cn.id, reason))] IN
  IF acc.active >= target.count THEN stop(ScaleDown)
  ELSE IF cn.reason # Unset THEN stop(cn.reason)
  ELSE IF cn.ver = target.ver THEN [acc EXCEPT !.active = @ + 1]
  ELSE stop(VersionChanged)

(* The loop over the list. *)
Scan(cs, target) ==
  LET acc[i \in 0 .. Len(cs)] ==
        IF i = 0 THEN [active |-> 0, toStop |-> <<>>]
        ELSE ScanOne(acc[i - 1], cs[i], target)
  IN acc[Len(cs)]

(* Does the i-th start of a plan take the component's lock? *)
TakesLock(target, i) ==
  \/ target.para = "series"
  \/ target.para = "seriesfirst" /\ i = 1

StartsFirst(target) == target.order = "startstop"

(* Starts and stops alternate as long as there are both; the others follow. *)
Alternate(target, toStart, toStop) ==
  LET stops == Len(toStop)
      pairs == IF toStart < stops THEN toStart ELSE stops
      start(i) == StartStep(target.ver, TakesLock(target, i))
      paired(k) == IF (k % 2 = 1) = StartsFirst(target)
                   THEN start((k + 1) \div 2) ELSE toStop[(k + 1) \div 2]
      left(i) == IF i > stops THEN start(i) ELSE toStop[i]
  IN [k \in 1 .. toStart + stops |->
        IF k <= 2 * pairs THEN paired(k) ELSE left(k - pairs)]

Plan(cs, target) ==
  LET scan == Scan(cs, target)
      toStart == target.count - scan.active
  IN [pull |-> toStart > 0, steps |-> Alternate(target, toStart, scan.toStop)]
=============================================================================
