------------------------- MODULE MCNotebookLifecycle -------------------------
(* Small instances of NotebookLifecycle for TLC. *)
EXTENDS NotebookLifecycle

MCCfgs == {0, 1}
MCOrders == {1}

(***************************************************************************)
(* For safety states are told apart up to what a later step or a property  *)
(* can still read of them:                                                 *)
(*  - a step only asks whether a copy exists and whether it is the stored  *)
(*    version, and a copy that is not never becomes it again, because      *)
(*    versions grow;                                                       *)
(*  - of its copies of the Notebook notebook-controller reads whether the  *)
(*    stop annotation is there and the template; the restart it tests is   *)
(*    the stored one;                                                      *)
(*  - a copy odh-notebook-controller cannot write any more is asked for a  *)
(*    restart only if it is started, and for the user's part only if it    *)
(*    has a mount to take out;                                             *)
(*  - prepared, fin and the histories are never reset: what holds for ever *)
(*    by one of them does not depend on the others.                        *)
(***************************************************************************)
Version(copy, stored) == IF copy.rv = 0 THEN 0 ELSE IF copy.rv = stored.rv THEN 1 ELSE 2
Copy(copy, stored) == [copy EXCEPT !.rv = Version(copy, stored)]
UpCopy(copy) == <<Version(copy, nb), copy.stop # NoStop, Template(copy)>>
OdhCopy(copy) ==
    IF Version(copy, nb) # 2 THEN Copy(copy, nb)
    ELSE [copy EXCEPT !.rv = 2,
                      !.restart = @ /\ copy.stop = NoStop,
                      !.user = IF copy.inj.ca # 0 THEN @ ELSE 0]

Touched == acts > 0 \/ unmounted
Allowed == (prepared /\ nb.fin) \/ overridden

UpToVersions ==
    <<Copy(nb, nb), Copy(sts, sts), pod, cfg, bundle, UpCopy(upC),
      Copy(stsC, sts), upQ, up.pc, UpCopy(up.inst), OdhCopy(odhC), odhQ, odh,
      bootCfg, bounds, Touched, Allowed, Allowed \/ prepared>>
==============================================================================
