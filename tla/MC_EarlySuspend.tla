-------------------------- MODULE MC_EarlySuspend --------------------------
(* Small instance of EarlySuspend: handlers of three levels, two of them    *)
(* equal, one without a suspend and one without a resume hook.              *)
EXTENDS EarlySuspend

CONSTANTS blank, draw, draw2, fb

MCHandler == {blank, draw, draw2, fb}
MCLevel == [h \in MCHandler |-> IF h = blank THEN 50 ELSE IF h = fb THEN 150 ELSE 100]
MCHasSuspend == {blank, draw, fb}
MCHasResume == {blank, draw2, fb}
=============================================================================
