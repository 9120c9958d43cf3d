-------------------------- MODULE MCPaperPortfolio --------------------------
(* The portfolio tick of a session with three artifacts, for TLC.          *)
EXTENDS PaperPortfolio

NoCorr == [a \in 1..Artifacts |-> "none"]

A(scope, unit, cap, dd, role) ==
  [scope |-> scope, unit |-> unit, cap |-> cap, drawdown |-> dd, role |-> role, approved |-> TRUE,
   admitted |-> TRUE, fits |-> TRUE, corr |-> NoCorr]

(* Two artifacts want more of a symbol than it may have, a third one more  *)
(* than the gross limit leaves.                                            *)
Contended == <<A({"BTC"}, 3, 4, 1, "core"), A({"BTC"}, 2, 2, 0, "carry"), A({"ETH"}, 5, 4, 0, "carry")>>

(* A role over its share, an artifact with two symbols, a low correlation. *)
Crowded == <<A({"BTC"}, 1, 1, 1, "core"), A({"BTC", "ETH"}, 1, 2, 1, "core"),
             [A({"ETH"}, 1, 1, 1, "carry") EXCEPT !.corr = [NoCorr EXCEPT ![1] = "low"]]>>

(* A correlation declared by the earlier of two, a low one, and a drawdown *)
(* budget that does not last.                                              *)
Correlated == <<[A({"BTC"}, 1, 1, 2, "core") EXCEPT !.corr = [NoCorr EXCEPT ![3] = "high"]],
                [A({"ETH"}, 1, 3, 3, "carry") EXCEPT !.corr = [NoCorr EXCEPT ![1] = "low"]],
                A({"ETH"}, 1, 1, 1, "carry")>>

(* Artifacts no plan may hold.                                             *)
Unfit == <<[A({"BTC"}, 1, 1, 0, "core") EXCEPT !.admitted = FALSE],
           [A({"BTC"}, 1, 1, 0, "core") EXCEPT !.approved = FALSE],
           [A({"ETH"}, 1, 1, 0, "core") EXCEPT !.fits = FALSE]>>

MCProfiles == {Contended, Crowded, Correlated, Unfit}

(* One artifact, for the reduce-only run.                                  *)
OneArtifact == {<<A({"BTC"}, 3, 3, 0, "core")>>}

TwoThirds == <<2, 3>>
=============================================================================
