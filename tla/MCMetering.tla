----------------------------- MODULE MCMetering -----------------------------
(* Values of the constants for the run of Metering. *)
EXTENDS Metering, TLC

\* A Sunday evening, and the evening before a new month.
Evenings == {24 * 6 + 21, 24 * 29 + 21}

OneOfEach == "A" :> 30 @@ "B" :> 10

\* The rules of the seed; rules that leave hours without a price; one rule that
\* crosses midnight.
ModelTariffs == {DefaultRules, <<Rule(10, 15, Peak), Rule(15, 18, Flat)>>, <<Rule(23, 7, Valley)>>}
=============================================================================
