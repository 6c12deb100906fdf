------------------------------ MODULE Reputation ------------------------------
(***************************************************************************)
(* Threat intelligence about one address (enrich/reputation.py): what each  *)
(* provider's answer is taken to mean and how the answers are folded into   *)
(* one verdict and one score.  A provider that fails, or has no key, says   *)
(* nothing.  Counts are those of the answers, capped where the code caps.   *)
(***************************************************************************)
EXTENDS Integers

Verdicts == {"unknown", "benign", "suspicious", "malicious"}

Rank(v) == CASE v = "unknown"    -> 0
             [] v = "benign"     -> 1
             [] v = "suspicious" -> 2
             [] v = "malicious"  -> 3

\* What is made of an answer: a verdict and a score, or nothing.
Opinion(v, s) == [verdict |-> v, score |-> s]
NoOpinion     == Opinion("unknown", 0)

\* The community endpoint classifies an address, or reports noise only.
Greynoise(classification, noise) ==
    IF classification \in {"malicious", "benign"}
    THEN Opinion(classification, 0)
    ELSE Opinion(IF noise THEN "suspicious" ELSE "unknown", 0)

\* The confidence score is the provider's own, 0 to 100.
Abuseipdb(confidence) ==
    Opinion(IF confidence >= 50 THEN "malicious"
            ELSE IF confidence >= 10 THEN "suspicious" ELSE "benign", confidence)

\* The number of engines that find the address malicious or suspicious.
Virustotal(malicious, suspicious) ==
    Opinion(IF malicious >= 3 THEN "malicious"
            ELSE IF malicious >= 1 \/ suspicious >= 2 THEN "suspicious" ELSE "benign",
            IF malicious >= 10 THEN 100 ELSE malicious * 10)

MaxVerdict(current, candidate) == IF Rank(candidate) > Rank(current) THEN candidate ELSE current
MaxScore(a, b) == IF b > a THEN b ELSE a

Fold(a, b) == Opinion(MaxVerdict(a.verdict, b.verdict), MaxScore(a.score, b.score))

\* A private address is benign without asking; with intelligence switched off
\* nothing is asked and nothing is known.
Enrich(private, enabled, gn, ab, vt) ==
    IF private THEN Opinion("benign", 0)
    ELSE IF ~enabled THEN NoOpinion
    ELSE Fold(Fold(Fold(NoOpinion, gn), ab), vt)

\* The scores back the verdict, whichever providers answered: a score that
\* one provider calls bad is never shown beside a mild verdict of another.
Backed(o) ==
    /\ o.score >= 50 => o.verdict = "malicious"
    /\ o.score >= 10 => Rank(o.verdict) >= 2
===============================================================================
