------------------------------ MODULE MCSemver ------------------------------
(***************************************************************************)
(* Bounded check of version matching: a behaviour asks one question, either *)
(* whether a requirement of one comparator admits a version, or whether a  *)
(* two-sided one admits a released version, or how two short requirements  *)
(* compare.                                                                *)
(***************************************************************************)
EXTENDS Semver

CONSTANTS MaxNumber, MaxPre     \* bounds on version numbers and on tags

ASSUME BoundsAssumption == MaxNumber \in Nat /\ MaxPre \in Nat

VARIABLES req, ver,
          other     \* what req is compared with
vars == <<req, ver, other>>

Numbers  == 0 .. MaxNumber
Versions == [major : Numbers, minor : Numbers, patch : Numbers,
             pre : 0 .. MaxPre]

Released == { v \in Versions : v.pre = NoPre }

Comparators ==
  { c \in [op : Op, major : Numbers, minor : Numbers \cup {Absent},
           patch : Numbers \cup {Absent}, pre : 0 .. MaxPre] :
      /\ c.minor = Absent => c.patch = Absent
      /\ c.patch = Absent => c.pre = NoPre
      /\ c.op = "Wildcard" => c.patch = Absent }

\* The lower bound of a two-sided requirement such as ">=1.0, <2.0".
LowerBounds == { c \in Comparators : c.op = "GreaterEq"
                                   /\ c.patch # Absent /\ c.pre = NoPre }

Start == [major |-> 0, minor |-> 0, patch |-> 0, pre |-> NoPre]

\* Requirements of up to two comparators.
Short ==
  { c \in Comparators : /\ c.op \in {"GreaterEq", "Less"} /\ c.major + OrZero(c.minor) <= 1
                        /\ OrZero(c.patch) + c.pre <= 1 }
Shorts == { << >> } \cup { <<c>> : c \in Short }
            \cup { <<x[1], x[2]>> : x \in { y \in Short \X Short : y[1].patch = y[2].patch } }

Init == req = << >> /\ ver = Start /\ other = << >>

AskOne == /\ req = << >>
          /\ \E c \in Comparators : req' = <<c>>
          /\ ver' \in Versions
          /\ UNCHANGED other

AskTwo == /\ req = << >>
          /\ \E c \in LowerBounds, d \in Comparators :
                d.op \in {"Less", "LessEq"} /\ req' = <<c, d>>
          /\ ver' \in Released
          /\ UNCHANGED other

AskOrder == /\ req = << >>
            /\ req' \in Shorts \ {<< >>}
            /\ other' \in Shorts
            /\ UNCHANGED ver

Next == AskOne \/ AskTwo \/ AskOrder

Spec == Init /\ [][Next]_vars

(***************************************************************************)
(* A requirement admits exactly the versions in the ranges its comparators *)
(* denote, a tagged version only beside a comparator naming it: the seven  *)
(* hand-written matches_* functions of version.rs against the meaning of   *)
(* the operators.  Two comparators differ from that meaning in one case    *)
(* only, which is left out: a tagged version against a bound with no patch *)
(* number (">=1.2.3-a, <=1.2" rejects 1.2.3-b).                            *)
(***************************************************************************)
MatchesIsRange ==
  (ver.pre = NoPre \/ Len(req) = 1) =>
     (Matches(req, ver) <=>
        /\ \A i \in DOMAIN req : InRange(req[i], ver)
        /\ ver.pre = NoPre \/ \E i \in DOMAIN req :
                                 PreIsCompatible(req[i], ver))

(***************************************************************************)
(* What a requirement admits has no hole: between two released versions it *)
(* admits, it admits every released version.  Resolution (the maximum of   *)
(* the admitted versions) and the narrowing done by clean.rs both take the *)
(* admitted set for an interval.                                           *)
(***************************************************************************)
NoHole ==
  (ver.pre = NoPre /\ ~Matches(req, ver)) =>
     \/ \A u \in Released : VersionLess(u, ver) => ~Matches(req, u)
     \/ \A w \in Released : VersionLess(ver, w) => ~Matches(req, w)

(***************************************************************************)
(* The hand-written order of requirements is an order, and it tells apart  *)
(* what the derived equality tells apart: of two requirements that differ  *)
(* exactly one is less.  The dataflow groups (crate, requirement) by this  *)
(* order; were two requirements alike in it, releases matched for one      *)
(* would be taken for the other.                                           *)
(***************************************************************************)
OrderTellsApart ==
  /\ ReqLess(req, other) \/ ReqLess(other, req) \/ req = other
  /\ ReqLess(req, other) => req # other /\ ~ReqLess(other, req)
=============================================================================
