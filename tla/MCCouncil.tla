------------------------------ MODULE MCCouncil ------------------------------
(* A panel of three for TLC: sa and sb review each other, sc reviews sa    *)
(* and is reviewed by nobody; the quorum is two, sa or sc among them.      *)
EXTENDS Council

CONSTANTS sa, sb, sc

MCReviews == [s \in Seats |-> CASE s = sa -> {sb} [] s = sb -> {sa} [] s = sc -> {sa}]
=============================================================================
