---------------------------- MODULE MCLoanIndex ----------------------------
EXTENDS LoanIndex

CONSTANTS l1, l2, r1, r2, r3, s1, s2, s3, s4, p1, p2

TwoLoans == {l1, l2}
TwoRequests == {r1, r2}
ThreeRequests == {r1, r2, r3}
OneProcess == {p1}
TwoProcesses == {p1, p2}
TwoIds == {s1, s2}
FourIds == {s1, s2, s3, s4}
=============================================================================
