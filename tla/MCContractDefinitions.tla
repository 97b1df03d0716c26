----------------------- MODULE MCContractDefinitions -----------------------
EXTENDS ContractDefinitions

CONSTANTS c1, c2, c3, c4

ServedOrFailed == {"definitions", "otherNetwork", "error"}

Four == {c1, c2, c3, c4}
=============================================================================
