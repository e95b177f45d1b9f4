---------------------------- MODULE MCStrategyBook ----------------------------
EXTENDS StrategyBook
OneOfTwoLots == <<2, 1>>
=============================================================================
