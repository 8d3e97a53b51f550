------------------------ MODULE MCFundingAccumulator ------------------------
\* FundingAccumulator with a few entries, for TLC: all of them on markets
\* the pair hedges, so that every one has to arrive.
EXTENDS FundingAccumulator, TLC

MCHedged == 1..Entries
=============================================================================
