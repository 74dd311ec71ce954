\* Six policies, and the other headers as in MCPages.
CONSTANT Pages <- MCPages
SPECIFICATION HeaderSpec
INVARIANT AdviceLeads
PROPERTY AdviceNeverLowersScore
\* The owner is done when no finding is left.
CHECK_DEADLOCK FALSE
