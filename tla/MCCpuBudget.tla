----------------------------- MODULE MCCpuBudget -----------------------------
EXTENDS CpuBudget

\* A child in the slot after its parent's: the parent rolls first.
MCRollOrder == <<2, 1>>

MCBudget == <<1, 2>>
=============================================================================
