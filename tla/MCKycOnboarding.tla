---------------------------- MODULE MCKycOnboarding ----------------------------
\* Sessions that share one email.
EXTENDS KycOnboarding
CONSTANTS e1
SameEmail == [s \in Session |-> e1]
=============================================================================
