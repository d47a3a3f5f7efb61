CONSTANTS
    Address = {ann, bob}
    MaxTokens = 3
SPECIFICATION FairSpec
CHECK_DEADLOCK FALSE
INVARIANT NoSubscriptionWithoutConsent
INVARIANT LinksOfThisSubscriptionWork
INVARIANT DigestsOnlyOnConsent
PROPERTY UnsubscribedIsLeftAlone
