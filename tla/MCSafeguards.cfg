SPECIFICATION SafeguardsSpec
INVARIANTS PanelIsReadAsItSpoke ComposerKeepsItsWord OneRunOnScreen
    TrustIsEarned EvidenceIsFair PagesAreReadAsAllowed
PROPERTIES TabsHoldTheirToken
CHECK_DEADLOCK FALSE
