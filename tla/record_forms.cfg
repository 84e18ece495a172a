SPECIFICATION MCSpec
CONSTANT
    Values = {v1, v2}
    MaxSubmissions = 2
    Budget <- OneEach
    Texts = {t1, t2}
    Blank = blank
    Profiles = {"development", "field-sales", "sdr-bdr"}
    Sections = {top, side}
    Facts = {f1, f2, f3, f4}
    Promoted = {f1, f2}
    Waiting = {f3}
    MaxVersions = 3
    FactBudgets <- FewOfEach
INVARIANT CorrectionIsOfItsFact
PROPERTY NoUnreadOverwrite
PROPERTY UntouchedSettingsStay
PROPERTY FactsNeverGoBack
CHECK_DEADLOCK FALSE
