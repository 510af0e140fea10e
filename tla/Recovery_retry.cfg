CONSTANTS
    source = source
    account = account
    suspend = suspend
    disable = disable
    confirm = confirm
    Rights <- MCRights
    Restricts <- MCRestricts
    Opens <- MCOpens
    RightOf <- MCRightOf
    Contained <- MCContained
    Assets = {photo}
    MaxRequests = 2
    RetryAcrossBackup = TRUE
SPECIFICATION Spec
CHECK_DEADLOCK FALSE
PROPERTIES NothingIsGivenBack
