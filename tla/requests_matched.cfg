SPECIFICATION Spec
CONSTANTS
    Alphabet <- MCAlphabet
    LowerCase <- MCLowerCase
    Secrets <- MCSecrets
    Index <- MCIndex
    Setups <- MCSetups
    Calls <- MCCalls
    NoiseArgs <- MCNoiseArgs
    Results <- MCResults
INVARIANTS KeysFollowMeaning NoSecretIsStored OfflineKeysAgree SuggestionSuffices
CHECK_DEADLOCK FALSE
