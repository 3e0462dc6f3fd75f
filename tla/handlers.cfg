\* Two clients log in, use and reload two devices while the config file is edited.
SPECIFICATION Spec
CONSTANTS
    n1 = n1  n2 = n2  malformed = malformed
    Clients = {c1, c2}
    Names = {n1, n2}
    Types = {"L510", "L520", "P100"}
    Configs <- MCConfigs
    Malformed <- malformed
SYMMETRY Symmetric
INVARIANTS HTypeOK
PROPERTIES AnswersTrue SessionNeedsPassword
