CONSTANTS
  first = first
  second = second
  alias = alias
  shadowed = shadowed
  print = print
  log = log
  call = call
  quoted = quoted
  NoComment = NoComment
  NoTarget = NoTarget
  Lines = {1, 2, 3, 4}
  Codes <- MCCodes
  Tokens <- MCTokens
  StartsWith <- MCStartsWith
  AliasOf <- MCAliasOf
  Exempt = {"E501"}
  Faults <- MCFaults
  CodeOf <- MCCodeOf
  LineOf <- MCLineOf
  HeardAt <- MCHeardAt
  Leads <- MCLeads
  DropsAt <- MCDropsAt
  Fixable <- MCFixable
  UnsafeFix <- MCUnsafe
  Breaks <- MCBreaks
  Outer <- MCOuter
  KptCodes <- MCKpt
  KstCodes = {"KST001"}
  Takes = {1, 2, 3}
  Configs <- MCConfigs
  Texts <- MCTexts
  Whys = {"none", "good"}
  MaxPasses = 4
  MaxEvents = 2
  EditPhases = {"linted"}
SPECIFICATION Spec
INVARIANTS ConvergedIsClean AddNoqaSilences
PROPERTIES FixesOnlyPermitted AnnotateKeeps FixEnds

CHECK_DEADLOCK FALSE
