SPECIFICATION Spec
CONSTANTS
  NaN = NaN
  Tokens <- MCTokens
  MaxTokens = 9
  Requests <- MCRequests
  Chars = {"a", "b", "*", "?"}
  MaxChars = 3
  Compared <- MCCompared
INVARIANTS
  TypeOK RefusalsPointAtTheMistake AnswersWhatTheTextSays ListedAttributesSuffice MissingNeverHelps
  GlobIsWildcards DenyPatternsAreWildcards OppositesExclude
