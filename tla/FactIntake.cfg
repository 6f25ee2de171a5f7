CONSTANTS
  Urls <- AllUrls
  Serve <- Web
  MaxHops = 3
  Pieces <- Words
  Lower <- CaseFold
  Joints <- Bar
  Size <- Characters
  Digits <- Numbers
  Dates <- NoDates
  Aliases <- AliasesOf
  RequiredSignals <- SignalsOf
  Spellings <- SpellingsOf
  N = 3
  TypeOf <- Types3
  UrlOf <- UrlOf3
  Content <- Texts
  Before <- LastTexts
  Earlier <- EarlierTexts
  ModelAnswers <- AnswersOf
  Settings <- AllSettings
  ProviderCut = 160
  SourceCut = 180
  AuditCut = 1000
SPECIFICATION Spec
INVARIANTS TypeOK FactsAreAccountedFor OutcomeIsHonest CostIsNeverRepeated
