SPECIFICATION QuerySpec
CONSTANTS
  MaxLength = 5
  MaxSuggestions = 1
  Seeds <- MCSeeds
INVARIANTS
  FoundIsAnswered
  KnownByURL
  SuggestedIsFound
  SpellingsMeet
  OneCandidate
