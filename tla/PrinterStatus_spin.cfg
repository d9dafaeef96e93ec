CONSTANTS
  Answers <- OneAnswer
  Splits = {TRUE}
SPECIFICATION FairSpec
PROPERTIES Returns
