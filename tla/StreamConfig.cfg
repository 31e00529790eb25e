\* A client that asks three times.
CONSTANTS
  Basics <- AllBasics
  AmazonBasics <- Accepted
  Offloads <- Infos
  Unset = Unset
  MaxTries = 3
SPECIFICATION Spec
INVARIANTS InfoKept AmazonTold SuggestionUsable
CHECK_DEADLOCK FALSE
