\* Every panel, two or three clicks, requests and fetches that end in any order or fail.
CONSTANT
  MaxClicks <- Clicks
SPECIFICATION Spec
\* a page with nothing under way waits for its reader, whose clicks are bounded
CHECK_DEADLOCK FALSE
 
INVARIANT OwnWritesShown
PROPERTY SecretsKept
