\* A seeder, a booting container and a scraper; a law with its excerpt, the calls, and a sample
\* that no law replaces.
SPECIFICATION FairSpec
CONSTANTS
  Seeders = {seeder}
  Boots = {boot}
  Scrapers = {scraper}
  law = law
  excerpt = excerpt
  note = note
  Laws = {law}
  Portals = {}
  Calls = {calls}
  Samples = {excerpt, note}
  Replaces <- ReplacesLaw
  Nobody = Nobody
  ByHand = {law}
  MaxDeaths = 1
INVARIANTS WholeUnlessCut SeededIsCached
PROPERTIES FullUnlessStuck
