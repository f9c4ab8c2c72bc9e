SPECIFICATION Spec
CONSTANTS
  ann = ann
  bob = bob
  t1 = t1
  Player = {ann, bob}
  Client = {bob}
  Reporter = {ann}
  Unsteady = {ann}
  Thing = {t1}
  Post <- Correspondents
  Postage <- Prices
  Sums = {1}
  Purse <- Purses
  Thief = {ann}
  Riches = 1
  MaxMail = 2
  MaxRent = 1
  Staff = Staff
  Nobody = Nobody
  NoThing = NoThing
  Gone = Gone
  Ground = Ground
INVARIANTS TypeOK ParcelsKept PostsWhatWasOrdered ReportsAreNotMailed
PROPERTIES ImplementsLetterbox CommandEnds
