SPECIFICATION Spec
CONSTANTS
    Programs <- MCPrograms
    Loaders <- MCLoaders
INVARIANT PlacesMeantButKnown
INVARIANT CallsKeptButKnown
INVARIANT OneAddress
INVARIANT TableFilledButKnown
INVARIANT InitArrayInOrder
INVARIANT DynsymComplete
INVARIANT SizesPredicted
 
