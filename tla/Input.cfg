CONSTANTS
    Keys <- MCKeys
    Buttons = {"left", "right"}
    Places <- MCPlaces
    MaxFifo = 3
SPECIFICATION Spec
INVARIANTS
    StateIsPressed
    KeysAreHeld
    ButtonsAreHeld
    PointerFollows
