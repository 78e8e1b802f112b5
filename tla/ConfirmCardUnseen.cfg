CONSTANTS
    Tabs = {t1}
    None = None
    SlotLimit = 1
    MaxVersion = 2
    MaxClicks = 2
SPECIFICATION Spec
INVARIANT
    ConfirmedAsShown
