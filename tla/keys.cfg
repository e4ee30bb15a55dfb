SPECIFICATION Spec
CONSTANTS
    Messages <- MCMessages
    Locators <- MCLocators
    Bound <- MCBound
    Title <- MCTitle
PROPERTY KeysExact
CHECK_DEADLOCK FALSE
