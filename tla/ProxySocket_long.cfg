SPECIFICATION Spec
CONSTANTS
    MaxUp <- MCMaxUp
    MaxDown <- MCMaxDown
    LongUp <- MCLongUp
    LongDown <- MCLongDown
INVARIANT LongMessagesPass
