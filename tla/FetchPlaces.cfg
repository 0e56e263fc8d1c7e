CONSTANT MaxPlaces = 4
SPECIFICATION LiveSpec
INVARIANTS NoSendOnClosed PanicsWithNothing
PROPERTY WeatherIsPrinted
CHECK_DEADLOCK FALSE
