SPECIFICATION ThreadSpec
PROPERTIES
    ExitsOnALineOfItsOwn
    MainExits
