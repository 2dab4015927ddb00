SPECIFICATION Spec
CONSTANT MaxTries = 10
PROPERTY ComesToListen
